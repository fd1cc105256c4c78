------------------------------- MODULE MCCpu -------------------------------
(***************************************************************************)
(* The instance of CpuPropiedades for TLC.                                 *)
(***************************************************************************)
EXTENDS CpuPropiedades

=============================================================================
