---------------------------- MODULE MCCpuMemoria ----------------------------
(***************************************************************************)
(* Instances of CpuMemoriaPropiedades for TLC.                             *)
(***************************************************************************)
EXTENDS CpuMemoriaPropiedades

CONSTANTS p1, p2

DosPaginas == [p \in Pid |-> 2]
=============================================================================
