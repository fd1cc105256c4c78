------------------------------ MODULE MCMemoria ------------------------------
(***************************************************************************)
(* Instances of MemoriaPropiedades for TLC.                                *)
(***************************************************************************)
EXTENDS MemoriaPropiedades

CONSTANTS p1, p2, x, y

TresPaginas == [p \in Pid |-> 3]
DosPaginas == [p \in Pid |-> 2]
DosYUna == [p \in Pid |-> IF p = p1 THEN 2 ELSE 1]
=============================================================================
