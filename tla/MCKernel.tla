------------------------------ MODULE MCKernel ------------------------------
(* Instances of Kernel for TLC. *)
EXTENDS KernelPropiedades, TLC

CONSTANTS p1, p2, p3
DosProcesos == {p1, p2}
TresProcesos == {p1, p2, p3}
Simetria == Permutations(Pid)
=============================================================================
