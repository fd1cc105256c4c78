------------------------------ MODULE CicloVida ------------------------------
(***************************************************************************)
(* What the Kernel promises about one process and about the processor: a   *)
(* process is in one state of the seven-state diagram, it moves only along *)
(* the arrows of the diagram, and the processor is given to a process only *)
(* when no process has it.  How lists, semaphores and threads achieve it   *)
(* is in Kernel.                                                           *)
(***************************************************************************)
CONSTANT Pid

VARIABLE estado

Estados == {"FUERA", "NEW", "READY", "EXEC", "BLOCKED", "READY_SUSPENDED", "EXIT"}

Pasa(p, desde, hacia) ==
    /\ estado[p] = desde
    /\ estado' = [estado EXCEPT ![p] = hacia]

CVInit == estado = [p \in Pid |-> "FUERA"]

\* The console's program arrives; the long-term scheduler admits it.
Llegar(p) == Pasa(p, "FUERA", "NEW")
Admitir(p) == Pasa(p, "NEW", "READY")

Despachar(p) ==
    /\ \A q \in Pid : estado[q] # "EXEC"
    /\ Pasa(p, "READY", "EXEC")

Desalojar(p) == Pasa(p, "EXEC", "READY")
Bloquear(p) == Pasa(p, "EXEC", "BLOCKED")
Terminar(p) == Pasa(p, "EXEC", "EXIT")

\* The end of an I/O, of a process that is still in memory or suspended.
FinIO(p) == Pasa(p, "BLOCKED", "READY")
FinIOSuspendido(p) == Pasa(p, "BLOCKED", "READY_SUSPENDED")
Reanudar(p) == Pasa(p, "READY_SUSPENDED", "READY")

CVNext ==
    \E p \in Pid :
        \/ Llegar(p) \/ Admitir(p) \/ Despachar(p) \/ Desalojar(p)
        \/ Bloquear(p) \/ Terminar(p) \/ FinIO(p) \/ FinIOSuspendido(p)
        \/ Reanudar(p)

CVSpec == CVInit /\ [][CVNext]_estado
=============================================================================
