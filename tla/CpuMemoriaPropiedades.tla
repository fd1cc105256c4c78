----------------------- MODULE CpuMemoriaPropiedades -----------------------
(***************************************************************************)
(* What must hold of the CPU and MemoriaSwap together.                     *)
(***************************************************************************)
EXTENDS CpuMemoria, MemoriaPropiedades

\* Whatever order the threads take, the CPU of the composition behaves as the
\* module Cpu says, so what holds of it holds here.  A late SUSPENDER may make
\* the memory answer -1, which Cpu leaves out.
ImplementaCpu == C!CpuSpec

\* A process uses only frames of its own, also those it does not ask the
\* memory for: the translations of the TLB (tlb.c:107) and the first operand
\* of a COPY, translated before the second (CPU.c:79).
TraduccionesPropias ==
    pcb # Nadie =>
        /\ \A i \in DOMAIN entradas :
            marco[entradas[i].nroFrame].idProceso = pcb
        /\ \A i \in DOMAIN marcos : marco[marcos[i]].idProceso = pcb

\* The memory replaces pages without telling the CPU (tlb.c:43), yet the
\* newest translation is of the page that its frame has, when nothing but a
\* translation makes an entry the newest: under FIFO, or with one entry.  A
\* late SUSPENDER frees the frame under the TLB.  Once
\* two processes have tables, rows keep frames that hold other pages, and so
\* does the TLB.
NuevaCoherente ==
    LET e == Head(entradas) IN
    ~Tarde /\ UnaTabla /\ (algoritmo = "FIFO" \/ size = 1) /\ entradas # <<>>
        /\ pcb # Nadie /\ pcDispatch # "segundo_llamado"
        => marco[e.nroFrame] = [idProceso |-> pcb, nroPagina |-> e.nroPagina]

=============================================================================
