-------------------------- MODULE CpuPropiedades --------------------------
(***************************************************************************)
(* What must hold of the CPU and of its TLB.                               *)
(***************************************************************************)
EXTENDS Cpu

PcDispatch == {"libre", "fetch", "traduce", "primer_llamado", "segundo_llamado",
               "acceso", "revisa", "baja", "limpia"}

\* Types of the TLB, of the dispatch thread and of the flag; an access has a
\* frame for each of its pages (CPU.c:203).
CpuTypeOK ==
    /\ size \in ENTRADAS_TLB /\ algoritmo \in {"LRU", "FIFO"}
    /\ entradas \in Seq(Entradas)
    /\ pcDispatch \in PcDispatch /\ pcb \in Pid \cup {Nadie}
    /\ op \in {"", "NO_OP", "READ", "WRITE", "COPY"}
    /\ operandos \in Seq(NumerosDePagina) /\ marcos \in Seq(NumerosDeMarco)
    /\ interrupciones \in BOOLEAN
    /\ recibidas \in Nat /\ devueltas \in Nat
    /\ pcDispatch \in {"primer_llamado", "segundo_llamado"} => Falta
    /\ pcDispatch = "acceso" => Len(marcos) = Len(operandos)

-----------------------------------------------------------------------------
(* The TLB.                                                                *)

\* Never two entries for a page, nor more entries than the configuration
\* says: the search for a page (tlb.c:107) and the addition after the memory
\* answered (CPU.c:216) are apart, and neither looks at the other's result.
EntradasUnicas ==
    /\ Len(entradas) <= size
    /\ \A i, j \in DOMAIN entradas :
        entradas[i].nroPagina = entradas[j].nroPagina => i = j

\* The list is a cache: what it holds, and which entry makes room for a new
\* one under each algorithm (tlb.c:43-121).
Lista == INSTANCE Cache WITH
    capacidad <- size, politica <- algoritmo,
    contenido <- {entradas[i] : i \in DOMAIN entradas},
    masNueva <- {<<entradas[q[1]], entradas[q[2]]>> :
                    q \in {r \in (DOMAIN entradas) \X (DOMAIN entradas) :
                            r[1] < r[2]}}

ImplementaCache == Lista!CacheSpec

\* A translation that the instruction has made is in the TLB when it goes on,
\* found there or added, and under LRU it is the newest: the hit moves it
\* (tlb.c:107) and the addition puts it first (tlb.c:33, 59 and 90).
UltimaTraduccion ==
    LET k == Len(marcos)
        EsDe(e) == e = [nroPagina |-> operandos[k], nroFrame |-> marcos[k]]
    IN  pcDispatch \in {"traduce", "acceso", "revisa"} /\ k # 0 =>
            /\ \E i \in DOMAIN entradas : EsDe(entradas[i])
            /\ algoritmo = "LRU" => EsDe(Head(entradas))

-----------------------------------------------------------------------------
(* Interrupts.                                                             *)

\* An interrupt makes at most one process come back, although the flag is
\* lowered after the process was sent and the interrupt thread may raise it
\* at any point in between (CPU.c:61 and 198).
InterrupcionUnica == devueltas <= recibidas

\* A process that is in the CPU when the flag goes up leaves it: no
\* instruction cycle goes on forever past a raised flag (CPU.c:189-199).
Desalojo == interrupciones /\ pcb # Nadie ~> pcb = Nadie

=============================================================================
