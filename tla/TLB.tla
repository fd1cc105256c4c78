-------------------------------- MODULE TLB --------------------------------
(***************************************************************************)
(* The TLB of the CPU (tlb.c): a list of entries, the newest first.  It is *)
(* used by the dispatch thread alone, so each function is one step.        *)
(*                                                                         *)
(* Its size and its algorithm are read from the configuration, which Init  *)
(* chooses.  With a size of 0 the pointer TLB is never set and the first   *)
(* search fails; such a configuration is left out.                         *)
(***************************************************************************)
EXTENDS Integers, Sequences

CONSTANTS
    NumerosDePagina,
    NumerosDeMarco,
    ENTRADAS_TLB      \* the sizes of the configurations considered

SinMarco == -1

ASSUME TamaniosDeTLB == ENTRADAS_TLB \subseteq Nat \ {0}
ASSUME SinMarcoNoEsMarco == SinMarco \notin NumerosDeMarco

VARIABLES
    size, algoritmo,  \* TLB->size, TLB->algoritmo
    entradas          \* TLB->entradas

tlb == <<size, algoritmo, entradas>>

Entradas == [nroPagina : NumerosDePagina, nroFrame : NumerosDeMarco]

iniciar_TLB ==
    /\ size \in ENTRADAS_TLB /\ algoritmo \in {"LRU", "FIFO"}
    /\ entradas = <<>>

-----------------------------------------------------------------------------
\* list_remove and list_add_in_index(0), with the indices of TLA+.
Quitar(s, i) == SubSeq(s, 1, i - 1) \o SubSeq(s, i + 1, Len(s))
AlFrente(e, s) == <<e>> \o s

\* The first entry of the page.
EsLaPrimera(n, i) ==
    /\ entradas[i].nroPagina = n
    /\ \A j \in 1..(i - 1) : entradas[j].nroPagina # n
Acierto(n) == \E i \in DOMAIN entradas : entradas[i].nroPagina = n

\* Variant: a hit leaves the entry where it is.
BuscarSinMover(n, f) ==
    /\ \E i \in DOMAIN entradas : EsLaPrimera(n, i) /\ f = entradas[i].nroFrame
    /\ UNCHANGED tlb

\* The search returns f.
buscar_en_TLB(n, f) ==
    /\ \E i \in DOMAIN entradas :
        /\ EsLaPrimera(n, i) /\ f = entradas[i].nroFrame
        /\ entradas' = IF algoritmo = "LRU"
                       THEN AlFrente(entradas[i], Quitar(entradas, i))
                       ELSE entradas
    /\ UNCHANGED <<size, algoritmo>>

\* It returns -1, which its caller takes for a miss (CPU.c:209): there is no
\* entry of the page, or the memory answered -1 as its frame.
buscar_en_vano(n) ==
    IF Acierto(n) THEN buscar_en_TLB(n, SinMarco) ELSE UNCHANGED tlb

tlbTieneEntradasLibres == size > Len(entradas)

llenar_TLB(e) == entradas' = AlFrente(e, entradas)

\* Variant: the newest entry makes room.
ReemplazaLaNueva(e) == entradas' = AlFrente(e, Quitar(entradas, 1))

reemplazo_lru(e) == entradas' = AlFrente(e, Quitar(entradas, Len(entradas)))
reemplazo_fifo(e) == entradas' = AlFrente(e, Quitar(entradas, size))

\* Variant: there is always room.
LlenarSiempre(n, f) ==
    /\ llenar_TLB([nroPagina |-> n, nroFrame |-> f])
    /\ UNCHANGED <<size, algoritmo>>

actualizar_TLB(n, f) ==
    LET e == [nroPagina |-> n, nroFrame |-> f] IN
    /\ \/ tlbTieneEntradasLibres /\ llenar_TLB(e)
       \/ ~tlbTieneEntradasLibres /\ algoritmo = "LRU" /\ reemplazo_lru(e)
       \/ ~tlbTieneEntradasLibres /\ algoritmo # "LRU" /\ reemplazo_fifo(e)
    /\ UNCHANGED <<size, algoritmo>>

limpiar_entradas_TLB == entradas' = <<>> /\ UNCHANGED <<size, algoritmo>>

-----------------------------------------------------------------------------
\* Any use of it: actualizar_TLB comes after a search that found nothing.
TLBNext ==
    \/ \E n \in NumerosDePagina, f \in NumerosDeMarco :
        \/ buscar_en_TLB(n, f)
        \/ ~Acierto(n) /\ actualizar_TLB(n, f)
    \/ limpiar_entradas_TLB

TLBSpec == iniciar_TLB /\ [][TLBNext]_tlb

=============================================================================
