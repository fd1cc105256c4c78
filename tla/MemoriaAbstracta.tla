-------------------------- MODULE MemoriaAbstracta --------------------------
(***************************************************************************)
(* What MemoriaSwap promises its programs, without frames, tables or swap: *)
(* each page of a process has a value, which only a write of that process  *)
(* changes.  One access is served at a time; its answer is the value that  *)
(* the page has.  A process that exits has no pages.                       *)
(*                                                                         *)
(* It may fail, and then it promises nothing any more.                     *)
(***************************************************************************)
EXTENDS Integers

CONSTANTS Pid, Paginas, Valores, Blanco

VARIABLES valor,    \* valor[p][n]: what page n of process p has
          pedida,   \* the access that is served, at most one: {<<p, n>>}
          dato,     \* its answer: {v}
          salidos,  \* the processes that have exited
          fallida

vars == <<valor, pedida, dato, salidos, fallida>>

PagAUsar(p) == 0..(Paginas[p] - 1)
EnBlanco(p) == [n \in PagAUsar(p) |-> Blanco]

Init ==
    /\ valor = [p \in Pid |-> EnBlanco(p)]
    /\ pedida = {} /\ dato = {} /\ salidos = {} /\ fallida = FALSE

Pide(p, n) ==
    /\ p \notin salidos /\ n \in PagAUsar(p)
    /\ pedida = {} /\ pedida' = {<<p, n>>}
    /\ UNCHANGED <<valor, dato, salidos>>

Lee(p, n) ==
    /\ pedida = {<<p, n>>} /\ dato = {} /\ dato' = {valor[p][n]}
    /\ UNCHANGED <<valor, pedida, salidos>>

Escribe(p, n, v) ==
    /\ pedida = {<<p, n>>} /\ dato = {} /\ dato' = {v}
    /\ valor' = [valor EXCEPT ![p][n] = v]
    /\ UNCHANGED <<pedida, salidos>>

Contesta ==
    /\ dato # {} /\ dato' = {} /\ pedida' = {}
    /\ UNCHANGED <<valor, salidos>>

Sale(p) ==
    /\ p \notin salidos /\ salidos' = salidos \cup {p}
    /\ \A n \in PagAUsar(p) : <<p, n>> \notin pedida
    /\ valor' = [valor EXCEPT ![p] = EnBlanco(p)]
    /\ UNCHANGED <<pedida, dato>>

Accede(p, n) == Pide(p, n) \/ Lee(p, n) \/ \E v \in Valores : Escribe(p, n, v)

Sirve == Contesta \/ \E p \in Pid : Sale(p) \/ \E n \in PagAUsar(p) : Accede(p, n)

Next == fallida' \/ (~fallida /\ ~fallida' /\ Sirve)

MemoriaSpec == Init /\ [][Next]_vars

=============================================================================
