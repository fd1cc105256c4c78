------------------------------- MODULE Cache -------------------------------
(***************************************************************************)
(* What a TLB promises, without lists or indices: a set of entries, one    *)
(* for a page, and which of them is newer than which.  When it is full the *)
(* oldest makes room.  Under LRU a use makes an entry the newest; under    *)
(* any other policy only its arrival does.                                 *)
(***************************************************************************)
EXTENDS Integers, FiniteSets

CONSTANTS Entradas

VARIABLES capacidad, politica,  \* the configuration
          contenido,            \* the entries
          masNueva              \* <<e, f>>: e is newer than f

vars == <<capacidad, politica, contenido, masNueva>>
Configuracion == UNCHANGED <<capacidad, politica>>

Init ==
    /\ capacidad \in Nat \ {0} /\ politica \in {"LRU", "FIFO"}
    /\ contenido = {} /\ masNueva = {}

Sin(e) == {q \in masNueva : q[1] # e /\ q[2] # e}
Delante(e, otras) == {<<e, f>> : f \in otras}

Usa(e) ==
    /\ e \in contenido
    /\ masNueva' = IF politica = "LRU" THEN Sin(e) \cup Delante(e, contenido \ {e})
                   ELSE masNueva
    /\ Configuracion /\ UNCHANGED contenido

Nueva(e) == \A f \in contenido : f.nroPagina # e.nroPagina

Agrega(e) ==
    /\ Nueva(e) /\ Cardinality(contenido) < capacidad
    /\ contenido' = contenido \cup {e}
    /\ masNueva' = masNueva \cup Delante(e, contenido)
    /\ Configuracion

LaMasVieja(v) == \A f \in contenido \ {v} : <<f, v>> \in masNueva

Reemplaza(e) ==
    /\ Nueva(e) /\ Cardinality(contenido) = capacidad
    /\ \E v \in contenido :
        /\ LaMasVieja(v)
        /\ contenido' = (contenido \ {v}) \cup {e}
        /\ masNueva' = Sin(v) \cup Delante(e, contenido \ {v})
    /\ Configuracion

Vacia == contenido' = {} /\ masNueva' = {} /\ Configuracion

Next == (\E e \in Entradas : Usa(e) \/ Agrega(e) \/ Reemplaza(e)) \/ Vacia

CacheSpec == Init /\ [][Next]_vars

=============================================================================
