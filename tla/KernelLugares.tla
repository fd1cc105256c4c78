----------------------------- MODULE KernelLugares -----------------------------
(***************************************************************************)
(* One process, one place: UnSoloLugar and what follows from it, for every *)
(* instance of the Kernel.                                                 *)
(*                                                                         *)
(* The places of Lugares are counted by class: no process is in two        *)
(* classes, nor twice in one.  A step leaves every process where it was or *)
(* takes one of them to another class.                                     *)
(***************************************************************************)
EXTENDS KernelProofs, SequenceTheorems

Clases == Colas \cup {"crear", "lp", "cp", "cpu", "rx", "io", "dispatch",
                      "respuesta", "hilo", "EXIT"}

\* Process p is in a place of class k.
En(k, p) ==
    \/ k = "crear" /\ crear[p] = "new"
    \/ k \in {"lp", "cpu", "rx", "io"} /\ pcb[k] = p
    \/ k = "cp" /\ pcb["cp"] = p /\ pc["cp"] # "quita"
    \/ k \in Colas /\ Indices(cola[k], p) # {}
    \/ k = "dispatch" /\ Indices(dispatch, p) # {}
    \/ k = "respuesta" /\ EnRespuesta(p)
    \/ k = "hilo" /\ \E n \in 1..MaxIO : hilo[p][n] \in PcInicioHilo
    \/ k = "EXIT" /\ Esta("EXIT", p)

UnaClase == \A p \in Pid : \A k, l \in Clases : En(k, p) /\ En(l, p) => k = l

SinRepetidos ==
    /\ \A c \in Colas : IsInjective(cola[c])
    /\ \A p \in Pid : lista["EXIT"][p] <= 1
    /\ \A p \in Pid : \A n, m \in 1..MaxIO :
            hilo[p][n] \in PcInicioHilo /\ hilo[p][m] \in PcInicioHilo => n = m

EnUnLugar == Procesador /\ UnaClase /\ SinRepetidos /\ EleccionSRT

\* What a step does to the places: nothing, or takes p to class k.
Quedan ==
    \A q \in Pid : \A l \in Clases : En(l, q)' <=> En(l, q)
Muda(p, k) ==
    \A q \in Pid : \A l \in Clases : En(l, q)' <=> IF q = p THEN l = k ELSE En(l, q)

-----------------------------------------------------------------------------
(* Sequences without repetitions.                                          *)

LEMMA EnSecuencia ==
    ASSUME NEW s, NEW y
    PROVE  Indices(s, y) # {} <=> \E i \in DOMAIN s : s[i] = y
BY DEF Indices

LEMMA Agregado ==
    ASSUME NEW S, NEW s \in Seq(S), NEW x \in S
    PROVE  /\ \A y : Indices(Append(s, x), y) # {} <=> y = x \/ Indices(s, y) # {}
           /\ IsInjective(s) /\ Indices(s, x) = {} => IsInjective(Append(s, x))
<1>1. /\ DOMAIN Append(s, x) = DOMAIN s \cup {Len(s) + 1}
      /\ Append(s, x)[Len(s) + 1] = x /\ Len(s) + 1 \notin DOMAIN s
      /\ \A i \in DOMAIN s : Append(s, x)[i] = s[i]
      OBVIOUS
<1>2. QED
      BY <1>1 DEF Indices, IsInjective

LEMMA Sacado ==
    ASSUME NEW S, NEW s \in Seq(S), s # <<>>, IsInjective(s)
    PROVE  /\ \A y : Indices(Tail(s), y) # {} <=> Indices(s, y) # {} /\ y # Head(s)
           /\ Indices(s, Head(s)) # {}
           /\ IsInjective(Tail(s))
<1>1. /\ 1 \in DOMAIN s /\ Head(s) = s[1]
      /\ \A i \in DOMAIN Tail(s) : i + 1 \in DOMAIN s /\ Tail(s)[i] = s[i + 1] /\ i + 1 # 1
      /\ \A i \in DOMAIN s : i = 1 \/ (i - 1 \in DOMAIN Tail(s) /\ s[i] = Tail(s)[i - 1])
      /\ \A i, j \in DOMAIN Tail(s) : i + 1 = j + 1 => i = j
      OBVIOUS
<1>2. Indices(s, Head(s)) # {} /\ IsInjective(Tail(s))
      BY <1>1, EnSecuencia DEF IsInjective
<1>3. ASSUME NEW y
      PROVE  Indices(Tail(s), y) # {} <=> Indices(s, y) # {} /\ y # Head(s)
      <2>1. ASSUME NEW i \in DOMAIN Tail(s), Tail(s)[i] = y
            PROVE  Indices(s, y) # {} /\ y # Head(s)
        BY <1>1, <2>1, EnSecuencia DEF IsInjective
      <2>2. ASSUME NEW i \in DOMAIN s, s[i] = y, y # Head(s)
            PROVE  Indices(Tail(s), y) # {}
        <3>1. i - 1 \in DOMAIN Tail(s) /\ Tail(s)[i - 1] = y
          BY <1>1, <2>2
        <3>2. QED
          BY <3>1, EnSecuencia
      <2>3. QED
        BY <2>1, <2>2, EnSecuencia
<1>4. QED
      BY <1>2, <1>3

LEMMA Quitado ==
    ASSUME NEW S, NEW s \in Seq(S), NEW i \in DOMAIN s, IsInjective(s)
    PROVE  /\ \A y : Indices(RemoveAt(s, i), y) # {} <=> Indices(s, y) # {} /\ y # s[i]
           /\ Indices(s, s[i]) # {}
           /\ IsInjective(RemoveAt(s, i))
<1>1. /\ DOMAIN RemoveAt(s, i) = 1..(Len(s) - 1)
      /\ \A j \in 1..(Len(s) - 1) :
            RemoveAt(s, i)[j] = IF j < i THEN s[j] ELSE s[j + 1]
      <2>1. DOMAIN RemoveAt(s, i) = 1..(Len(s) - 1)
        <3>1. RemoveAt(s, i) \in Seq(S) /\ Len(RemoveAt(s, i)) = Len(s) - 1
          BY QuitarUno
        <3>2. QED
          BY <3>1
      <2>2. ASSUME NEW j \in 1..(Len(s) - 1)
            PROVE  RemoveAt(s, i)[j] = IF j < i THEN s[j] ELSE s[j + 1]
        <3> DEFINE a == SubSeq(s, 1, i - 1)
                   b == SubSeq(s, i + 1, Len(s))
        <3>1. i \in 1..Len(s) /\ Len(s) \in Nat
          OBVIOUS
        <3>2. a \in Seq(S) /\ Len(a) = i - 1 /\ \A m \in 1..(i - 1) : a[m] = s[m]
          BY <3>1
        <3>3. /\ b \in Seq(S) /\ Len(b) = Len(s) - i
              /\ \A m \in 1..(Len(s) - i) : b[m] = s[i + m]
          BY <3>1
        <3>4. RemoveAt(s, i) = a \o b
          BY DEF RemoveAt
        <3> HIDE DEF a, b
        <3>5. \A m \in 1..(Len(a) + Len(b)) :
                    (a \o b)[m] = IF m <= Len(a) THEN a[m] ELSE b[m - Len(a)]
          BY <3>2, <3>3, ConcatProperties
        <3>6. j \in 1..(Len(a) + Len(b))
          BY <3>1, <3>2, <3>3
        <3>7. CASE j < i
          BY <3>1, <3>2, <3>4, <3>5, <3>6, <3>7
        <3>8. CASE ~(j < i)
          <4>1. j - (i - 1) \in 1..(Len(s) - i) /\ i + (j - (i - 1)) = j + 1 /\ ~(j <= i - 1)
            BY <3>1, <3>8
          <4>2. b[j - (i - 1)] = s[j + 1]
            BY <3>3, <4>1
          <4>3. QED
            BY <3>2, <3>4, <3>5, <3>6, <3>8, <4>1, <4>2
        <3>9. QED
          BY <3>7, <3>8
      <2>3. QED
        BY <2>1, <2>2
<1>2. /\ \A y : Indices(RemoveAt(s, i), y) # {} => Indices(s, y) # {} /\ y # s[i]
      /\ Indices(s, s[i]) # {}
      BY <1>1 DEF Indices, IsInjective
<1>3. ASSUME NEW j \in DOMAIN s, s[j] # s[i]
      PROVE  Indices(RemoveAt(s, i), s[j]) # {}
      <2>1. CASE j < i
        BY <1>1, <2>1 DEF Indices
      <2>2. CASE j > i
        <3>1. j - 1 \in 1..(Len(s) - 1) /\ RemoveAt(s, i)[j - 1] = s[j]
          BY <1>1, <2>2
        <3>2. QED
          BY <1>1, <3>1 DEF Indices
      <2>3. QED
        BY <1>3, <2>1, <2>2
<1>4. IsInjective(RemoveAt(s, i))
      BY <1>1 DEF IsInjective
<1>5. ASSUME NEW y, Indices(s, y) # {}, y # s[i]
      PROVE  Indices(RemoveAt(s, i), y) # {}
      BY <1>3, <1>5, EnSecuencia
<1>6. QED
      BY <1>2, <1>4, <1>5

-----------------------------------------------------------------------------
(* What a step does to the places.                                         *)

\* A process is at the place it is known to be at and at no other.
LEMMA Mudanza ==
    ASSUME UnaClase, Quedan \/ \E p \in Pid : \E k : Muda(p, k)
    PROVE  UnaClase'
BY DEF UnaClase, Quedan, Muda

LEMMA NadaSeMueve ==
    ASSUME EnUnLugar, UNCHANGED <<cola, dispatch, respuesta>>,
           \A q \in Pid : crear'[q] = "new" <=> crear[q] = "new",
           \A q \in Pid, n \in 1..MaxIO :
                hilo'[q][n] \in PcInicioHilo <=> hilo[q][n] \in PcInicioHilo,
           lista'["EXIT"] = lista["EXIT"],
           \A t \in {"lp", "cpu", "rx", "io"} : pcb'[t] = pcb[t],
           \A q \in Pid : pcb'["cp"] = q /\ pc'["cp"] # "quita"
                            <=> pcb["cp"] = q /\ pc["cp"] # "quita"
    PROVE  Quedan /\ SinRepetidos'
<1>1. SinRepetidos'
      BY DEF EnUnLugar, SinRepetidos
<1>2. Quedan
      BY DEF Quedan, En, Clases, Colas, Indices, EnRespuesta, Esta
<1>3. QED
      BY <1>1, <1>2

\* list_remove(LISTA, 0) into a thread's variable.
LEMMA DeColaAHilo ==
    ASSUME EnUnLugar, NEW c \in Colas, NEW t \in {"lp", "cp", "io"},
           cola[c] # <<>>, SacarPrimero(c), Toma(t, Head(cola[c])),
           pcb[t] \notin Pid, pc["cp"] = "quita" <=> pc'["cp"] = "quita",
           t = "cp" => pc["cp"] # "quita",
           UNCHANGED <<crear, hilo, lista, dispatch, respuesta>>
    PROVE  Head(cola[c]) \in Pid /\ Muda(Head(cola[c]), t) /\ SinRepetidos'
<1>1. /\ cola \in [Colas -> Seq(Pid)] /\ pcb \in [Hilos -> Pid \cup {Nadie}]
      /\ IsInjective(cola[c])
      BY DEF EnUnLugar, Procesador, Tipos, TypeOK, SinRepetidos
<1>2. cola[c] \in Seq(Pid) /\ Head(cola[c]) \in Pid
      BY <1>1
<1>3. \A d \in Colas : cola'[d] = IF d = c THEN Tail(cola[c]) ELSE cola[d]
      BY <1>1 DEF SacarPrimero
<1>4. \A h \in Hilos : pcb'[h] = IF h = t THEN Head(cola[c]) ELSE pcb[h]
      BY <1>1 DEF Toma
<1>5. /\ \A q : Indices(cola'[c], q) # {} <=> Indices(cola[c], q) # {} /\ q # Head(cola[c])
      /\ IsInjective(cola'[c]) /\ En(c, Head(cola[c]))
      <2>1. cola'[c] = Tail(cola[c])
        BY <1>3
      <2>2. /\ \A q : Indices(Tail(cola[c]), q) # {}
                        <=> Indices(cola[c], q) # {} /\ q # Head(cola[c])
            /\ IsInjective(Tail(cola[c])) /\ Indices(cola[c], Head(cola[c])) # {}
        BY <1>1, <1>2, Sacado
      <2>3. QED
        BY <2>1, <2>2 DEF En
<1>6. SinRepetidos'
      BY <1>3, <1>5 DEF EnUnLugar, SinRepetidos
<1>7. Muda(Head(cola[c]), t)
      <2> SUFFICES ASSUME NEW q \in Pid, NEW l \in Clases
                   PROVE  En(l, q)' <=> IF q = Head(cola[c]) THEN l = t ELSE En(l, q)
        BY DEF Muda
      <2>1. q = Head(cola[c]) => (En(l, q) <=> l = c)
        BY <1>2, <1>5 DEF EnUnLugar, UnaClase, Clases
      <2>2. CASE l \in Colas
        BY <1>3, <1>5, <2>1, <2>2 DEF En, Colas
      <2>3. CASE l \in {"lp", "cp", "io"}
        BY <1>2, <1>4, <2>1, <2>3 DEF En, Colas, Hilos
      <2>4. CASE l \notin Colas \cup {"lp", "cp", "io"}
        BY <1>2, <1>4, <2>1, <2>4 DEF En, Clases, Colas, Hilos, EnRespuesta, Esta
      <2>5. QED
        BY <2>2, <2>3, <2>4
<1>8. QED
      BY <1>2, <1>6, <1>7

\* list_add(LISTA, pcb), after which the thread is done with the process.
LEMMA DeHiloACola ==
    ASSUME EnUnLugar, NEW c \in Colas, NEW t \in {"lp", "rx", "io"},
           pcb[t] \in Pid, Encolar(c, pcb[t]), Toma(t, Nadie),
           pc'["cp"] = pc["cp"],
           UNCHANGED <<crear, hilo, lista, dispatch, respuesta>>
    PROVE  Muda(pcb[t], c) /\ SinRepetidos'
<1>1. cola \in [Colas -> Seq(Pid)] /\ pcb \in [Hilos -> Pid \cup {Nadie}]
      BY DEF EnUnLugar, Procesador, Tipos, TypeOK
<1>2. \A d \in Colas : cola'[d] = IF d = c THEN Append(cola[c], pcb[t]) ELSE cola[d]
      BY <1>1 DEF Encolar
<1>3. \A h \in Hilos : pcb'[h] = IF h = t THEN Nadie ELSE pcb[h]
      BY <1>1 DEF Toma
<1>4. \A l \in Clases : En(l, pcb[t]) <=> l = t
      <2>1. En(t, pcb[t])
        BY DEF En
      <2>2. QED
        BY <2>1 DEF EnUnLugar, UnaClase, Clases
<1>5. Indices(cola[c], pcb[t]) = {}
      BY <1>4 DEF En, Clases, Colas
<1>6. /\ \A q : Indices(cola'[c], q) # {} <=> q = pcb[t] \/ Indices(cola[c], q) # {}
      /\ IsInjective(cola'[c])
      <2>1. cola[c] \in Seq(Pid) /\ IsInjective(cola[c]) /\ cola'[c] = Append(cola[c], pcb[t])
        BY <1>1, <1>2 DEF EnUnLugar, SinRepetidos
      <2>2. QED
        BY <1>5, <2>1, Agregado
<1>7. SinRepetidos'
      BY <1>2, <1>6 DEF EnUnLugar, SinRepetidos
<1>8. Muda(pcb[t], c)
      <2> SUFFICES ASSUME NEW q \in Pid, NEW l \in Clases
                   PROVE  En(l, q)' <=> IF q = pcb[t] THEN l = c ELSE En(l, q)
        BY DEF Muda
      <2>1. CASE l \in Colas
        BY <1>2, <1>4, <1>6, <2>1 DEF En, Colas, Clases
      <2>2. CASE l \in {"lp", "rx", "io"}
        BY <1>3, <1>4, <2>2, NadieNoEsProceso DEF En, Colas, Hilos
      <2>3. CASE l \notin Colas \cup {"lp", "rx", "io"}
        BY <1>3, <1>4, <2>3 DEF En, Clases, Colas, Hilos, EnRespuesta, Esta
      <2>4. QED
        BY <2>1, <2>2, <2>3
<1>9. QED
      BY <1>7, <1>8

\* The list grows at its end, and only the process that recibirMensajeCPU has,
\* which is not in it, gets another rafaga.
LEMMA EleccionQueda ==
    ASSUME EnUnLugar, pc'["cp"] = pc["cp"], pcb'["cp"] = pcb["cp"],
           \/ cola'["READY"] = cola["READY"]
           \/ \E p \in Pid : cola'["READY"] = Append(cola["READY"], p),
           \A q \in Pid : rafaga'[q] = rafaga[q] \/ Indices(cola["READY"], q) = {}
    PROVE  EleccionSRT'
<1>1. SUFFICES ASSUME pc["cp"] = "quita"
               PROVE  \E i \in DOMAIN cola'["READY"] :
                        /\ cola'["READY"][i] = pcb["cp"]
                        /\ \A j \in 1..(i - 1) :
                                rafaga'[cola'["READY"][j]] > rafaga'[pcb["cp"]]
      BY DEF EleccionSRT
<1>2. cola["READY"] \in Seq(Pid)
      BY DEF EnUnLugar, Procesador, Tipos, TypeOK, Colas
<1>3. PICK i \in DOMAIN cola["READY"] :
            /\ cola["READY"][i] = pcb["cp"]
            /\ \A j \in 1..(i - 1) : rafaga[cola["READY"][j]] > rafaga[pcb["cp"]]
      BY <1>1 DEF EnUnLugar, EleccionSRT
<1>4. \A j \in DOMAIN cola["READY"] :
            /\ j \in DOMAIN cola'["READY"] /\ cola'["READY"][j] = cola["READY"][j]
            /\ cola["READY"][j] \in Pid
      <2>1. CASE cola'["READY"] = cola["READY"]
        BY <1>2, <2>1
      <2>2. CASE \E p \in Pid : cola'["READY"] = Append(cola["READY"], p)
        BY <1>2, <2>2
      <2>3. QED
        BY <2>1, <2>2
<1>5. \A j \in DOMAIN cola["READY"] : rafaga'[cola["READY"][j]] = rafaga[cola["READY"][j]]
      BY <1>4 DEF Indices
<1>6. \A j \in 1..(i - 1) : j \in DOMAIN cola["READY"]
      BY <1>2, <1>3
<1>7. QED
      BY <1>3, <1>4, <1>5, <1>6

-----------------------------------------------------------------------------
(* The threads.                                                            *)

LEMMA LugaresLp ==
    ASSUME EnUnLugar, planifLargoPlazo
    PROVE  /\ SinRepetidos' /\ EleccionSRT'
           /\ LpSacaNew => Head(cola["NEW"]) \in Pid /\ Muda(Head(cola["NEW"]), "lp")
           /\ LpSacaSusp => /\ Head(cola["READY_SUSPENDED"]) \in Pid
                            /\ Muda(Head(cola["READY_SUSPENDED"]), "lp")
           /\ LpReady \/ LpReadyAvisa => pcb["lp"] \in Pid /\ Muda(pcb["lp"], "READY")
           /\ ~(LpSacaNew \/ LpSacaSusp \/ LpReady \/ LpReadyAvisa) => Quedan
<1> DEFINE otros == <<crear, hilo, lista, dispatch, respuesta>>
<1>1. /\ pc \in [Hilos -> PcLp \cup PcCp \cup PcRx \cup PcIo \cup PcCpu]
      /\ pcb \in [Hilos -> Pid \cup {Nadie}] /\ cola \in [Colas -> Seq(Pid)]
      /\ sem \in [Semaforos -> Nat] /\ TieneProceso
      BY DEF EnUnLugar, Procesador, Tipos, TypeOK
<1>2. /\ pc'["cp"] = pc["cp"] /\ pcb'["cp"] = pcb["cp"] /\ UNCHANGED rafaga
      /\ UNCHANGED otros
      BY <1>1 DEF planifLargoPlazo, LpPlanif, LpMulti, LpElige, LpSacaNew, LpSacaSusp,
         LpSaca, LpRespNew, LpRespSusp, LpRespuesta, LpMide, LpReady, LpReadyAvisa,
         LpAvisa, LpPost, Espera, Decide, Agrega, enviarInterruptCPU, Despierta, Paso,
         Toma, porProceso, datos, redCpu, Hilos
<1>3. CASE LpSacaNew
      <2>1. /\ cola["NEW"] # <<>> /\ SacarPrimero("NEW") /\ Toma("lp", Head(cola["NEW"]))
            /\ pcb["lp"] \notin Pid /\ pc["lp"] = "new"
        BY <1>1, <1>3 DEF LpSacaNew, LpSaca, Paso, TieneProceso
      <2>2. cola'["READY"] = cola["READY"]
        BY <1>1, <2>1 DEF SacarPrimero, Colas
      <2>3. Head(cola["NEW"]) \in Pid /\ Muda(Head(cola["NEW"]), "lp") /\ SinRepetidos'
        BY <1>2, <2>1, DeColaAHilo DEF Colas
      <2>4. EleccionSRT'
        BY <1>2, <2>2, EleccionQueda
      <2>5. QED
        BY <2>1, <2>3, <2>4, <1>3 DEF LpSacaSusp, LpSaca, LpReady, LpReadyAvisa, Agrega, Paso
<1>4. CASE LpSacaSusp
      <2>1. /\ cola["READY_SUSPENDED"] # <<>> /\ SacarPrimero("READY_SUSPENDED")
            /\ Toma("lp", Head(cola["READY_SUSPENDED"]))
            /\ pcb["lp"] \notin Pid /\ pc["lp"] = "susp"
        BY <1>1, <1>4 DEF LpSacaSusp, LpSaca, Paso, TieneProceso
      <2>2. cola'["READY"] = cola["READY"]
        BY <1>1, <2>1 DEF SacarPrimero, Colas
      <2>3. /\ Head(cola["READY_SUSPENDED"]) \in Pid
            /\ Muda(Head(cola["READY_SUSPENDED"]), "lp") /\ SinRepetidos'
        BY <1>2, <2>1, DeColaAHilo DEF Colas
      <2>4. EleccionSRT'
        BY <1>2, <2>2, EleccionQueda
      <2>5. QED
        BY <2>1, <2>3, <2>4, <1>4 DEF LpSacaNew, LpSaca, LpReady, LpReadyAvisa, Agrega, Paso
<1>5. CASE LpReady \/ LpReadyAvisa
      <2>1. /\ Encolar("READY", pcb["lp"]) /\ Toma("lp", Nadie)
            /\ pcb["lp"] \in Pid /\ pc["lp"] \in {"ready", "readyAvisa"}
        BY <1>1, <1>5 DEF LpReady, LpReadyAvisa, Agrega, Paso, TieneProceso
      <2>2. cola'["READY"] = Append(cola["READY"], pcb["lp"])
        BY <1>1, <2>1 DEF Encolar, Colas
      <2>3. Muda(pcb["lp"], "READY") /\ SinRepetidos'
        BY <1>2, <2>1, DeHiloACola DEF Colas
      <2>4. EleccionSRT'
        BY <1>2, <2>1, <2>2, EleccionQueda
      <2>5. QED
        BY <2>1, <2>3, <2>4, <1>5 DEF LpSacaNew, LpSacaSusp, LpSaca, Paso
<1>6. CASE ~(LpSacaNew \/ LpSacaSusp \/ LpReady \/ LpReadyAvisa)
      <2>1. UNCHANGED <<cola, pcb>>
        BY <1>6 DEF planifLargoPlazo, LpPlanif, LpMulti, LpElige, LpRespNew, LpRespSusp,
           LpRespuesta, LpMide, LpAvisa, LpPost, Espera, Decide, enviarInterruptCPU,
           Despierta
      <2>2. Quedan /\ SinRepetidos'
        BY <1>2, <2>1, NadaSeMueve
      <2>3. EleccionSRT'
        BY <1>2, <2>1, EleccionQueda
      <2>4. QED
        BY <1>6, <2>2, <2>3
<1>7. QED
      BY <1>3, <1>4, <1>5, <1>6

LEMMA LugaresIo ==
    ASSUME EnUnLugar, planifBloqueados
    PROVE  /\ SinRepetidos' /\ EleccionSRT'
           /\ IoCola => /\ Head(cola["COLA_IO"]) \in Pid
                        /\ Muda(Head(cola["COLA_IO"]), "io")
           /\ IoReady => pcb["io"] \in Pid /\ Muda(pcb["io"], "READY")
           /\ IoSuspReady => pcb["io"] \in Pid /\ Muda(pcb["io"], "READY_SUSPENDED")
           /\ IoOlvida => pcb["io"] \in Pid /\ Muda(pcb["io"], "olvido")
           /\ ~(IoCola \/ IoReady \/ IoSuspReady \/ IoOlvida) => Quedan
<1> DEFINE otros == <<crear, hilo, dispatch, respuesta>>
<1>1. /\ pc \in [Hilos -> PcLp \cup PcCp \cup PcRx \cup PcIo \cup PcCpu]
      /\ pcb \in [Hilos -> Pid \cup {Nadie}] /\ cola \in [Colas -> Seq(Pid)]
      /\ lista \in [Listas -> [Pid -> Nat]] /\ TieneProceso
      BY DEF EnUnLugar, Procesador, Tipos, TypeOK
<1>2. /\ pc'["cp"] = pc["cp"] /\ pcb'["cp"] = pcb["cp"] /\ UNCHANGED rafaga
      /\ UNCHANGED otros /\ lista'["EXIT"] = lista["EXIT"]
      BY <1>1 DEF planifBloqueados, IoBloqueo, IoCola, IoTermina, IoMira, IoOlvida,
         IoSaca, IoReady, IoAvisa, IoPost, IoSacaSusp, IoSuspReady, IoPostLp,
         Espera, Extrae, Decide, Quita, Borrar, Agrega, enviarInterruptCPU, Despierta,
         Paso, Toma, porProceso, datos, redCpu, Hilos, Listas
<1>3. CASE IoCola
      <2>1. /\ cola["COLA_IO"] # <<>> /\ SacarPrimero("COLA_IO")
            /\ Toma("io", Head(cola["COLA_IO"])) /\ UNCHANGED lista
            /\ pcb["io"] \notin Pid /\ pc["io"] = "cola"
        BY <1>1, <1>3 DEF IoCola, Extrae, Paso, TieneProceso
      <2>2. cola'["READY"] = cola["READY"]
        BY <1>1, <2>1 DEF SacarPrimero, Colas
      <2>3. /\ Head(cola["COLA_IO"]) \in Pid
            /\ Muda(Head(cola["COLA_IO"]), "io") /\ SinRepetidos'
        BY <1>2, <2>1, DeColaAHilo DEF Colas
      <2>4. EleccionSRT'
        BY <1>2, <2>2, EleccionQueda
      <2>5. QED
        BY <2>1, <2>3, <2>4, <1>3 DEF IoReady, IoSuspReady, IoOlvida, Agrega, Paso
<1>4. CASE IoReady
      <2>1. /\ Encolar("READY", pcb["io"]) /\ Toma("io", Nadie) /\ UNCHANGED lista
            /\ pcb["io"] \in Pid /\ pc["io"] = "ready"
        BY <1>1, <1>4 DEF IoReady, Agrega, Paso, TieneProceso
      <2>2. cola'["READY"] = Append(cola["READY"], pcb["io"])
        BY <1>1, <2>1 DEF Encolar, Colas
      <2>3. Muda(pcb["io"], "READY") /\ SinRepetidos'
        BY <1>2, <2>1, DeHiloACola DEF Colas
      <2>4. EleccionSRT'
        BY <1>2, <2>1, <2>2, EleccionQueda
      <2>5. QED
        BY <2>1, <2>3, <2>4, <1>4 DEF IoCola, Extrae, IoSuspReady, IoOlvida, Agrega, Paso
<1>5. CASE IoSuspReady
      <2>1. /\ Encolar("READY_SUSPENDED", pcb["io"]) /\ Toma("io", Nadie)
            /\ UNCHANGED lista /\ pcb["io"] \in Pid /\ pc["io"] = "suspReady"
        BY <1>1, <1>5 DEF IoSuspReady, Agrega, Paso, TieneProceso
      <2>2. cola'["READY"] = cola["READY"]
        BY <1>1, <2>1 DEF Encolar, Colas
      <2>3. Muda(pcb["io"], "READY_SUSPENDED") /\ SinRepetidos'
        BY <1>2, <2>1, DeHiloACola DEF Colas
      <2>4. EleccionSRT'
        BY <1>2, <2>2, EleccionQueda
      <2>5. QED
        BY <2>1, <2>3, <2>4, <1>5 DEF IoCola, Extrae, IoReady, IoOlvida, Agrega, Paso
<1>6. CASE IoOlvida
      <2>1. /\ Toma("io", Nadie) /\ UNCHANGED <<cola, lista>> /\ pcb["io"] \in Pid
            /\ pc["io"] = "mira"
        BY <1>1, <1>6 DEF IoOlvida, Paso, TieneProceso
      <2>2. \A h \in Hilos : pcb'[h] = IF h = "io" THEN Nadie ELSE pcb[h]
        BY <1>1, <2>1 DEF Toma
      <2>3. \A l \in Clases : En(l, pcb["io"]) <=> l = "io"
        <3>1. En("io", pcb["io"])
          BY DEF En
        <3>2. QED
          BY <2>1, <3>1 DEF EnUnLugar, UnaClase, Clases
      <2>4. Muda(pcb["io"], "olvido")
        BY <1>2, <2>1, <2>2, <2>3, NadieNoEsProceso
        DEF Muda, En, Clases, Colas, Hilos, Indices, EnRespuesta, Esta
      <2>5. SinRepetidos'
        BY <1>2, <2>1 DEF EnUnLugar, SinRepetidos
      <2>6. EleccionSRT'
        BY <1>2, <2>1, EleccionQueda
      <2>7. QED
        BY <2>1, <2>4, <2>5, <2>6, <1>6 DEF IoCola, Extrae, IoReady, IoSuspReady, Agrega, Paso
<1>7. CASE ~(IoCola \/ IoReady \/ IoSuspReady \/ IoOlvida)
      <2>1. UNCHANGED <<cola, pcb>>
        BY <1>7 DEF planifBloqueados, IoBloqueo, IoTermina, IoMira, IoSaca, IoAvisa,
           IoPost, IoSacaSusp, IoPostLp, Espera, Decide, Quita, enviarInterruptCPU,
           Despierta
      <2>2. Quedan /\ SinRepetidos'
        BY <1>2, <2>1, NadaSeMueve
      <2>3. EleccionSRT'
        BY <1>2, <2>1, EleccionQueda
      <2>4. QED
        BY <1>7, <2>2, <2>3
<1>8. QED
      BY <1>3, <1>4, <1>5, <1>6, <1>7

LEMMA LugaresCp ==
    ASSUME EnUnLugar, planifCortoPlazo
    PROVE  /\ SinRepetidos' /\ EleccionSRT'
           /\ algoritmo_FIFO => /\ Head(cola["READY"]) \in Pid
                                /\ Muda(Head(cola["READY"]), "cp")
           /\ CpQuita => pcb["cp"] \in Pid /\ Muda(pcb["cp"], "cp")
           /\ CpDespacha => pcb["cp"] \in Pid /\ Muda(pcb["cp"], "dispatch")
           /\ ~(algoritmo_FIFO \/ CpQuita \/ CpDespacha) => Quedan
<1> DEFINE otros == <<crear, hilo, respuesta>>
<1>1. /\ pc \in [Hilos -> PcLp \cup PcCp \cup PcRx \cup PcIo \cup PcCpu]
      /\ pcb \in [Hilos -> Pid \cup {Nadie}] /\ cola \in [Colas -> Seq(Pid)]
      /\ lista \in [Listas -> [Pid -> Nat]] /\ dispatch \in Seq(Pid) /\ TieneProceso
      BY DEF EnUnLugar, Procesador, Tipos, TypeOK
<1>2. /\ \A t \in Hilos \ {"cp"} : pcb'[t] = pcb[t]
      /\ UNCHANGED otros /\ lista'["EXIT"] = lista["EXIT"]
      BY <1>1 DEF planifCortoPlazo, CpReady, CpProcesador, algoritmo_FIFO, algoritmo_SRT,
         CpQuita, CpExec, CpDespacha, Espera, Extrae, Anotar, Paso, Toma, porProceso,
         datos, redCpu, Hilos, Listas
<1>3. CASE algoritmo_FIFO
      <2>1. /\ cola["READY"] # <<>> /\ SacarPrimero("READY")
            /\ Toma("cp", Head(cola["READY"])) /\ UNCHANGED <<lista, dispatch>>
            /\ pcb["cp"] \notin Pid /\ pc["cp"] = "elige" /\ pc'["cp"] = "exec"
        BY <1>1, <1>3 DEF algoritmo_FIFO, Extrae, Paso, TieneProceso, redCpu, Hilos
      <2>2. /\ Head(cola["READY"]) \in Pid
            /\ Muda(Head(cola["READY"]), "cp") /\ SinRepetidos'
        BY <1>2, <2>1, DeColaAHilo DEF Colas
      <2>3. EleccionSRT'
        BY <2>1 DEF EleccionSRT
      <2>4. QED
        BY <2>1, <2>2, <2>3, <1>3 DEF CpQuita, CpDespacha, Paso
<1>4. CASE algoritmo_SRT
      <2>1. PICK i \in DOMAIN cola["READY"] :
                eleccion_SRT(cola["READY"], i) /\ Toma("cp", cola["READY"][i])
        BY <1>4 DEF algoritmo_SRT
      <2>2. /\ UNCHANGED <<cola, lista, dispatch, rafaga>> /\ pcb["cp"] \notin Pid
            /\ pc["cp"] = "elige" /\ pc'["cp"] = "quita" /\ pcb'["cp"] = cola["READY"][i]
        BY <1>1, <1>4, <2>1 DEF algoritmo_SRT, Paso, Toma, TieneProceso, datos, redCpu, Hilos
      <2>3. Quedan /\ SinRepetidos'
        BY <1>2, <2>2, NadaSeMueve DEF Hilos
      <2>4. \A j \in 1..(i - 1) : rafaga[cola["READY"][j]] > rafaga[cola["READY"][i]]
        <3>1. rafaga \in [Pid -> Rafagas] /\ cola["READY"] \in Seq(Pid)
          BY <1>1 DEF EnUnLugar, Procesador, Tipos, TypeOK, Colas
        <3> SUFFICES ASSUME NEW j \in 1..(i - 1)
                     PROVE  rafaga[cola["READY"][j]] > rafaga[cola["READY"][i]]
          OBVIOUS
        <3>2. j \in DOMAIN cola["READY"] /\ ~(i <= j)
          BY <3>1
        <3>3. rafaga[cola["READY"][i]] \in Int /\ rafaga[cola["READY"][j]] \in Int
          <4>1. cola["READY"][i] \in Pid /\ cola["READY"][j] \in Pid
            BY <3>1, <3>2, Elemento
          <4>2. QED
            BY <3>1, <4>1, RafagasEnteras
        <3>4. QED
          BY <2>1, <3>2, <3>3 DEF eleccion_SRT
      <2>5. EleccionSRT'
        BY <2>2, <2>4 DEF EleccionSRT
      <2>6. QED
        BY <2>2, <2>3, <2>5, <1>4
        DEF algoritmo_SRT, algoritmo_FIFO, Extrae, CpQuita, CpDespacha, Paso
<1>5. CASE CpQuita
      <2>1. PICK i \in DOMAIN cola["READY"] :
                /\ cola["READY"][i] = pcb["cp"]
                /\ cola' = [cola EXCEPT !["READY"] = RemoveAt(@, i)]
        BY <1>5 DEF CpQuita, EsElPrimero
      <2>2. /\ UNCHANGED <<lista, dispatch, pcb>> /\ pcb["cp"] \in Pid
            /\ pc["cp"] = "quita" /\ pc'["cp"] = "exec"
        BY <1>1, <1>5 DEF CpQuita, Paso, TieneProceso, redCpu, Hilos
      <2>3. \A d \in Colas :
                cola'[d] = IF d = "READY" THEN RemoveAt(cola["READY"], i) ELSE cola[d]
        BY <1>1, <2>1
      <2>4. cola["READY"] \in Seq(Pid) /\ IsInjective(cola["READY"])
        BY <1>1 DEF EnUnLugar, SinRepetidos, Colas
      <2>5. /\ \A q : Indices(cola'["READY"], q) # {}
                        <=> Indices(cola["READY"], q) # {} /\ q # pcb["cp"]
            /\ IsInjective(cola'["READY"]) /\ En("READY", pcb["cp"])
        BY <2>1, <2>3, <2>4, Quitado DEF En, Colas
      <2>6. \A l \in Clases : En(l, pcb["cp"]) <=> l = "READY"
        BY <2>2, <2>5 DEF EnUnLugar, UnaClase, Clases, Colas
      <2>7. SinRepetidos'
        BY <1>2, <2>3, <2>5 DEF EnUnLugar, SinRepetidos
      <2>8. Muda(pcb["cp"], "cp")
        <3> SUFFICES ASSUME NEW q \in Pid, NEW l \in Clases
                     PROVE  En(l, q)' <=> IF q = pcb["cp"] THEN l = "cp" ELSE En(l, q)
          BY DEF Muda
        <3>1. CASE l \in Colas
          BY <2>3, <2>5, <2>6, <3>1 DEF En, Colas, Clases
        <3>2. CASE l = "cp"
          BY <2>2, <3>2 DEF En, Colas
        <3>3. CASE l \notin Colas \cup {"cp"}
          BY <1>2, <2>2, <2>6, <3>3 DEF En, Clases, Colas, EnRespuesta, Esta
        <3>4. QED
          BY <3>1, <3>2, <3>3
      <2>9. EleccionSRT'
        BY <2>2 DEF EleccionSRT
      <2>10. QED
        BY <2>2, <2>7, <2>8, <2>9, <1>5 DEF algoritmo_FIFO, Extrae, CpDespacha, Paso
<1>6. CASE CpDespacha
      <2>1. /\ UNCHANGED <<lista, cola>> /\ pcb["cp"] \in Pid
            /\ pc["cp"] = "despacha" /\ pc'["cp"] = "ready" /\ pcb'["cp"] = Nadie
            /\ dispatch' = Append(dispatch, pcb["cp"])
        BY <1>1, <1>6 DEF CpDespacha, Paso, Toma, TieneProceso, redCpu, Hilos
      <2>2. \A l \in Clases : En(l, pcb["cp"]) <=> l = "cp"
        <3>1. En("cp", pcb["cp"])
          BY <2>1 DEF En
        <3>2. QED
          BY <2>1, <3>1 DEF EnUnLugar, UnaClase, Clases
      <2>3. \A q : Indices(dispatch', q) # {} <=> q = pcb["cp"] \/ Indices(dispatch, q) # {}
        <3>1. dispatch \in Seq(Pid) /\ pcb["cp"] \in Pid
          BY <1>1, <2>1
        <3>2. \A q : Indices(Append(dispatch, pcb["cp"]), q) # {}
                        <=> q = pcb["cp"] \/ Indices(dispatch, q) # {}
          BY <3>1, Agregado
        <3>3. QED
          BY <2>1, <3>2
      <2>4. Muda(pcb["cp"], "dispatch")
        <3> SUFFICES ASSUME NEW q \in Pid, NEW l \in Clases
                     PROVE  En(l, q)' <=> IF q = pcb["cp"] THEN l = "dispatch" ELSE En(l, q)
          BY DEF Muda
        <3>1. CASE l \in {"dispatch", "cp"}
          BY <2>1, <2>2, <2>3, <3>1, NadieNoEsProceso DEF En, Colas, Clases
        <3>2. CASE l \notin {"dispatch", "cp"}
          BY <1>2, <2>1, <2>2, <3>2 DEF En, Clases, Colas, EnRespuesta, Esta, Hilos
        <3>3. QED
          BY <3>1, <3>2
      <2>5. SinRepetidos'
        BY <1>2, <2>1 DEF EnUnLugar, SinRepetidos
      <2>6. EleccionSRT'
        BY <2>1 DEF EleccionSRT
      <2>7. QED
        BY <2>1, <2>4, <2>5, <2>6, <1>6 DEF algoritmo_FIFO, Extrae, CpQuita, Paso
<1>7. CASE CpReady \/ CpProcesador \/ CpExec
      <2>1. /\ UNCHANGED <<cola, pcb, dispatch>>
            /\ pc["cp"] \in {"ready", "procesador", "exec"}
            /\ pc'["cp"] \in {"procesador", "elige", "despacha"}
        BY <1>1, <1>7 DEF CpReady, CpProcesador, CpExec, Espera, Paso, redCpu, Hilos
      <2>2. Quedan /\ SinRepetidos'
        BY <1>2, <2>1, NadaSeMueve
      <2>3. EleccionSRT'
        BY <2>1 DEF EleccionSRT
      <2>4. QED
        BY <2>1, <2>2, <2>3 DEF algoritmo_FIFO, Extrae, CpQuita, CpDespacha, Paso
<1>8. QED
      BY <1>3, <1>4, <1>5, <1>6, <1>7 DEF planifCortoPlazo

\* At most one process is on its way to the CPU, and one on its way back.
LEMMA UnaAVez ==
    ASSUME Procesador
    PROVE  /\ dispatch # <<>> => Len(dispatch) = 1 /\ pcb["cpu"] = Nadie
           /\ respuesta # <<>> => Len(respuesta) = 1
<1>1. /\ ConSem + ConCp + ConDispatch + ConCpu + ConRespuesta + ConRx + ConHilo = 1
      /\ ConDispatch = Len(dispatch) /\ ConRespuesta = Len(respuesta)
      BY Suma DEF Procesador, ConDispatch, ConRespuesta
<1>2. /\ dispatch # <<>> => Len(dispatch) > 0
      /\ respuesta # <<>> => Len(respuesta) > 0
      BY DEF Procesador, Tipos, TypeOK
<1>3. /\ ConDispatch > 0 => ConDispatch = 1 /\ ConCpu = 0
      /\ ConRespuesta > 0 => ConRespuesta = 1
      BY <1>1, Naturales
<1>4. ConCpu = 0 => pcb["cpu"] = Nadie
      BY DEF ConCpu, Si
<1>5. QED
      BY <1>1, <1>2, <1>3, <1>4

LEMMA LugaresRx ==
    ASSUME EnUnLugar, recibirMensajeCPU
    PROVE  /\ SinRepetidos' /\ EleccionSRT'
           /\ RxRecibe => /\ Head(respuesta).pcb \in Pid
                          /\ Muda(Head(respuesta).pcb, "rx")
           /\ RxBlock => pcb["rx"] \in Pid /\ Muda(pcb["rx"], "hilo")
           /\ RxExitLista => pcb["rx"] \in Pid /\ Muda(pcb["rx"], "EXIT")
           /\ RxIntReady => pcb["rx"] \in Pid /\ Muda(pcb["rx"], "READY")
           /\ ~(RxRecibe \/ RxBlock \/ RxExitLista \/ RxIntReady) => Quedan
<1>1. /\ pc \in [Hilos -> PcLp \cup PcCp \cup PcRx \cup PcIo \cup PcCpu]
      /\ pcb \in [Hilos -> Pid \cup {Nadie}] /\ cola \in [Colas -> Seq(Pid)]
      /\ hilo \in [Pid -> [1..MaxIO -> PcHilo]]
      /\ lista \in [Listas -> [Pid -> Nat]] /\ rafaga \in [Pid -> Rafagas]
      /\ respuesta \in Seq([op : Avisos, pcb : Pid]) /\ TieneProceso
      BY DEF EnUnLugar, Procesador, Tipos, TypeOK
<1>2. /\ \A t \in Hilos \ {"rx"} : pcb'[t] = pcb[t]
      /\ UNCHANGED <<crear, dispatch>> /\ pc'["cp"] = pc["cp"]
      BY <1>1 DEF recibirMensajeCPU, RxRecibe, RxBlock, RxExit, RxExitProcesador,
         RxExitAvisa, RxExitLista, RxExitMulti, RxInterrupt, RxIntReady, RxIntSem,
         RxIntProcesador, Quita, Despierta, Agrega, Paso, Toma, porProceso, datos,
         redCpu, Hilos
<1>3. ASSUME pcb["rx"] \in Pid
      PROVE  \A l \in Clases : En(l, pcb["rx"]) <=> l = "rx"
      <2>1. En("rx", pcb["rx"])
        BY DEF En
      <2>2. QED
        BY <1>3, <2>1 DEF EnUnLugar, UnaClase, Clases
<1>4. CASE RxRecibe
      <2>1. /\ respuesta # <<>> /\ respuesta' = Tail(respuesta)
            /\ UNCHANGED <<cola, lista, hilo, rafaga>> /\ pcb["rx"] \notin Pid
            /\ pc["rx"] = "recibe" /\ pcb'["rx"] = Head(respuesta).pcb
        BY <1>1, <1>4 DEF RxRecibe, Paso, Toma, TieneProceso, Avisos, datos, porProceso, Hilos
      <2>2. Len(respuesta) = 1
        BY <2>1, UnaAVez DEF EnUnLugar
      <2>3. /\ Head(respuesta) = respuesta[1] /\ DOMAIN respuesta = {1}
            /\ DOMAIN respuesta' = {} /\ respuesta[1].pcb \in Pid
        <3>1. /\ Head(respuesta) = respuesta[1] /\ DOMAIN respuesta = {1}
              /\ DOMAIN respuesta' = {}
          BY <1>1, <2>1, <2>2
        <3>2. respuesta[1] \in [op : Avisos, pcb : Pid]
          BY <1>1, <3>1, Elemento
        <3>3. QED
          BY <3>1, <3>2
      <2>4. /\ \A q : EnRespuesta(q) <=> q = respuesta[1].pcb
            /\ \A q : ~EnRespuesta(q)'
        BY <2>3 DEF EnRespuesta
      <2>5. \A l \in Clases : En(l, respuesta[1].pcb) <=> l = "respuesta"
        <3>1. En("respuesta", respuesta[1].pcb)
          BY <2>4 DEF En
        <3>2. QED
          BY <2>3, <3>1 DEF EnUnLugar, UnaClase, Clases
      <2>6. Muda(respuesta[1].pcb, "rx")
        <3> SUFFICES ASSUME NEW q \in Pid, NEW l \in Clases
                     PROVE  En(l, q)' <=> IF q = respuesta[1].pcb THEN l = "rx" ELSE En(l, q)
          BY DEF Muda
        <3>1. CASE l \in {"respuesta", "rx"}
          BY <2>1, <2>3, <2>4, <2>5, <3>1 DEF En, Colas, Clases
        <3>2. CASE l \notin {"respuesta", "rx"}
          BY <1>2, <2>1, <2>5, <3>2 DEF En, Clases, Colas, Esta, Hilos
        <3>3. QED
          BY <3>1, <3>2
      <2>7. SinRepetidos'
        BY <2>1 DEF EnUnLugar, SinRepetidos
      <2>8. EleccionSRT'
        BY <1>2, <2>1, EleccionQueda DEF Hilos
      <2>9. QED
        BY <2>1, <2>3, <2>6, <2>7, <2>8, <1>4 DEF RxBlock, RxExitLista, RxIntReady, Agrega,
           Paso
<1>5. CASE RxBlock
      <2>1. /\ pcb["rx"] \in Pid /\ SinHilo(pcb["rx"]) /\ pcb'["rx"] = Nadie
            /\ UNCHANGED <<cola, lista, respuesta>> /\ pc["rx"] = "BLOCK"
            /\ hilo' = [hilo EXCEPT ![pcb["rx"]][nIO[pcb["rx"]]] = "exec"]
            /\ \E r \in Rafagas : rafaga' = [rafaga EXCEPT ![pcb["rx"]] = r]
        BY <1>1, <1>5 DEF RxBlock, Paso, Toma, TieneProceso, Avisos, redCpu, Hilos,
           EnUnLugar, Procesador, Frescos
      <2>2. PICK n \in 1..MaxIO : n = nIO[pcb["rx"]]
        BY <2>1 DEF SinHilo
      <2>3. \A q \in Pid, m \in 1..MaxIO :
                hilo'[q][m] = IF q = pcb["rx"] /\ m = n THEN "exec" ELSE hilo[q][m]
        BY <1>1, <2>1, <2>2
      <2>4. /\ Indices(cola["READY"], pcb["rx"]) = {}
            /\ \A m \in 1..MaxIO : hilo[pcb["rx"]][m] \notin PcInicioHilo
        BY <1>3, <2>1 DEF En, Clases, Colas
      <2>5. \A q \in Pid : En("hilo", q)' <=> q = pcb["rx"] \/ En("hilo", q)
        BY <2>3 DEF En, Colas, PcInicioHilo
      <2>6. Muda(pcb["rx"], "hilo")
        <3> SUFFICES ASSUME NEW q \in Pid, NEW l \in Clases
                     PROVE  En(l, q)' <=> IF q = pcb["rx"] THEN l = "hilo" ELSE En(l, q)
          BY DEF Muda
        <3>1. CASE l \in {"hilo", "rx"}
          BY <1>3, <2>1, <2>5, <3>1, NadieNoEsProceso DEF En, Colas, Clases
        <3>2. CASE l \notin {"hilo", "rx"}
          BY <1>2, <1>3, <2>1, <3>2 DEF En, Clases, Colas, Esta, EnRespuesta, Hilos
        <3>3. QED
          BY <3>1, <3>2
      <2>7. SinRepetidos'
        BY <2>1, <2>3, <2>4 DEF EnUnLugar, SinRepetidos, PcInicioHilo
      <2>8. \A q \in Pid : rafaga'[q] = rafaga[q] \/ q = pcb["rx"]
        BY <1>1, <2>1
      <2>9. EleccionSRT'
        BY <1>2, <2>1, <2>4, <2>8, EleccionQueda DEF Hilos
      <2>10. QED
        BY <2>1, <2>6, <2>7, <2>9, <1>5 DEF RxRecibe, RxExitLista, RxIntReady, Agrega, Paso
<1>6. CASE RxExitLista
      <2>1. /\ pcb["rx"] \in Pid /\ pcb'["rx"] = Nadie /\ Anotar("EXIT", pcb["rx"])
            /\ UNCHANGED <<cola, hilo, respuesta, rafaga>> /\ pc["rx"] = "exitLista"
        BY <1>1, <1>6 DEF RxExitLista, Paso, Toma, TieneProceso, redCpu, porProceso,
           datos, Hilos
      <2>2. lista["EXIT"][pcb["rx"]] = 0
        BY <1>1, <1>3, <2>1 DEF En, Clases, Colas, Esta, Listas
      <2>3. \A q \in Pid :
                lista'["EXIT"][q] = IF q = pcb["rx"] THEN 1 ELSE lista["EXIT"][q]
        BY <1>1, <2>1, <2>2 DEF Anotar, Listas
      <2>4. Muda(pcb["rx"], "EXIT")
        <3> SUFFICES ASSUME NEW q \in Pid, NEW l \in Clases
                     PROVE  En(l, q)' <=> IF q = pcb["rx"] THEN l = "EXIT" ELSE En(l, q)
          BY DEF Muda
        <3>1. CASE l \in {"EXIT", "rx"}
          BY <1>3, <2>1, <2>3, <3>1, NadieNoEsProceso DEF En, Colas, Clases, Esta
        <3>2. CASE l \notin {"EXIT", "rx"}
          BY <1>2, <1>3, <2>1, <3>2 DEF En, Clases, Colas, EnRespuesta, Hilos
        <3>3. QED
          BY <3>1, <3>2
      <2>5. SinRepetidos'
        BY <2>1, <2>3 DEF EnUnLugar, SinRepetidos
      <2>6. EleccionSRT'
        BY <1>2, <2>1, EleccionQueda DEF Hilos
      <2>7. QED
        BY <2>1, <2>4, <2>5, <2>6, <1>6 DEF RxRecibe, RxBlock, RxIntReady, Agrega, Paso
<1>7. CASE RxIntReady
      <2>1. /\ pcb["rx"] \in Pid /\ Toma("rx", Nadie) /\ Encolar("READY", pcb["rx"])
            /\ UNCHANGED <<hilo, lista, respuesta, rafaga>> /\ pc["rx"] = "intReady"
        BY <1>1, <1>7 DEF RxIntReady, Agrega, Paso, TieneProceso, redCpu, porProceso,
           datos, Hilos
      <2>2. cola'["READY"] = Append(cola["READY"], pcb["rx"])
        BY <1>1, <2>1 DEF Encolar, Colas
      <2>3. Muda(pcb["rx"], "READY") /\ SinRepetidos'
        BY <1>2, <2>1, DeHiloACola DEF Colas
      <2>4. EleccionSRT'
        BY <1>2, <2>1, <2>2, EleccionQueda DEF Hilos
      <2>5. QED
        BY <2>1, <2>3, <2>4, <1>7 DEF RxRecibe, RxBlock, RxExitLista, Paso
<1>8. CASE ~(RxRecibe \/ RxBlock \/ RxExitLista \/ RxIntReady)
      <2>1. UNCHANGED <<cola, pcb, hilo, respuesta>> /\ lista'["EXIT"] = lista["EXIT"]
        BY <1>1, <1>8 DEF recibirMensajeCPU, RxExit, RxExitProcesador, RxExitAvisa,
           RxExitMulti, RxInterrupt, RxIntSem, RxIntProcesador, Quita, Despierta,
           Borrar, porProceso, redCpu, Listas
      <2>2. Quedan /\ SinRepetidos'
        BY <1>2, <2>1, NadaSeMueve
      <2>3. \A q \in Pid :
                rafaga'[q] = rafaga[q] \/ (q = pcb["rx"] /\ pc["rx"] = "INTERRUPT")
        BY <1>1, <1>8 DEF recibirMensajeCPU, RxExit, RxExitProcesador, RxExitAvisa,
           RxExitMulti, RxInterrupt, RxIntSem, RxIntProcesador, Quita, Despierta,
           datos, Paso
      <2>4. \A q \in Pid : rafaga'[q] = rafaga[q] \/ Indices(cola["READY"], q) = {}
        BY <1>3, <2>3 DEF En, Clases, Colas
      <2>5. EleccionSRT'
        BY <1>2, <2>1, <2>4, EleccionQueda
      <2>6. QED
        BY <1>8, <2>2, <2>5
<1>9. QED
      BY <1>4, <1>5, <1>6, <1>7, <1>8

\* A hiloSuspendedor takes the process from the thread that received it to
\* COLA_BLOQUEO_IO; what it does later is about the lists.
LEMMA LugaresHilo ==
    ASSUME EnUnLugar, NEW p \in Pid, NEW n \in 1..MaxIO, hiloSuspendedor(p, n)
    PROVE  /\ SinRepetidos' /\ EleccionSRT'
           /\ HiloCola(p, n) => Muda(p, "COLA_IO")
           /\ ~HiloCola(p, n) => Quedan
<1>1. /\ hilo \in [Pid -> [1..MaxIO -> PcHilo]] /\ cola \in [Colas -> Seq(Pid)]
      /\ lista \in [Listas -> [Pid -> Nat]]
      BY DEF EnUnLugar, Procesador, Tipos, TypeOK
<1>2. /\ UNCHANGED <<crear, pc, pcb, rafaga, dispatch, respuesta>>
      /\ lista'["EXIT"] = lista["EXIT"]
      BY <1>1 DEF hiloSuspendedor, HiloExec, HiloProcesador, HiloBlock, HiloCola,
         HiloBloqueo, HiloVence, HiloSaca, HiloAvisa, HiloSusp, HiloMulti, Avanza,
         datos, redCpu, Borrar, Anotar, Listas
<1>3. CASE HiloCola(p, n)
      <2>1. /\ hilo[p][n] = "cola" /\ hilo' = [hilo EXCEPT ![p][n] = "bloqueo"]
            /\ Encolar("COLA_IO", p) /\ UNCHANGED lista
        BY <1>3 DEF HiloCola, Avanza
      <2>2. \A q \in Pid, m \in 1..MaxIO :
                hilo'[q][m] = IF q = p /\ m = n THEN "bloqueo" ELSE hilo[q][m]
        BY <1>1, <2>1
      <2>3. \A d \in Colas :
                cola'[d] = IF d = "COLA_IO" THEN Append(cola["COLA_IO"], p) ELSE cola[d]
        BY <1>1, <2>1 DEF Encolar
      <2>4. \A l \in Clases : En(l, p) <=> l = "hilo"
        <3>1. En("hilo", p)
          BY <2>1 DEF En, PcInicioHilo
        <3>2. QED
          BY <3>1 DEF EnUnLugar, UnaClase, Clases
      <2>5. \A m \in 1..MaxIO : hilo'[p][m] \notin PcInicioHilo
        BY <2>1, <2>2 DEF EnUnLugar, SinRepetidos, PcInicioHilo
      <2>6. \A q \in Pid : En("hilo", q)' <=> q # p /\ En("hilo", q)
        BY <2>2, <2>5 DEF En, Colas
      <2>7. /\ \A q : Indices(cola'["COLA_IO"], q) # {}
                        <=> q = p \/ Indices(cola["COLA_IO"], q) # {}
            /\ IsInjective(cola'["COLA_IO"])
        <3>1. cola["COLA_IO"] \in Seq(Pid) /\ IsInjective(cola["COLA_IO"])
          BY <1>1 DEF EnUnLugar, SinRepetidos, Colas
        <3>2. cola'["COLA_IO"] = Append(cola["COLA_IO"], p)
          BY <2>3 DEF Colas
        <3>3. Indices(cola["COLA_IO"], p) = {}
          BY <2>4 DEF En, Clases, Colas
        <3>4. QED
          BY <3>1, <3>2, <3>3, Agregado
      <2>8. SinRepetidos'
        BY <2>1, <2>2, <2>3, <2>7 DEF EnUnLugar, SinRepetidos, PcInicioHilo
      <2>9. Muda(p, "COLA_IO")
        <3> SUFFICES ASSUME NEW q \in Pid, NEW l \in Clases
                     PROVE  En(l, q)' <=> IF q = p THEN l = "COLA_IO" ELSE En(l, q)
          BY DEF Muda
        <3>1. CASE l \in Colas
          BY <2>3, <2>4, <2>7, <3>1 DEF En, Colas, Clases
        <3>2. CASE l = "hilo"
          BY <2>4, <2>6, <3>2 DEF Clases, Colas
        <3>3. CASE l \notin Colas \cup {"hilo"}
          BY <1>2, <2>1, <2>4, <3>3 DEF En, Clases, Colas, Esta, EnRespuesta
        <3>4. QED
          BY <3>1, <3>2, <3>3
      <2>10. cola'["READY"] = cola["READY"]
        BY <2>3 DEF Colas
      <2>11. EleccionSRT'
        BY <1>2, <2>10, EleccionQueda
      <2>12. QED
        BY <1>3, <2>8, <2>9, <2>11
<1>4. CASE ~HiloCola(p, n)
      <2>1. PICK b : /\ hilo[p][n] \in PcInicioHilo <=> b \in PcInicioHilo
                     /\ hilo' = [hilo EXCEPT ![p][n] = b]
        BY <1>4 DEF hiloSuspendedor, HiloExec, HiloProcesador, HiloBlock,
           HiloBloqueo, HiloVence, HiloSaca, HiloAvisa, HiloSusp, HiloMulti, Avanza,
           PcInicioHilo
      <2>2. \A q \in Pid, m \in 1..MaxIO :
                hilo'[q][m] = IF q = p /\ m = n THEN b ELSE hilo[q][m]
        BY <1>1, <2>1
      <2>3. cola' = cola
        BY <1>4 DEF hiloSuspendedor, HiloExec, HiloProcesador, HiloBlock,
           HiloBloqueo, HiloVence, HiloSaca, HiloAvisa, HiloSusp, HiloMulti
      <2>4. Quedan /\ SinRepetidos'
        BY <1>2, <2>1, <2>2, <2>3, NadaSeMueve
      <2>5. EleccionSRT'
        BY <1>2, <2>3, EleccionQueda
      <2>6. QED
        BY <1>4, <2>4, <2>5
<1>5. QED
      BY <1>3, <1>4

LEMMA LugaresCpu ==
    ASSUME EnUnLugar, iniciarDispatch
    PROVE  /\ SinRepetidos' /\ EleccionSRT'
           /\ CpuRecibe => Head(dispatch) \in Pid /\ Muda(Head(dispatch), "cpu")
           /\ CpuIO \/ CpuExit \/ CpuInterrupt =>
                    pcb["cpu"] \in Pid /\ Muda(pcb["cpu"], "respuesta")
           /\ CpuLimpia => Quedan
<1>1. /\ pc \in [Hilos -> PcLp \cup PcCp \cup PcRx \cup PcIo \cup PcCpu]
      /\ pcb \in [Hilos -> Pid \cup {Nadie}] /\ dispatch \in Seq(Pid) /\ TieneProceso
      BY DEF EnUnLugar, Procesador, Tipos, TypeOK
<1>2. /\ \A t \in Hilos \ {"cpu"} : pcb'[t] = pcb[t]
      /\ UNCHANGED <<crear, cola, lista, hilo, rafaga>> /\ pc'["cp"] = pc["cp"]
      BY <1>1 DEF iniciarDispatch, CpuRecibe, CpuIO, CpuExit, CpuInterrupt, CpuDevuelve,
         CpuLimpia, Paso, Toma, porProceso, datos, Hilos
<1>3. SinRepetidos' /\ EleccionSRT'
      <2>1. EleccionSRT'
        BY <1>2, EleccionQueda DEF Hilos
      <2>2. SinRepetidos'
        BY <1>2 DEF EnUnLugar, SinRepetidos
      <2>3. QED
        BY <2>1, <2>2
<1>4. CASE CpuRecibe
      <2>1. /\ dispatch # <<>> /\ dispatch' = Tail(dispatch) /\ UNCHANGED respuesta
            /\ pcb["cpu"] \notin Pid /\ pc["cpu"] = "libre" /\ pcb'["cpu"] = Head(dispatch)
        BY <1>1, <1>4 DEF CpuRecibe, Paso, Toma, TieneProceso, Hilos
      <2>2. Len(dispatch) = 1
        BY <2>1, UnaAVez DEF EnUnLugar
      <2>3. /\ Head(dispatch) = dispatch[1] /\ DOMAIN dispatch = {1}
            /\ DOMAIN dispatch' = {} /\ dispatch[1] \in Pid
        BY <1>1, <2>1, <2>2
      <2>4. /\ \A q : Indices(dispatch, q) # {} <=> q = dispatch[1]
            /\ \A q : Indices(dispatch', q) = {}
        BY <2>3 DEF Indices
      <2>5. \A l \in Clases : En(l, dispatch[1]) <=> l = "dispatch"
        <3>1. En("dispatch", dispatch[1])
          BY <2>4 DEF En
        <3>2. QED
          BY <2>3, <3>1 DEF EnUnLugar, UnaClase, Clases
      <2>6. Muda(dispatch[1], "cpu")
        <3> SUFFICES ASSUME NEW q \in Pid, NEW l \in Clases
                     PROVE  En(l, q)' <=> IF q = dispatch[1] THEN l = "cpu" ELSE En(l, q)
          BY DEF Muda
        <3>1. CASE l \in {"dispatch", "cpu"}
          BY <2>1, <2>3, <2>4, <2>5, <3>1 DEF En, Colas, Clases
        <3>2. CASE l \notin {"dispatch", "cpu"}
          BY <1>2, <2>1, <2>5, <3>2 DEF En, Clases, Colas, Esta, EnRespuesta, Hilos
        <3>3. QED
          BY <3>1, <3>2
      <2>7. QED
        BY <1>3, <2>1, <2>3, <2>6, <1>4 DEF CpuIO, CpuExit, CpuInterrupt, CpuDevuelve,
           CpuLimpia, Paso
<1>5. CASE CpuIO \/ CpuExit \/ CpuInterrupt
      <2>1. PICK op \in Avisos, b \in PcCpu : CpuDevuelve(op, b)
        BY <1>5 DEF CpuIO, CpuExit, CpuInterrupt, Avisos, PcCpu
      <2>2. /\ pcb["cpu"] \in Pid /\ pcb'["cpu"] = Nadie /\ UNCHANGED dispatch
            /\ pc["cpu"] = "ejecuta" /\ respuesta' = <<[op |-> op, pcb |-> pcb["cpu"]]>>
        BY <1>1, <2>1, Devuelve DEF CpuDevuelve, Paso, Toma, TieneProceso, Hilos, EnUnLugar
      <2>3. \A q : EnRespuesta(q)' <=> q = pcb["cpu"]
        BY <2>2 DEF EnRespuesta
      <2>4. \A q : ~EnRespuesta(q)
        BY <2>2, UnoSolo DEF EnRespuesta, EnUnLugar, Procesador, Tipos, TypeOK
      <2>5. \A l \in Clases : En(l, pcb["cpu"]) <=> l = "cpu"
        <3>1. En("cpu", pcb["cpu"])
          BY DEF En
        <3>2. QED
          BY <2>2, <3>1 DEF EnUnLugar, UnaClase, Clases
      <2>6. Muda(pcb["cpu"], "respuesta")
        <3> SUFFICES ASSUME NEW q \in Pid, NEW l \in Clases
                     PROVE  En(l, q)' <=> IF q = pcb["cpu"] THEN l = "respuesta" ELSE En(l, q)
          BY DEF Muda
        <3>1. CASE l \in {"respuesta", "cpu"}
          BY <2>2, <2>3, <2>4, <2>5, <3>1, NadieNoEsProceso DEF En, Colas, Clases
        <3>2. CASE l \notin {"respuesta", "cpu"}
          BY <1>2, <2>2, <2>5, <3>2 DEF En, Clases, Colas, Esta, Hilos
        <3>3. QED
          BY <3>1, <3>2
      <2>7. QED
        BY <1>3, <2>2, <2>6 DEF CpuRecibe, CpuLimpia, Paso
<1>6. CASE CpuLimpia
      <2>1. UNCHANGED <<dispatch, respuesta, pcb>> /\ pc["cpu"] = "limpia"
        BY <1>6 DEF CpuLimpia, Paso, redCpu
      <2>2. Quedan
        BY <1>2, <2>1, NadaSeMueve
      <2>3. QED
        BY <1>3, <2>1, <2>2 DEF CpuRecibe, CpuIO, CpuExit, CpuInterrupt, CpuDevuelve, Paso
<1>7. QED
      BY <1>4, <1>5, <1>6 DEF iniciarDispatch

LEMMA LugaresCrear ==
    ASSUME EnUnLugar, NEW p \in Pid, CrearNew(p) \/ CrearPost(p)
    PROVE  /\ SinRepetidos' /\ EleccionSRT'
           /\ CrearNew(p) => Muda(p, "NEW")
           /\ CrearPost(p) => Quedan
<1>1. cola \in [Colas -> Seq(Pid)] /\ crear \in [Pid -> PcCrear]
      BY DEF EnUnLugar, Procesador, Tipos, TypeOK
<1>2. UNCHANGED <<lista, hilo, pc, pcb, rafaga, dispatch, respuesta>>
      BY DEF CrearNew, CrearPost, datos, redCpu
<1>3. CASE CrearNew(p)
      <2>1. crear[p] = "new" /\ Encolar("NEW", p) /\ crear' = [crear EXCEPT ![p] = "post"]
        BY <1>3 DEF CrearNew
      <2>2. \A d \in Colas :
                cola'[d] = IF d = "NEW" THEN Append(cola["NEW"], p) ELSE cola[d]
        BY <1>1, <2>1 DEF Encolar
      <2>3. \A q \in Pid : crear'[q] = IF q = p THEN "post" ELSE crear[q]
        BY <1>1, <2>1
      <2>4. \A l \in Clases : En(l, p) <=> l = "crear"
        <3>1. En("crear", p)
          BY <2>1 DEF En
        <3>2. QED
          BY <3>1 DEF EnUnLugar, UnaClase, Clases
      <2>5. /\ \A q : Indices(cola'["NEW"], q) # {} <=> q = p \/ Indices(cola["NEW"], q) # {}
            /\ IsInjective(cola'["NEW"])
        <3>1. cola["NEW"] \in Seq(Pid) /\ IsInjective(cola["NEW"])
          BY <1>1 DEF EnUnLugar, SinRepetidos, Colas
        <3>2. cola'["NEW"] = Append(cola["NEW"], p)
          BY <2>2 DEF Colas
        <3>3. Indices(cola["NEW"], p) = {}
          BY <2>4 DEF En, Clases, Colas
        <3>4. QED
          BY <3>1, <3>2, <3>3, Agregado
      <2>6. SinRepetidos'
        BY <1>2, <2>2, <2>5 DEF EnUnLugar, SinRepetidos
      <2>7. Muda(p, "NEW")
        <3> SUFFICES ASSUME NEW q \in Pid, NEW l \in Clases
                     PROVE  En(l, q)' <=> IF q = p THEN l = "NEW" ELSE En(l, q)
          BY DEF Muda
        <3>1. CASE l \in Colas
          BY <2>2, <2>4, <2>5, <3>1 DEF En, Colas, Clases
        <3>2. CASE l \notin Colas
          BY <1>2, <2>3, <2>4, <3>2 DEF En, Clases, Colas, Esta, EnRespuesta
        <3>3. QED
          BY <3>1, <3>2
      <2>8. cola'["READY"] = cola["READY"]
        BY <2>2 DEF Colas
      <2>9. EleccionSRT'
        BY <1>2, <2>8, EleccionQueda
      <2>10. QED
        BY <2>1, <2>6, <2>7, <2>9 DEF CrearPost
<1>4. CASE CrearPost(p)
      <2>1. /\ crear[p] = "post" /\ UNCHANGED cola
            /\ \A q \in Pid : crear'[q] = IF q = p THEN "fin" ELSE crear[q]
        BY <1>1, <1>4 DEF CrearPost
      <2>2. Quedan /\ SinRepetidos'
        BY <1>2, <2>1, NadaSeMueve
      <2>3. EleccionSRT'
        BY <1>2, <2>1, EleccionQueda
      <2>4. QED
        BY <2>1, <2>2, <2>3 DEF CrearNew
<1>5. QED
      BY <1>3, <1>4

LEMMA LugaresQuieto ==
    ASSUME EnUnLugar, \/ iniciarInterrupt \/ conexionKernel \/ UNCHANGED vars
    PROVE  SinRepetidos' /\ EleccionSRT' /\ Quedan
<1>1. UNCHANGED <<cola, lista, hilo, crear, pc, pcb, rafaga, dispatch, respuesta>>
      BY DEF iniciarInterrupt, conexionKernel, vars, porProceso, datos, redCpu
<1>2. Quedan /\ SinRepetidos'
      BY <1>1, NadaSeMueve
<1>3. EleccionSRT'
      BY <1>1, EleccionQueda
<1>4. QED
      BY <1>2, <1>3

-----------------------------------------------------------------------------
(* The theorems.                                                           *)

LEMMA EnUnLugarInit == Init => EnUnLugar
<1> SUFFICES ASSUME Init
             PROVE  EnUnLugar
    OBVIOUS
<1>1. Procesador
      BY ProcesadorInit
<1>2. \A p \in Pid, k \in Clases : En(k, p) <=> k = "crear"
      BY NadieNoEsProceso
      DEF Init, En, Clases, Colas, Hilos, Indices, EnRespuesta, Esta, Listas, PcInicioHilo
<1>3. SinRepetidos
      BY DEF Init, SinRepetidos, Colas, Listas, IsInjective, PcInicioHilo
<1>4. QED
      BY <1>1, <1>2, <1>3 DEF EnUnLugar, UnaClase, EleccionSRT, Init

LEMMA EnUnLugarNext == EnUnLugar /\ [Next]_vars => EnUnLugar'
<1> SUFFICES ASSUME EnUnLugar, [Next]_vars
             PROVE  EnUnLugar'
    OBVIOUS
<1>1. Procesador'
      BY ProcesadorNext DEF EnUnLugar
<1>2. SUFFICES SinRepetidos' /\ EleccionSRT' /\ (Quedan \/ \E p \in Pid : \E k : Muda(p, k))
      BY <1>1, Mudanza DEF EnUnLugar
<1>3. CASE planifLargoPlazo
      BY <1>3, LugaresLp
<1>4. CASE planifCortoPlazo
      BY <1>4, LugaresCp
<1>5. CASE recibirMensajeCPU
      BY <1>5, LugaresRx
<1>6. ASSUME NEW p \in Pid, NEW n \in 1..MaxIO, hiloSuspendedor(p, n)
      PROVE  SinRepetidos' /\ EleccionSRT' /\ (Quedan \/ \E q \in Pid : \E k : Muda(q, k))
      BY <1>6, LugaresHilo
<1>7. CASE planifBloqueados
      BY <1>7, LugaresIo
<1>8. CASE iniciarDispatch
      BY <1>8, LugaresCpu DEF iniciarDispatch
<1>9. ASSUME NEW p \in Pid, CrearNew(p) \/ CrearPost(p)
      PROVE  SinRepetidos' /\ EleccionSRT' /\ (Quedan \/ \E q \in Pid : \E k : Muda(q, k))
      BY <1>9, LugaresCrear
<1>10. CASE iniciarInterrupt \/ conexionKernel \/ UNCHANGED vars
      BY <1>10, LugaresQuieto
<1>11. QED
      BY <1>3, <1>4, <1>5, <1>6, <1>7, <1>8, <1>9, <1>10 DEF Next

LEMMA SiempreEnUnLugar == Spec => []EnUnLugar
BY EnUnLugarInit, EnUnLugarNext, PTL DEF Spec

\* The places of a process: one class, and one position in it.
LEMMA LugarDeClase ==
    ASSUME EnUnLugar, NEW p \in Pid, NEW a \in Lugares(p)
    PROVE  /\ a = <<a[1], a[2]>> /\ a[1] \in Clases /\ En(a[1], p)
           /\ a[1] \in {"crear", "lp", "cp", "cpu", "rx", "io"} => a[2] = 0
           /\ a[1] \in Colas => a[2] \in Indices(cola[a[1]], p)
           /\ a[1] = "dispatch" => a[2] \in DOMAIN dispatch
           /\ a[1] = "respuesta" => a[2] \in DOMAIN respuesta
           /\ a[1] = "hilo" => a[2] \in 1..MaxIO /\ hilo[p][a[2]] \in PcInicioHilo
           /\ a[1] = "EXIT" => a[2] \in 1..lista["EXIT"][p]
<1>1. \/ \E t \in {"crear", "lp", "cp", "cpu", "rx", "io"} : a = <<t, 0>> /\ En(t, p)
      \/ \E c \in Colas : \E i \in Indices(cola[c], p) : a = <<c, i>>
      \/ \E i \in Indices(dispatch, p) : a = <<"dispatch", i>>
      \/ \E i \in DOMAIN respuesta : respuesta[i].pcb = p /\ a = <<"respuesta", i>>
      \/ \E n \in 1..MaxIO : hilo[p][n] \in PcInicioHilo /\ a = <<"hilo", n>>
      \/ \E i \in 1..lista["EXIT"][p] : a = <<"EXIT", i>>
      <2>1. \/ a \in LugaresHilos(p) \/ a \in LugaresColas(p)
            \/ a \in LugaresRed(p) \/ a \in LugaresListas(p)
        BY DEF Lugares
      <2>2. CASE a \in LugaresHilos(p)
        BY <2>2 DEF LugaresHilos, En
      <2>3. CASE a \in LugaresColas(p)
        BY <2>3 DEF LugaresColas
      <2>4. CASE a \in LugaresRed(p)
        BY <2>4 DEF LugaresRed
      <2>5. CASE a \in LugaresListas(p)
        BY <2>5 DEF LugaresListas
      <2>6. QED
        BY <2>1, <2>2, <2>3, <2>4, <2>5
<1>2. CASE \E t \in {"crear", "lp", "cp", "cpu", "rx", "io"} : a = <<t, 0>> /\ En(t, p)
      BY <1>2 DEF Clases, Colas
<1>3. CASE \E c \in Colas : \E i \in Indices(cola[c], p) : a = <<c, i>>
      BY <1>3 DEF Clases, Colas, En
<1>4. CASE \E i \in Indices(dispatch, p) : a = <<"dispatch", i>>
      BY <1>4 DEF Clases, Colas, En, Indices
<1>5. CASE \E i \in DOMAIN respuesta : respuesta[i].pcb = p /\ a = <<"respuesta", i>>
      BY <1>5 DEF Clases, Colas, En, EnRespuesta
<1>6. CASE \E n \in 1..MaxIO : hilo[p][n] \in PcInicioHilo /\ a = <<"hilo", n>>
      BY <1>6 DEF Clases, Colas, En
<1>7. CASE \E i \in 1..lista["EXIT"][p] : a = <<"EXIT", i>>
      <2>1. lista["EXIT"][p] \in Nat
        BY DEF EnUnLugar, Procesador, Tipos, TypeOK, Listas
      <2>2. lista["EXIT"][p] > 0
        BY <1>7, <2>1
      <2>3. QED
        BY <1>7, <2>2 DEF Clases, Colas, En, Esta
<1>8. QED
      BY <1>1, <1>2, <1>3, <1>4, <1>5, <1>6, <1>7

LEMMA LugarUnico == EnUnLugar => UnSoloLugar
<1> SUFFICES ASSUME EnUnLugar, NEW p \in Pid, NEW a \in Lugares(p), NEW b \in Lugares(p)
             PROVE  a = b
    BY DEF UnSoloLugar
<1>1. a[1] = b[1]
      BY LugarDeClase DEF EnUnLugar, UnaClase
<1>2. a[2] = b[2]
      <2>1. CASE a[1] \in {"crear", "lp", "cp", "cpu", "rx", "io"}
        BY <1>1, <2>1, LugarDeClase
      <2>2. CASE a[1] \in Colas
        BY <1>1, <2>2, LugarDeClase DEF EnUnLugar, SinRepetidos, IsInjective, Indices
      <2>3. CASE a[1] = "dispatch"
        <3>1. a[2] \in DOMAIN dispatch /\ b[2] \in DOMAIN dispatch
          BY <1>1, <2>3, LugarDeClase
        <3>2. dispatch \in Seq(Pid) /\ dispatch # <<>>
          BY <3>1 DEF EnUnLugar, Procesador, Tipos, TypeOK
        <3>3. Len(dispatch) = 1
          BY <3>2, UnaAVez DEF EnUnLugar
        <3>4. QED
          BY <3>1, <3>2, <3>3
      <2>4. CASE a[1] = "respuesta"
        <3>1. a[2] \in DOMAIN respuesta /\ b[2] \in DOMAIN respuesta
          BY <1>1, <2>4, LugarDeClase
        <3>2. respuesta \in Seq([op : Avisos, pcb : Pid]) /\ respuesta # <<>>
          BY <3>1 DEF EnUnLugar, Procesador, Tipos, TypeOK
        <3>3. Len(respuesta) = 1
          BY <3>2, UnaAVez DEF EnUnLugar
        <3>4. QED
          BY <3>1, <3>2, <3>3
      <2>5. CASE a[1] = "hilo"
        <3>1. /\ a[2] \in 1..MaxIO /\ hilo[p][a[2]] \in PcInicioHilo
              /\ b[2] \in 1..MaxIO /\ hilo[p][b[2]] \in PcInicioHilo
          BY <1>1, <2>5, LugarDeClase
        <3>2. QED
          BY <3>1 DEF EnUnLugar, SinRepetidos
      <2>6. CASE a[1] = "EXIT"
        <3>1. lista["EXIT"][p] \in Nat /\ lista["EXIT"][p] <= 1
          BY DEF EnUnLugar, SinRepetidos, Procesador, Tipos, TypeOK, Listas
        <3>2. a[2] \in 1..lista["EXIT"][p] /\ b[2] \in 1..lista["EXIT"][p]
          BY <1>1, <2>6, LugarDeClase
        <3>3. QED
          BY <3>1, <3>2
      <2>7. QED
        BY <2>1, <2>2, <2>3, <2>4, <2>5, <2>6, LugarDeClase DEF Clases
<1>3. QED
      BY <1>1, <1>2, LugarDeClase

\* No two threads work on one process and none waits twice, for any number of
\* processes and I/Os, although the I/O thread and the hiloSuspendedor of a
\* process decide on it on unlocked reads of the lists.
THEOREM UnProcesoUnLugar == Spec => []UnSoloLugar
BY SiempreEnUnLugar, LugarUnico, PTL

\* What algoritmo_SRT chose is still in LISTA_READY when it takes the mutex
\* again, and nothing ahead of it is as short.
THEOREM EleccionVigente == Spec => []EleccionSRT
<1>1. EnUnLugar => EleccionSRT
      BY DEF EnUnLugar
<1>2. QED
      BY <1>1, SiempreEnUnLugar, PTL

-----------------------------------------------------------------------------
(* LISTA_EXEC.                                                             *)

EnExec == EnUnLugar /\ ExecCoherente

\* The places of EnCpu among those of En.
LEMMA CpuLugar ==
    ASSUME NEW p \in Pid
    PROVE  /\ EnCpu(p) <=> \/ pc["cp"] = "despacha" /\ En("cp", p)
                           \/ En("dispatch", p) \/ En("cpu", p) \/ En("respuesta", p)
                           \/ En("rx", p) /\ pc["rx"] \in Avisos
                           \/ \E n \in 1..MaxIO : hilo[p][n] = "exec"
           /\ EnCpu(p)' <=> \/ pc'["cp"] = "despacha" /\ En("cp", p)'
                            \/ En("dispatch", p)' \/ En("cpu", p)' \/ En("respuesta", p)'
                            \/ En("rx", p)' /\ pc'["rx"] \in Avisos
                            \/ \E n \in 1..MaxIO : hilo'[p][n] = "exec"
BY DEF EnCpu, En, Colas

LEMMA ExecQueda ==
    ASSUME ExecCoherente, lista'["EXEC"] = lista["EXEC"],
           \A q \in Pid : EnCpu(q)' <=> EnCpu(q)
    PROVE  ExecCoherente'
BY DEF ExecCoherente, Si

LEMMA ExecEntra ==
    ASSUME EnExec, NEW p \in Pid, Anotar("EXEC", p), ~EnCpu(p), EnCpu(p)',
           \A q \in Pid : q # p => (EnCpu(q)' <=> EnCpu(q))
    PROVE  ExecCoherente'
<1>1. lista \in [Listas -> [Pid -> Nat]] /\ "EXEC" \in Listas
      BY DEF EnExec, EnUnLugar, Procesador, Tipos, TypeOK, Listas
<1>2. \A q \in Pid : lista'["EXEC"][q] = IF q = p THEN lista["EXEC"][q] + 1 ELSE lista["EXEC"][q]
      BY <1>1 DEF Anotar
<1>3. \A q \in Pid : lista["EXEC"][q] = Si(EnCpu(q))
      BY DEF EnExec, ExecCoherente
<1>4. QED
      BY <1>2, <1>3 DEF ExecCoherente, Si

LEMMA ExecSale ==
    ASSUME EnExec, NEW p \in Pid, Borrar("EXEC", p), EnCpu(p), ~EnCpu(p)',
           \A q \in Pid : q # p => (EnCpu(q)' <=> EnCpu(q))
    PROVE  ExecCoherente'
<1>1. lista \in [Listas -> [Pid -> Nat]] /\ "EXEC" \in Listas
      BY DEF EnExec, EnUnLugar, Procesador, Tipos, TypeOK, Listas
<1>2. \A q \in Pid : lista["EXEC"][q] = Si(EnCpu(q))
      BY DEF EnExec, ExecCoherente
<1>3. lista["EXEC"][p] = 1
      BY <1>2 DEF Si
<1>4. \A q \in Pid : lista'["EXEC"][q] = IF q = p THEN 0 ELSE lista["EXEC"][q]
      BY <1>1, <1>3 DEF Borrar
<1>5. QED
      BY <1>2, <1>4 DEF ExecCoherente, Si

\* Steps of the threads that neither have nor get the process in the CPU.
LEMMA ExecAjeno ==
    ASSUME EnExec, UNCHANGED <<dispatch, respuesta, hilo>>, lista'["EXEC"] = lista["EXEC"],
           \A t \in {"cp", "cpu", "rx"} : pc'[t] = pc[t] /\ pcb'[t] = pcb[t]
    PROVE  ExecCoherente'
<1>1. \A q \in Pid : EnCpu(q)' <=> EnCpu(q)
      BY DEF EnCpu, Indices, EnRespuesta
<1>2. QED
      BY <1>1, ExecQueda DEF EnExec

LEMMA ExecLp == ASSUME EnExec, planifLargoPlazo PROVE ExecCoherente'
<1> /\ pc \in [Hilos -> PcLp \cup PcCp \cup PcRx \cup PcIo \cup PcCpu]
    /\ pcb \in [Hilos -> Pid \cup {Nadie}]
      BY DEF EnExec, EnUnLugar, Procesador, Tipos, TypeOK
<1>1. /\ UNCHANGED <<dispatch, respuesta, hilo, lista>>
      /\ \A t \in {"cp", "cpu", "rx"} : pc'[t] = pc[t] /\ pcb'[t] = pcb[t]
      BY DEF planifLargoPlazo, LpPlanif, LpMulti, LpElige, LpSacaNew, LpSacaSusp,
         LpSaca, LpRespNew, LpRespSusp, LpRespuesta, LpMide, LpReady, LpReadyAvisa,
         LpAvisa, LpPost, Espera, Decide, Agrega, enviarInterruptCPU, Despierta, Paso,
         Toma, porProceso, datos, redCpu, Hilos
<1>2. QED
      BY <1>1, ExecAjeno

LEMMA ExecIo == ASSUME EnExec, planifBloqueados PROVE ExecCoherente'
<1>1. /\ pc \in [Hilos -> PcLp \cup PcCp \cup PcRx \cup PcIo \cup PcCpu]
      /\ pcb \in [Hilos -> Pid \cup {Nadie}] /\ lista \in [Listas -> [Pid -> Nat]]
      BY DEF EnExec, EnUnLugar, Procesador, Tipos, TypeOK
<1>2. /\ UNCHANGED <<dispatch, respuesta, hilo>>
      /\ \/ UNCHANGED lista
         \/ Borrar("BLOCKED", pcb["io"]) \/ Borrar("BLOCKED_SUSPENDED", pcb["io"])
      /\ \E b \in PcIo : pc' = [pc EXCEPT !["io"] = b]
      /\ UNCHANGED pcb \/ \E q : pcb' = [pcb EXCEPT !["io"] = q]
      BY DEF planifBloqueados, IoBloqueo, IoCola, IoTermina, IoMira, IoOlvida,
         IoSaca, IoReady, IoAvisa, IoPost, IoSacaSusp, IoSuspReady, IoPostLp,
         Espera, Extrae, Decide, Quita, Agrega, enviarInterruptCPU, Despierta,
         Paso, Toma, porProceso, redCpu, PcIo
<1>3. lista'["EXEC"] = lista["EXEC"]
      BY <1>1, <1>2 DEF Borrar, Listas
<1>4. \A t \in {"cp", "cpu", "rx"} : pc'[t] = pc[t] /\ pcb'[t] = pcb[t]
      BY <1>1, <1>2 DEF Hilos
<1>5. QED
      BY <1>2, <1>3, <1>4, ExecAjeno

LEMMA ExecCp == ASSUME EnExec, planifCortoPlazo PROVE ExecCoherente'
<1>1. /\ pc \in [Hilos -> PcLp \cup PcCp \cup PcRx \cup PcIo \cup PcCpu]
      /\ pcb \in [Hilos -> Pid \cup {Nadie}] /\ TieneProceso
      BY DEF EnExec, EnUnLugar, Procesador, Tipos, TypeOK
<1>2. /\ UNCHANGED <<respuesta, hilo>> /\ pcb'["rx"] = pcb["rx"]
      /\ pc'["rx"] = pc["rx"] /\ pcb'["cpu"] = pcb["cpu"]
      BY <1>1 DEF planifCortoPlazo, CpReady, CpProcesador, algoritmo_FIFO, algoritmo_SRT,
         CpQuita, CpExec, CpDespacha, Espera, Extrae, Paso, Toma, porProceso, redCpu, Hilos
<1>3. CASE CpExec
      <2>1. /\ Anotar("EXEC", pcb["cp"]) /\ pcb["cp"] \in Pid /\ pc["cp"] = "exec"
            /\ pc'["cp"] = "despacha" /\ UNCHANGED <<pcb, dispatch>>
        BY <1>1, <1>3 DEF CpExec, Paso, TieneProceso, redCpu, Hilos
      <2>2. \A l \in Clases : En(l, pcb["cp"]) <=> l = "cp"
        <3>1. En("cp", pcb["cp"])
          BY <2>1 DEF En
        <3>2. QED
          BY <2>1, <3>1 DEF EnExec, EnUnLugar, UnaClase, Clases
      <2>3. ~EnCpu(pcb["cp"])
        <3>1. \A n \in 1..MaxIO : hilo[pcb["cp"]][n] # "exec"
          BY <2>1, <2>2 DEF En, Clases, Colas, PcInicioHilo
        <3>2. QED
          BY <2>1, <2>2, <3>1, CpuLugar DEF Clases, Colas
      <2>4. /\ EnCpu(pcb["cp"])'
            /\ \A q \in Pid : q # pcb["cp"] => (EnCpu(q)' <=> EnCpu(q))
        BY <1>2, <2>1 DEF EnCpu, Indices, EnRespuesta
      <2>5. QED
        BY <2>1, <2>3, <2>4, ExecEntra
<1>4. CASE CpDespacha
      <2>1. /\ UNCHANGED lista /\ pc["cp"] = "despacha" /\ pc'["cp"] = "ready"
            /\ pcb["cp"] \in Pid /\ Muda(pcb["cp"], "dispatch")
        BY <1>1, <1>4, LugaresCp DEF CpDespacha, Paso, EnExec, Hilos
      <2>2. \A q \in Pid : En("cp", q) <=> q = pcb["cp"]
        BY <2>1 DEF En, Colas
      <2>3. \A q \in Pid : EnCpu(q)' <=> EnCpu(q)
        BY <1>2, <2>1, <2>2, CpuLugar DEF Muda, Clases, Colas
      <2>4. QED
        BY <2>1, <2>3, ExecQueda DEF EnExec
<1>5. CASE ~(CpExec \/ CpDespacha)
      <2>1. /\ UNCHANGED <<lista, dispatch>> /\ pc["cp"] # "despacha"
            /\ pc'["cp"] # "despacha"
        BY <1>1, <1>5 DEF planifCortoPlazo, CpReady, CpProcesador, algoritmo_FIFO,
           algoritmo_SRT, CpQuita, Espera, Extrae, Paso, redCpu, Hilos
      <2>2. \A q \in Pid : EnCpu(q)' <=> EnCpu(q)
        BY <1>2, <2>1 DEF EnCpu, Indices, EnRespuesta
      <2>3. QED
        BY <2>1, <2>2, ExecQueda DEF EnExec
<1>6. QED
      BY <1>3, <1>4, <1>5

LEMMA ExecRx == ASSUME EnExec, recibirMensajeCPU PROVE ExecCoherente'
<1>1. /\ pc \in [Hilos -> PcLp \cup PcCp \cup PcRx \cup PcIo \cup PcCpu]
      /\ pcb \in [Hilos -> Pid \cup {Nadie}] /\ hilo \in [Pid -> [1..MaxIO -> PcHilo]]
      /\ lista \in [Listas -> [Pid -> Nat]] /\ TieneProceso
      BY DEF EnExec, EnUnLugar, Procesador, Tipos, TypeOK
<1>2. pc'["cp"] = pc["cp"]
      BY <1>1 DEF recibirMensajeCPU, RxRecibe, RxBlock, RxExit, RxExitProcesador,
         RxExitAvisa, RxExitLista, RxExitMulti, RxInterrupt, RxIntReady, RxIntSem,
         RxIntProcesador, Quita, Despierta, Agrega, Paso, Hilos
<1>3. ASSUME pcb["rx"] \in Pid
      PROVE  \A l \in Clases : En(l, pcb["rx"]) <=> l = "rx"
      <2>1. En("rx", pcb["rx"])
        BY DEF En
      <2>2. QED
        BY <1>3, <2>1 DEF EnExec, EnUnLugar, UnaClase, Clases
<1>4. CASE RxRecibe
      <2>1. /\ UNCHANGED <<lista, hilo>> /\ pc'["rx"] = Head(respuesta).op
            /\ Head(respuesta).pcb \in Pid /\ Muda(Head(respuesta).pcb, "rx")
        BY <1>1, <1>4, LugaresRx DEF RxRecibe, Paso, EnExec, porProceso, Hilos
      <2>2. Head(respuesta).op \in Avisos /\ EnRespuesta(Head(respuesta).pcb)
        <3>1. /\ respuesta \in Seq([op : Avisos, pcb : Pid]) /\ respuesta # <<>>
              /\ 1 \in DOMAIN respuesta /\ Head(respuesta) = respuesta[1]
          BY <1>4 DEF RxRecibe, EnExec, EnUnLugar, Procesador, Tipos, TypeOK
        <3>2. respuesta[1] \in [op : Avisos, pcb : Pid]
          BY <3>1, Elemento
        <3>3. QED
          BY <3>1, <3>2 DEF EnRespuesta
      <2>3. \A q \in Pid : ~En("rx", q)
        BY <1>1, <1>4 DEF RxRecibe, Paso, TieneProceso, Avisos, En, Colas
      <2>4. En("respuesta", Head(respuesta).pcb)
        BY <2>2 DEF En
      <2>5. \A q \in Pid : EnCpu(q)' <=> EnCpu(q)
        BY <1>2, <2>1, <2>2, <2>3, <2>4, CpuLugar DEF Muda, Clases, Colas
      <2>6. QED
        BY <2>1, <2>5, ExecQueda DEF EnExec
<1>5. CASE RxBlock
      <2>1. /\ UNCHANGED lista /\ pc["rx"] = "BLOCK" /\ pc'["rx"] = "recibe"
            /\ pcb["rx"] \in Pid /\ Muda(pcb["rx"], "hilo") /\ SinHilo(pcb["rx"])
            /\ hilo' = [hilo EXCEPT ![pcb["rx"]][nIO[pcb["rx"]]] = "exec"]
        BY <1>1, <1>5, LugaresRx DEF RxBlock, Paso, EnExec, Hilos, EnUnLugar, Procesador,
           Frescos
      <2>2. PICK n \in 1..MaxIO : n = nIO[pcb["rx"]]
        BY <2>1 DEF SinHilo
      <2>3. \A q \in Pid, m \in 1..MaxIO :
                hilo'[q][m] = IF q = pcb["rx"] /\ m = n THEN "exec" ELSE hilo[q][m]
        BY <1>1, <2>1, <2>2
      <2>4. \A q \in Pid : En("rx", q) <=> q = pcb["rx"]
        BY <2>1 DEF En, Colas
      <2>5. \A q \in Pid : (\E m \in 1..MaxIO : hilo'[q][m] = "exec")
                        <=> q = pcb["rx"] \/ \E m \in 1..MaxIO : hilo[q][m] = "exec"
        BY <2>1, <2>3
      <2>6. \A q \in Pid : EnCpu(q)' <=> EnCpu(q)
        BY <1>2, <2>1, <2>4, <2>5, CpuLugar DEF Muda, Clases, Colas, Avisos
      <2>7. QED
        BY <2>1, <2>6, ExecQueda DEF EnExec
<1>6. CASE RxExit \/ RxInterrupt
      <2>1. /\ pcb["rx"] \in Pid /\ pc["rx"] \in Avisos /\ pc'["rx"] \notin Avisos
            /\ UNCHANGED <<pcb, hilo, dispatch, respuesta>> /\ Borrar("EXEC", pcb["rx"])
        BY <1>1, <1>6 DEF RxExit, RxInterrupt, Quita, Paso, TieneProceso, Avisos,
           porProceso, redCpu, Hilos
      <2>2. ~EnCpu(pcb["rx"])'
        <3>1. \A n \in 1..MaxIO : hilo[pcb["rx"]][n] # "exec"
          BY <1>3, <2>1 DEF En, Clases, Colas, PcInicioHilo
        <3>2. /\ ~En("dispatch", pcb["rx"]) /\ ~En("cpu", pcb["rx"])
              /\ ~En("respuesta", pcb["rx"]) /\ ~En("cp", pcb["rx"])
          BY <1>3, <2>1 DEF Clases, Colas
        <3>3. QED
          BY <1>2, <2>1, <3>1, <3>2 DEF EnCpu, En, Colas, Indices, EnRespuesta
      <2>3. EnCpu(pcb["rx"]) /\ \A q \in Pid : q # pcb["rx"] => (EnCpu(q)' <=> EnCpu(q))
        BY <1>2, <2>1 DEF EnCpu, Indices, EnRespuesta
      <2>4. QED
        BY <2>1, <2>2, <2>3, ExecSale
<1>7. CASE ~(RxRecibe \/ RxBlock \/ RxExit \/ RxInterrupt)
      <2>1. /\ UNCHANGED <<hilo, dispatch, respuesta>> /\ lista'["EXEC"] = lista["EXEC"]
            /\ pcb'["cp"] = pcb["cp"] /\ pcb'["cpu"] = pcb["cpu"]
            /\ pc["rx"] \notin Avisos /\ pc'["rx"] \notin Avisos
        BY <1>1, <1>7 DEF recibirMensajeCPU, RxExitProcesador, RxExitAvisa, RxExitLista,
           RxExitMulti, RxIntReady, RxIntSem, RxIntProcesador, Despierta, Agrega, Paso,
           Toma, Anotar, porProceso, redCpu, Hilos, Listas, Avisos
      <2>2. \A q \in Pid : EnCpu(q)' <=> EnCpu(q)
        BY <1>2, <2>1 DEF EnCpu, Indices, EnRespuesta
      <2>3. QED
        BY <2>1, <2>2, ExecQueda DEF EnExec
<1>8. QED
      BY <1>4, <1>5, <1>6, <1>7

LEMMA ExecHilo ==
    ASSUME EnExec, NEW p \in Pid, NEW n \in 1..MaxIO, hiloSuspendedor(p, n)
    PROVE  ExecCoherente'
<1>1. /\ hilo \in [Pid -> [1..MaxIO -> PcHilo]] /\ lista \in [Listas -> [Pid -> Nat]]
      BY DEF EnExec, EnUnLugar, Procesador, Tipos, TypeOK
<1>2. PICK b \in PcHilo \ {"exec"} :
            /\ hilo' = [hilo EXCEPT ![p][n] = b]
            /\ hilo[p][n] = "exec" <=> HiloExec(p, n)
      BY DEF hiloSuspendedor, HiloExec, HiloProcesador, HiloBlock, HiloCola,
         HiloBloqueo, HiloVence, HiloSaca, HiloAvisa, HiloSusp, HiloMulti, Avanza, PcHilo
<1>3. \A q \in Pid, m \in 1..MaxIO :
            hilo'[q][m] = IF q = p /\ m = n THEN b ELSE hilo[q][m]
      BY <1>1, <1>2
<1>4. UNCHANGED <<pc, pcb, dispatch, respuesta>>
      BY DEF hiloSuspendedor, HiloExec, HiloProcesador, HiloBlock, HiloCola,
         HiloBloqueo, HiloVence, HiloSaca, HiloAvisa, HiloSusp, HiloMulti, Avanza, redCpu
<1>5. CASE HiloExec(p, n)
      <2>1. hilo[p][n] = "exec" /\ Borrar("EXEC", p)
        BY <1>2, <1>5 DEF HiloExec
      <2>2. \A l \in Clases : En(l, p) <=> l = "hilo"
        <3>1. En("hilo", p)
          BY <2>1 DEF En, PcInicioHilo
        <3>2. QED
          BY <3>1 DEF EnExec, EnUnLugar, UnaClase, Clases
      <2>3. \A m \in 1..MaxIO : hilo'[p][m] # "exec"
        BY <1>3, <2>1 DEF EnExec, EnUnLugar, SinRepetidos, PcInicioHilo
      <2>4. /\ ~En("dispatch", p) /\ ~En("cpu", p) /\ ~En("respuesta", p)
            /\ ~En("cp", p) /\ ~En("rx", p)
        BY <2>2 DEF Clases, Colas
      <2>5. EnCpu(p) /\ ~EnCpu(p)'
        BY <1>4, <2>1, <2>3, <2>4 DEF EnCpu, En, Colas, Indices, EnRespuesta
      <2>6. \A q \in Pid : q # p => (EnCpu(q)' <=> EnCpu(q))
        BY <1>3, <1>4 DEF EnCpu, Indices, EnRespuesta
      <2>7. QED
        BY <2>1, <2>5, <2>6, ExecSale
<1>6. CASE ~HiloExec(p, n)
      <2>1. lista'["EXEC"] = lista["EXEC"]
        BY <1>1, <1>6 DEF hiloSuspendedor, HiloProcesador, HiloBlock, HiloCola,
           HiloBloqueo, HiloVence, HiloSaca, HiloAvisa, HiloSusp, HiloMulti, Borrar,
           Anotar, Listas
      <2>2. \A q \in Pid, m \in 1..MaxIO : hilo'[q][m] = "exec" <=> hilo[q][m] = "exec"
        BY <1>2, <1>3, <1>6
      <2>3. \A q \in Pid : EnCpu(q)' <=> EnCpu(q)
        BY <1>4, <2>2 DEF EnCpu, Indices, EnRespuesta
      <2>4. QED
        BY <2>1, <2>3, ExecQueda DEF EnExec
<1>7. QED
      BY <1>5, <1>6

LEMMA ExecCpu == ASSUME EnExec, iniciarDispatch PROVE ExecCoherente'
<1>1. /\ pc \in [Hilos -> PcLp \cup PcCp \cup PcRx \cup PcIo \cup PcCpu]
      /\ pcb \in [Hilos -> Pid \cup {Nadie}] /\ TieneProceso
      BY DEF EnExec, EnUnLugar, Procesador, Tipos, TypeOK
<1>2. /\ UNCHANGED <<hilo, lista>> /\ pc'["cp"] = pc["cp"] /\ pc'["rx"] = pc["rx"]
      BY <1>1 DEF iniciarDispatch, CpuRecibe, CpuIO, CpuExit, CpuInterrupt, CpuDevuelve,
         CpuLimpia, Paso, porProceso, Hilos
<1>3. CASE CpuRecibe
      <2>1. Head(dispatch) \in Pid /\ Muda(Head(dispatch), "cpu")
        BY <1>3, LugaresCpu DEF EnExec
      <2>2. En("dispatch", Head(dispatch))
        <3>1. dispatch \in Seq(Pid) /\ dispatch # <<>>
          BY <1>3 DEF CpuRecibe, EnExec, EnUnLugar, Procesador, Tipos, TypeOK
        <3>2. QED
          BY <3>1 DEF En, Indices
      <2>3. \A q \in Pid : EnCpu(q)' <=> EnCpu(q)
        BY <1>2, <2>1, <2>2, CpuLugar DEF Muda, Clases, Colas, EnExec, EnUnLugar, UnaClase
      <2>4. QED
        BY <1>2, <2>3, ExecQueda DEF EnExec
<1>4. CASE CpuIO \/ CpuExit \/ CpuInterrupt
      <2>1. pcb["cpu"] \in Pid /\ Muda(pcb["cpu"], "respuesta")
        BY <1>4, LugaresCpu DEF EnExec
      <2>2. En("cpu", pcb["cpu"])
        BY DEF En
      <2>3. \A q \in Pid : EnCpu(q)' <=> EnCpu(q)
        BY <1>2, <2>1, <2>2, CpuLugar DEF Muda, Clases, Colas, EnExec, EnUnLugar, UnaClase
      <2>4. QED
        BY <1>2, <2>3, ExecQueda DEF EnExec
<1>5. CASE CpuLimpia
      <2>1. UNCHANGED <<pcb, dispatch, respuesta>>
        BY <1>5 DEF CpuLimpia, redCpu
      <2>2. \A q \in Pid : EnCpu(q)' <=> EnCpu(q)
        BY <1>2, <2>1 DEF EnCpu, Indices, EnRespuesta
      <2>3. QED
        BY <1>2, <2>2, ExecQueda DEF EnExec
<1>6. QED
      BY <1>3, <1>4, <1>5 DEF iniciarDispatch

LEMMA EnExecNext == EnExec /\ [Next]_vars => EnExec'
<1> SUFFICES ASSUME EnExec, [Next]_vars
             PROVE  ExecCoherente'
    BY EnUnLugarNext DEF EnExec
<1>1. ASSUME NEW p \in Pid, CrearNew(p) \/ CrearPost(p)
      PROVE  ExecCoherente'
      BY <1>1, ExecAjeno DEF CrearNew, CrearPost, redCpu
<1>2. CASE iniciarInterrupt \/ conexionKernel \/ UNCHANGED vars
      BY <1>2, ExecAjeno DEF iniciarInterrupt, conexionKernel, vars, porProceso, redCpu
<1>3. QED
      BY <1>1, <1>2, ExecLp, ExecCp, ExecRx, ExecHilo, ExecIo, ExecCpu DEF Next

\* LISTA_EXEC, read by the long-term scheduler to decide whether to interrupt,
\* holds the process given to the CPU, once, and nothing else, although three
\* threads take processes out of it.
THEOREM ExecEsElDeLaCpu == Spec => []ExecCoherente
<1>1. Init => EnExec
      <2> SUFFICES ASSUME Init
                   PROVE  EnExec
        OBVIOUS
      <2>1. \A p \in Pid : ~EnCpu(p)
        BY NadieNoEsProceso DEF Init, EnCpu, Indices, EnRespuesta, Hilos
      <2>2. QED
        BY <2>1, EnUnLugarInit DEF Init, EnExec, ExecCoherente, Si, Listas
<1>2. EnExec /\ [Next]_vars => EnExec'
      BY EnExecNext
<1>3. EnExec => ExecCoherente
      BY DEF EnExec
<1>4. QED
      BY <1>1, <1>2, <1>3, PTL DEF Spec

=============================================================================
