------------------------------ MODULE KernelCiclo ------------------------------
(***************************************************************************)
(* What becomes of a process of the Kernel, for every instance.            *)
(*                                                                         *)
(* A process is in one class of places (KernelLugares), and everything     *)
(* here is read from that class:                                           *)
(*  - its state in CicloVida is a function of the class: a step changes it *)
(*    when it takes the process to another class, or when the thread that  *)
(*    has it learns something about it;                                    *)
(*  - once it is told to exit, no class is left from which a request to    *)
(*    load it could be sent;                                               *)
(*  - what the memory is asked about it, but for a suspension, is asked    *)
(*    from a class that is not one of the CPU's;                           *)
(*  - it keeps one of the GRADO_MULTIPROGRAMACION places in some classes   *)
(*    and not in others, and a step between the two kinds is one of a      *)
(*    thread that has the difference with it.                              *)
(***************************************************************************)
EXTENDS KernelLugares

\* The state of a process that is in a place of class k.
EstadoEn(k) ==
    CASE k = "crear" -> "FUERA"
      [] k = "NEW" \/ (k = "lp" /\ pc["lp"] = "respNew") -> "NEW"
      [] k = "READY" \/ (k = "lp" /\ pc["lp"] \in {"mide", "ready", "readyAvisa"}) -> "READY"
      [] k \in {"cp", "cpu", "dispatch", "respuesta"}
         \/ (k = "rx" /\ pc["rx"] \in Avisos \cup {"intReady"}) -> "EXEC"
      [] k = "READY_SUSPENDED" \/ (k = "lp" /\ pc["lp"] = "respSusp") -> "READY_SUSPENDED"
      [] k = "EXIT"
         \/ (k = "rx" /\ pc["rx"] \notin Avisos \cup {"intReady"}) -> "EXIT"
      [] OTHER -> "BLOCKED"

EstadoPorClase ==
    EnUnLugar => \A p \in Pid :
        /\ \A k \in Clases : En(k, p) => EstadoDe(p) = EstadoEn(k)
        /\ (\A k \in Clases : ~En(k, p)) => EstadoDe(p) = "BLOCKED"

\* What a step does to the states: nothing, or takes p from one to another.
Iguales == \A q \in Pid : EstadoDe(q)' = EstadoDe(q)
Cambia(p, desde, hacia) ==
    /\ EstadoDe(p) = desde /\ EstadoDe(p)' = hacia
    /\ \A q \in Pid \ {p} : EstadoDe(q)' = EstadoDe(q)

\* Along which arrow, if any.
Flecha ==
    \/ Iguales
    \/ \E p \in Pid :
        \/ Cambia(p, "FUERA", "NEW") \/ Cambia(p, "NEW", "READY")
        \/ Cambia(p, "READY", "EXEC") /\ \A q \in Pid : EstadoDe(q) # "EXEC"
        \/ Cambia(p, "EXEC", "READY") \/ Cambia(p, "EXEC", "BLOCKED")
        \/ Cambia(p, "EXEC", "EXIT") \/ Cambia(p, "BLOCKED", "READY")
        \/ Cambia(p, "BLOCKED", "READY_SUSPENDED")
        \/ Cambia(p, "READY_SUSPENDED", "READY")

-----------------------------------------------------------------------------
LEMMA EstadoUnico == EstadoPorClase
<1> SUFFICES ASSUME EnUnLugar, NEW p \in Pid
             PROVE  /\ \A k \in Clases : En(k, p) => EstadoDe(p) = EstadoEn(k)
                    /\ (\A k \in Clases : ~En(k, p)) => EstadoDe(p) = "BLOCKED"
    BY DEF EstadoPorClase
<1>1. /\ crear[p] = "new" <=> En("crear", p)
      /\ Indices(cola["NEW"], p) # {} <=> En("NEW", p)
      /\ Indices(cola["READY"], p) # {} <=> En("READY", p)
      /\ Indices(cola["READY_SUSPENDED"], p) # {} <=> En("READY_SUSPENDED", p)
      /\ pcb["lp"] = p <=> En("lp", p)
      /\ pcb["cpu"] = p <=> En("cpu", p)
      /\ pcb["rx"] = p <=> En("rx", p)
      /\ EnRespuesta(p) <=> En("respuesta", p)
      /\ Indices(dispatch, p) # {} <=> En("dispatch", p)
      /\ Esta("EXIT", p) <=> En("EXIT", p)
      BY DEF En, Colas
<1>2. pcb["cp"] = p /\ pc["cp"] # "quita" <=> En("cp", p)
      BY DEF En, Colas
<1>3. /\ pcb["lp"] = p => pc["lp"] \in {"respSusp", "respNew", "mide", "ready", "readyAvisa"}
      /\ pcb["rx"] = p => pc["rx"] \in Avisos \cup {"exitProcesador", "exitAvisa",
                                                   "exitLista", "intReady"}
      BY DEF EnUnLugar, Procesador, Tipos, TieneProceso
<1>5. ASSUME NEW k \in Clases, En(k, p)
      PROVE  EstadoDe(p) = EstadoEn(k)
      <2>1. \A l \in Clases : En(l, p) <=> l = k
        BY <1>5 DEF EnUnLugar, UnaClase
      <2>2. /\ crear[p] = "new" <=> k = "crear"
            /\ Indices(cola["NEW"], p) # {} <=> k = "NEW"
            /\ Indices(cola["READY"], p) # {} <=> k = "READY"
            /\ Indices(cola["READY_SUSPENDED"], p) # {} <=> k = "READY_SUSPENDED"
            /\ pcb["lp"] = p <=> k = "lp"
            /\ pcb["cpu"] = p <=> k = "cpu"
            /\ pcb["rx"] = p <=> k = "rx"
            /\ EnRespuesta(p) <=> k = "respuesta"
            /\ Indices(dispatch, p) # {} <=> k = "dispatch"
            /\ Esta("EXIT", p) <=> k = "EXIT"
            /\ pcb["cp"] = p /\ pc["cp"] # "quita" <=> k = "cp"
        BY <1>1, <1>2, <2>1 DEF Clases, Colas
      <2>3. CASE k \in {"crear", "NEW"}
        BY <2>2, <2>3 DEF EstadoDe, EstadoEn
      <2>4. CASE k = "READY"
        BY <2>2, <2>4 DEF EstadoDe, EstadoEn
      <2>5. CASE k = "lp"
        BY <1>3, <2>2, <2>5 DEF EstadoDe, EstadoEn
      <2>6. CASE k \in {"cp", "cpu", "dispatch", "respuesta"}
        BY <2>2, <2>6 DEF EstadoDe, EstadoEn
      <2>7. CASE k = "rx"
        BY <1>3, <2>2, <2>7 DEF EstadoDe, EstadoEn, Avisos
      <2>8. CASE k \in {"READY_SUSPENDED", "EXIT"}
        BY <2>2, <2>8 DEF EstadoDe, EstadoEn
      <2>9. CASE k \in {"COLA_IO", "io", "hilo"}
        BY <2>2, <2>9 DEF EstadoDe, EstadoEn
      <2>10. QED
        BY <2>3, <2>4, <2>5, <2>6, <2>7, <2>8, <2>9 DEF Clases, Colas
<1>6. ASSUME \A k \in Clases : ~En(k, p)
      PROVE  EstadoDe(p) = "BLOCKED"
      BY <1>1, <1>2, <1>6 DEF EstadoDe, Clases, Colas
<1>7. QED
      BY <1>5, <1>6

LEMMA EstadoUnicoDespues == EstadoPorClase'
BY EstadoUnico, PTL

LEMMA QuedanIguales ==
    ASSUME EnUnLugar, EnUnLugar', Quedan,
           \A k \in Clases, q \in Pid : En(k, q) => EstadoEn(k)' = EstadoEn(k)
    PROVE  Iguales
<1> SUFFICES ASSUME NEW q \in Pid
             PROVE  EstadoDe(q)' = EstadoDe(q)
    BY DEF Iguales
<1>1. /\ \A k \in Clases : En(k, q) => EstadoDe(q) = EstadoEn(k)
      /\ (\A k \in Clases : ~En(k, q)) => EstadoDe(q) = "BLOCKED"
      BY EstadoUnico DEF EstadoPorClase
<1>2. /\ \A k \in Clases : En(k, q)' => EstadoDe(q)' = EstadoEn(k)'
      /\ (\A k \in Clases : ~En(k, q)') => EstadoDe(q)' = "BLOCKED"
      BY EstadoUnicoDespues DEF EstadoPorClase
<1>3. \A k \in Clases : En(k, q)' <=> En(k, q)
      BY DEF Quedan
<1>4. QED
      BY <1>1, <1>2, <1>3

\* p goes from class f to class k, and the thread that changed pc did not have
\* another process.
LEMMA MudaCambia ==
    ASSUME EnUnLugar, EnUnLugar', NEW p \in Pid, NEW f \in Clases, NEW k \in Clases,
           En(f, p), Muda(p, k),
           \A l \in Clases, q \in Pid \ {p} : En(l, q) => EstadoEn(l)' = EstadoEn(l)
    PROVE  Cambia(p, EstadoEn(f), EstadoEn(k)')
<1>1. ASSUME NEW q \in Pid
      PROVE  /\ \A l \in Clases : En(l, q) => EstadoDe(q) = EstadoEn(l)
             /\ (\A l \in Clases : ~En(l, q)) => EstadoDe(q) = "BLOCKED"
             /\ \A l \in Clases : En(l, q)' => EstadoDe(q)' = EstadoEn(l)'
             /\ (\A l \in Clases : ~En(l, q)') => EstadoDe(q)' = "BLOCKED"
      BY EstadoUnico, EstadoUnicoDespues DEF EstadoPorClase
<1>2. ASSUME NEW q \in Pid \ {p}
      PROVE  EstadoDe(q)' = EstadoDe(q)
      <2>1. \A l \in Clases : En(l, q)' <=> En(l, q)
        BY DEF Muda
      <2>2. QED
        BY <1>1, <2>1
<1>3. EstadoDe(p) = EstadoEn(f)
      BY <1>1
<1>4. EstadoDe(p)' = EstadoEn(k)'
      BY <1>1 DEF Muda
<1>5. QED
      BY <1>2, <1>3, <1>4 DEF Cambia

\* The thread t, which has p, changes pc and p stays with it.
LEMMA QuedaCambia ==
    ASSUME EnUnLugar, EnUnLugar', NEW p \in Pid, NEW k \in Clases, En(k, p), Quedan,
           \A l \in Clases, q \in Pid \ {p} : En(l, q) => EstadoEn(l)' = EstadoEn(l)
    PROVE  Cambia(p, EstadoEn(k), EstadoEn(k)')
<1>1. \A l \in Clases : En(l, p) <=> l = k
      BY DEF EnUnLugar, UnaClase
<1>2. Muda(p, k)
      BY <1>1 DEF Quedan, Muda
<1>3. QED
      BY <1>2, MudaCambia

\* The process planifBloqueados forgets is in no place, and stays BLOCKED.
LEMMA MudaNingunaCambia ==
    ASSUME EnUnLugar, EnUnLugar', NEW p \in Pid, NEW f \in Clases,
           En(f, p), Muda(p, "olvido"), \A l : EstadoEn(l)' = EstadoEn(l)
    PROVE  Cambia(p, EstadoEn(f), "BLOCKED")
<1>1. ASSUME NEW q \in Pid
      PROVE  /\ \A l \in Clases : En(l, q) => EstadoDe(q) = EstadoEn(l)
             /\ (\A l \in Clases : ~En(l, q)) => EstadoDe(q) = "BLOCKED"
             /\ \A l \in Clases : En(l, q)' => EstadoDe(q)' = EstadoEn(l)'
             /\ (\A l \in Clases : ~En(l, q)') => EstadoDe(q)' = "BLOCKED"
      BY EstadoUnico, EstadoUnicoDespues DEF EstadoPorClase
<1>2. ASSUME NEW q \in Pid \ {p}
      PROVE  EstadoDe(q)' = EstadoDe(q)
      <2>1. \A l \in Clases : En(l, q)' <=> En(l, q)
        BY DEF Muda
      <2>2. QED
        BY <1>1, <2>1
<1>3. EstadoDe(p) = EstadoEn(f)
      BY <1>1
<1>4. EstadoDe(p)' = "BLOCKED"
      <2>1. \A l \in Clases : ~En(l, p)'
        BY DEF Muda, Clases, Colas
      <2>2. QED
        BY <1>1, <2>1
<1>5. QED
      BY <1>2, <1>3, <1>4 DEF Cambia

LEMMA CambiaIgual ==
    ASSUME NEW p \in Pid, NEW e, Cambia(p, e, e)
    PROVE  Iguales
<1>1. \A q \in Pid : EstadoDe(q)' = EstadoDe(q)
      <2> SUFFICES ASSUME NEW q \in Pid
                   PROVE  EstadoDe(q)' = EstadoDe(q)
        OBVIOUS
      <2>1. CASE q = p
        BY <2>1 DEF Cambia
      <2>2. CASE q # p
        BY <2>2 DEF Cambia
      <2>3. QED
        BY <2>1, <2>2
<1>2. QED
      BY <1>1 DEF Iguales

LEMMA CabezaEsta ==
    ASSUME EnUnLugar, NEW c \in Colas, cola[c] # <<>>
    PROVE  En(c, Head(cola[c]))
<1>1. cola[c] \in Seq(Pid) /\ IsInjective(cola[c])
      BY DEF EnUnLugar, SinRepetidos, Procesador, Tipos, TypeOK
<1>2. Indices(cola[c], Head(cola[c])) # {}
      BY <1>1, Sacado
<1>3. QED
      BY <1>2 DEF En

LEMMA PcEstado ==
    /\ \A k : k \notin {"lp", "rx"} => EstadoEn(k)' = EstadoEn(k)
    /\ pc'["lp"] = pc["lp"] => EstadoEn("lp")' = EstadoEn("lp")
    /\ pc'["rx"] = pc["rx"] => EstadoEn("rx")' = EstadoEn("rx")
BY DEF EstadoEn

\* sem_procesador: while planifCortoPlazo chooses, nobody is in EXEC.
LEMMA NadieEnExec ==
    ASSUME EnUnLugar, pc["cp"] \in {"elige", "quita"}, NEW q \in Pid
    PROVE  EstadoDe(q) # "EXEC"
<1>1. /\ ConSem + ConCp + ConDispatch + ConCpu + ConRespuesta + ConRx + ConHilo = 1
      /\ ConDispatch = Len(dispatch) /\ ConRespuesta = Len(respuesta)
      BY Suma DEF EnUnLugar, Procesador, ConDispatch, ConRespuesta
<1>2. ConCp = 1
      BY DEF ConCp, Si
<1>3. ConDispatch = 0 /\ ConCpu = 0 /\ ConRespuesta = 0 /\ ConRx = 0
      <2>1. /\ ConSem \in Nat /\ ConCp \in {0, 1} /\ ConDispatch \in Nat
            /\ ConCpu \in {0, 1} /\ ConRespuesta \in Nat /\ ConRx \in {0, 1}
            /\ ConHilo \in Nat
        BY Naturales DEF EnUnLugar
      <2>2. QED
        BY <1>1, <1>2, <2>1
<1>4. /\ dispatch = <<>> /\ respuesta = <<>> /\ pcb["cpu"] = Nadie
      /\ pc["rx"] \notin Avisos \cup {"intReady"}
      <2>1. dispatch \in Seq(Pid) /\ respuesta \in Seq([op : Avisos, pcb : Pid])
        BY DEF EnUnLugar, Procesador, Tipos, TypeOK
      <2>2. /\ dispatch # <<>> => Len(dispatch) > 0
            /\ respuesta # <<>> => Len(respuesta) > 0
        BY <2>1
      <2>3. pcb["cpu"] = Nadie /\ pc["rx"] \notin PcRxProcesador
        BY <1>3 DEF ConCpu, ConRx, Si
      <2>4. QED
        BY <1>1, <1>3, <2>2, <2>3 DEF PcRxProcesador
<1>5. \A k \in {"cp", "cpu", "dispatch", "respuesta"} : ~En(k, q)
      BY <1>4, NadieNoEsProceso
      DEF En, Colas, Indices, EnRespuesta, EnUnLugar, Procesador, Tipos, TieneProceso
<1>6. \A k \in Clases : EstadoEn(k) = "EXEC" => k \in {"cp", "cpu", "dispatch", "respuesta"}
      BY <1>4 DEF EstadoEn, Clases, Colas
<1>7. QED
      BY <1>5, <1>6, EstadoUnico DEF EstadoPorClase

-----------------------------------------------------------------------------
(* The threads.                                                            *)

LEMMA CicloLp ==
    ASSUME EnUnLugar, EnUnLugar', planifLargoPlazo
    PROVE  Flecha
<1>1. /\ pc \in [Hilos -> PcLp \cup PcCp \cup PcRx \cup PcIo \cup PcCpu]
      /\ TieneProceso
      BY DEF EnUnLugar, Procesador, Tipos, TypeOK
<1>2. pc'["rx"] = pc["rx"]
      BY <1>1 DEF planifLargoPlazo, LpPlanif, LpMulti, LpElige, LpSacaNew, LpSacaSusp,
         LpSaca, LpRespNew, LpRespSusp, LpRespuesta, LpMide, LpReady, LpReadyAvisa,
         LpAvisa, LpPost, Espera, Decide, Agrega, enviarInterruptCPU, Despierta, Paso,
         Hilos
<1>3. \A k : k # "lp" => EstadoEn(k)' = EstadoEn(k)
      BY <1>2, PcEstado
<1>4. \A k, q : En(k, q) /\ k = "lp" => q = pcb["lp"]
      BY DEF En, Colas
<1>5. pcb["lp"] \in Pid => En("lp", pcb["lp"])
      BY DEF En
<1>6. CASE LpSacaNew
      <2>1. /\ pc["lp"] = "new" /\ pc'["lp"] = "respNew" /\ pcb["lp"] \notin Pid
            /\ cola["NEW"] # <<>>
        BY <1>1, <1>6 DEF LpSacaNew, LpSaca, Paso, TieneProceso, Hilos
      <2>2. Head(cola["NEW"]) \in Pid /\ Muda(Head(cola["NEW"]), "lp")
        BY <1>6, LugaresLp
      <2>3. En("NEW", Head(cola["NEW"]))
        BY <2>1, CabezaEsta DEF Colas
      <2>4. Cambia(Head(cola["NEW"]), EstadoEn("NEW"), EstadoEn("lp")')
        BY <1>3, <1>4, <2>1, <2>2, <2>3, MudaCambia DEF Clases, Colas
      <2>5. EstadoEn("NEW") = "NEW" /\ EstadoEn("lp")' = "NEW"
        BY <2>1 DEF EstadoEn
      <2>6. QED
        BY <2>2, <2>4, <2>5, CambiaIgual DEF Flecha
<1>7. CASE LpSacaSusp
      <2>1. /\ pc["lp"] = "susp" /\ pc'["lp"] = "respSusp" /\ pcb["lp"] \notin Pid
            /\ cola["READY_SUSPENDED"] # <<>>
        BY <1>1, <1>7 DEF LpSacaSusp, LpSaca, Paso, TieneProceso, Hilos
      <2>2. /\ Head(cola["READY_SUSPENDED"]) \in Pid
            /\ Muda(Head(cola["READY_SUSPENDED"]), "lp")
        BY <1>7, LugaresLp
      <2>3. En("READY_SUSPENDED", Head(cola["READY_SUSPENDED"]))
        BY <2>1, CabezaEsta DEF Colas
      <2>4. Cambia(Head(cola["READY_SUSPENDED"]), EstadoEn("READY_SUSPENDED"), EstadoEn("lp")')
        BY <1>3, <1>4, <2>1, <2>2, <2>3, MudaCambia DEF Clases, Colas
      <2>5. EstadoEn("READY_SUSPENDED") = "READY_SUSPENDED" /\ EstadoEn("lp")' = "READY_SUSPENDED"
        BY <2>1 DEF EstadoEn
      <2>6. QED
        BY <2>2, <2>4, <2>5, CambiaIgual DEF Flecha
<1>8. CASE LpReady \/ LpReadyAvisa
      <2>1. pc["lp"] \in {"ready", "readyAvisa"}
        BY <1>8 DEF LpReady, LpReadyAvisa, Agrega, Paso
      <2>2. pcb["lp"] \in Pid /\ Muda(pcb["lp"], "READY")
        BY <1>8, LugaresLp
      <2>3. Cambia(pcb["lp"], EstadoEn("lp"), EstadoEn("READY")')
        BY <1>3, <1>4, <1>5, <2>2, MudaCambia DEF Clases, Colas
      <2>4. EstadoEn("lp") = "READY" /\ EstadoEn("READY")' = "READY"
        BY <2>1 DEF EstadoEn
      <2>5. QED
        BY <2>2, <2>3, <2>4, CambiaIgual DEF Flecha
<1>9. CASE LpRespNew
      <2>1. pc["lp"] = "respNew" /\ pc'["lp"] = "mide" /\ pcb["lp"] \in Pid
        BY <1>1, <1>9 DEF LpRespNew, LpRespuesta, Paso, TieneProceso, Hilos
      <2>2. Quedan
        BY <2>1, LugaresLp DEF LpSacaNew, LpSacaSusp, LpSaca, LpReady, LpReadyAvisa, Agrega,
           Paso
      <2>3. Cambia(pcb["lp"], EstadoEn("lp"), EstadoEn("lp")')
        BY <1>3, <1>4, <1>5, <2>1, <2>2, QuedaCambia DEF Clases, Colas
      <2>4. EstadoEn("lp") = "NEW" /\ EstadoEn("lp")' = "READY"
        BY <2>1 DEF EstadoEn
      <2>5. QED
        BY <2>1, <2>3, <2>4 DEF Flecha
<1>10. CASE LpRespSusp
      <2>1. /\ pc["lp"] = "respSusp" /\ pc'["lp"] \in {"ready", "readyAvisa"}
            /\ pcb["lp"] \in Pid
        BY <1>1, <1>10 DEF LpRespSusp, LpRespuesta, Paso, TieneProceso, Hilos
      <2>2. Quedan
        BY <2>1, LugaresLp DEF LpSacaNew, LpSacaSusp, LpSaca, LpReady, LpReadyAvisa, Agrega,
           Paso
      <2>3. Cambia(pcb["lp"], EstadoEn("lp"), EstadoEn("lp")')
        BY <1>3, <1>4, <1>5, <2>1, <2>2, QuedaCambia DEF Clases, Colas
      <2>4. EstadoEn("lp") = "READY_SUSPENDED" /\ EstadoEn("lp")' = "READY"
        BY <2>1 DEF EstadoEn
      <2>5. QED
        BY <2>1, <2>3, <2>4 DEF Flecha
<1>11. CASE LpMide
      <2>1. /\ pc["lp"] = "mide" /\ pc'["lp"] \in {"ready", "readyAvisa"}
        BY <1>1, <1>11 DEF LpMide, Decide, Paso, Hilos
      <2>2. Quedan
        BY <2>1, LugaresLp DEF LpSacaNew, LpSacaSusp, LpSaca, LpReady, LpReadyAvisa, Agrega,
           Paso
      <2>3. EstadoEn("lp")' = EstadoEn("lp")
        BY <2>1 DEF EstadoEn
      <2>4. QED
        BY <1>3, <2>2, <2>3, QuedanIguales DEF Flecha
<1>12. CASE LpPlanif \/ LpMulti \/ LpElige \/ LpAvisa \/ LpPost
      <2>1. pc["lp"] \in {"planif", "multi", "elige", "avisa", "post"}
        BY <1>12 DEF LpPlanif, LpMulti, LpElige, LpAvisa, LpPost, Espera, Decide,
           enviarInterruptCPU, Despierta, Paso
      <2>2. Quedan
        BY <2>1, LugaresLp DEF LpSacaNew, LpSacaSusp, LpSaca, LpReady, LpReadyAvisa, Agrega,
           Paso
      <2>3. pcb["lp"] \notin Pid
        BY <1>1, <2>1 DEF TieneProceso
      <2>4. QED
        BY <1>3, <1>4, <2>2, <2>3, QuedanIguales DEF Flecha
<1>13. QED
      BY <1>6, <1>7, <1>8, <1>9, <1>10, <1>11, <1>12 DEF planifLargoPlazo

LEMMA CicloCp ==
    ASSUME EnUnLugar, EnUnLugar', planifCortoPlazo
    PROVE  Flecha
<1>1. /\ pc \in [Hilos -> PcLp \cup PcCp \cup PcRx \cup PcIo \cup PcCpu]
      /\ TieneProceso
      BY DEF EnUnLugar, Procesador, Tipos, TypeOK
<1>2. pc'["lp"] = pc["lp"] /\ pc'["rx"] = pc["rx"]
      BY <1>1 DEF planifCortoPlazo, CpReady, CpProcesador, algoritmo_FIFO,
         algoritmo_SRT, CpQuita, CpExec, CpDespacha, Espera, Extrae, Paso, Hilos
<1>3. \A k : EstadoEn(k)' = EstadoEn(k)
      BY <1>2, PcEstado
<1>4. /\ EstadoEn("READY") = "READY" /\ EstadoEn("cp") = "EXEC"
      /\ EstadoEn("dispatch") = "EXEC"
      BY DEF EstadoEn
<1>5. ASSUME NEW p \in Pid, En("READY", p), Muda(p, "cp"), pc["cp"] \in {"elige", "quita"}
      PROVE  Flecha
      <2>1. Cambia(p, "READY", "EXEC")
        BY <1>3, <1>4, <1>5, MudaCambia DEF Clases, Colas
      <2>2. ASSUME NEW q \in Pid
            PROVE  EstadoDe(q) # "EXEC"
        BY <1>5, NadieEnExec
      <2>3. QED
        BY <2>1, <2>2 DEF Flecha
<1>6. CASE algoritmo_FIFO
      <2>1. pc["cp"] = "elige" /\ cola["READY"] # <<>>
        BY <1>6 DEF algoritmo_FIFO, Extrae, Paso
      <2>2. Head(cola["READY"]) \in Pid /\ Muda(Head(cola["READY"]), "cp")
        BY <1>6, LugaresCp
      <2>3. En("READY", Head(cola["READY"]))
        BY <2>1, CabezaEsta DEF Colas
      <2>4. QED
        BY <1>5, <2>1, <2>2, <2>3
<1>7. CASE CpQuita
      <2>1. pc["cp"] = "quita"
        BY <1>7 DEF CpQuita, Paso
      <2>2. pcb["cp"] \in Pid /\ Muda(pcb["cp"], "cp")
        BY <1>7, LugaresCp
      <2>3. En("READY", pcb["cp"])
        BY <2>1 DEF EnUnLugar, EleccionSRT, En, Colas, Indices
      <2>4. QED
        BY <1>5, <2>1, <2>2, <2>3
<1>8. CASE CpDespacha
      <2>1. pcb["cp"] \in Pid /\ Muda(pcb["cp"], "dispatch")
        BY <1>8, LugaresCp
      <2>2. En("cp", pcb["cp"])
        BY <1>8 DEF CpDespacha, Paso, En
      <2>3. Cambia(pcb["cp"], "EXEC", "EXEC")
        BY <1>3, <1>4, <2>1, <2>2, MudaCambia DEF Clases, Colas
      <2>4. QED
        BY <2>1, <2>3, CambiaIgual DEF Flecha
<1>9. CASE ~(algoritmo_FIFO \/ CpQuita \/ CpDespacha)
      BY <1>3, <1>9, LugaresCp, QuedanIguales DEF Flecha
<1>10. QED
      BY <1>6, <1>7, <1>8, <1>9

LEMMA CicloRx ==
    ASSUME EnUnLugar, EnUnLugar', recibirMensajeCPU
    PROVE  Flecha
<1>1. /\ pc \in [Hilos -> PcLp \cup PcCp \cup PcRx \cup PcIo \cup PcCpu]
      /\ TieneProceso
      BY DEF EnUnLugar, Procesador, Tipos, TypeOK
<1>2. pc'["lp"] = pc["lp"]
      BY <1>1 DEF recibirMensajeCPU, RxRecibe, RxBlock, RxExit, RxExitProcesador,
         RxExitAvisa, RxExitLista, RxExitMulti, RxInterrupt, RxIntReady, RxIntSem,
         RxIntProcesador, Quita, Despierta, Agrega, Paso, Hilos
<1>3. \A k : k # "rx" => EstadoEn(k)' = EstadoEn(k)
      BY <1>2, PcEstado
<1>4. \A k, q : En(k, q) /\ k = "rx" => q = pcb["rx"]
      BY DEF En, Colas
<1>5. pcb["rx"] \in Pid => En("rx", pcb["rx"])
      BY DEF En
<1>6. CASE RxRecibe
      <2>1. /\ pc["rx"] = "recibe" /\ pc'["rx"] = Head(respuesta).op
            /\ pcb["rx"] \notin Pid
        BY <1>1, <1>6 DEF RxRecibe, Paso, TieneProceso, Avisos, Hilos
      <2>2. Head(respuesta).pcb \in Pid /\ Muda(Head(respuesta).pcb, "rx")
        BY <1>6, LugaresRx
      <2>3. Head(respuesta).op \in Avisos /\ EnRespuesta(Head(respuesta).pcb)
        <3>1. /\ respuesta \in Seq([op : Avisos, pcb : Pid]) /\ respuesta # <<>>
              /\ 1 \in DOMAIN respuesta /\ Head(respuesta) = respuesta[1]
          BY <1>6 DEF RxRecibe, EnUnLugar, Procesador, Tipos, TypeOK
        <3>2. respuesta[1] \in [op : Avisos, pcb : Pid]
          BY <3>1, Elemento
        <3>3. QED
          BY <3>1, <3>2 DEF EnRespuesta
      <2>4. En("respuesta", Head(respuesta).pcb)
        BY <2>3 DEF En
      <2>5. Cambia(Head(respuesta).pcb, EstadoEn("respuesta"), EstadoEn("rx")')
        BY <1>3, <1>4, <2>1, <2>2, <2>4, MudaCambia DEF Clases, Colas
      <2>6. EstadoEn("respuesta") = "EXEC" /\ EstadoEn("rx")' = "EXEC"
        BY <2>1, <2>3 DEF EstadoEn
      <2>7. QED
        BY <2>2, <2>5, <2>6, CambiaIgual DEF Flecha
<1>7. CASE RxBlock
      <2>1. pc["rx"] = "BLOCK"
        BY <1>7 DEF RxBlock, Paso
      <2>2. pcb["rx"] \in Pid /\ Muda(pcb["rx"], "hilo")
        BY <1>7, LugaresRx
      <2>3. Cambia(pcb["rx"], EstadoEn("rx"), EstadoEn("hilo")')
        BY <1>3, <1>4, <1>5, <2>2, MudaCambia DEF Clases, Colas
      <2>4. EstadoEn("rx") = "EXEC" /\ EstadoEn("hilo")' = "BLOCKED"
        BY <2>1 DEF EstadoEn, Avisos
      <2>5. QED
        BY <2>2, <2>3, <2>4 DEF Flecha
<1>8. CASE RxExit
      <2>1. pc["rx"] = "EXIT" /\ pc'["rx"] = "exitProcesador" /\ pcb["rx"] \in Pid
        BY <1>1, <1>8 DEF RxExit, Quita, Paso, TieneProceso, Avisos, Hilos
      <2>2. Quedan
        BY <2>1, LugaresRx DEF RxRecibe, RxBlock, RxExitLista, RxIntReady, Agrega, Paso
      <2>3. Cambia(pcb["rx"], EstadoEn("rx"), EstadoEn("rx")')
        BY <1>3, <1>4, <1>5, <2>1, <2>2, QuedaCambia DEF Clases, Colas
      <2>4. EstadoEn("rx") = "EXEC" /\ EstadoEn("rx")' = "EXIT"
        BY <2>1 DEF EstadoEn, Avisos
      <2>5. QED
        BY <2>1, <2>3, <2>4 DEF Flecha
<1>9. CASE RxExitLista
      <2>1. pc["rx"] = "exitLista"
        BY <1>9 DEF RxExitLista, Paso
      <2>2. pcb["rx"] \in Pid /\ Muda(pcb["rx"], "EXIT")
        BY <1>9, LugaresRx
      <2>3. Cambia(pcb["rx"], EstadoEn("rx"), EstadoEn("EXIT")')
        BY <1>3, <1>4, <1>5, <2>2, MudaCambia DEF Clases, Colas
      <2>4. EstadoEn("rx") = "EXIT" /\ EstadoEn("EXIT")' = "EXIT"
        BY <2>1 DEF EstadoEn, Avisos
      <2>5. QED
        BY <2>2, <2>3, <2>4, CambiaIgual DEF Flecha
<1>10. CASE RxIntReady
      <2>1. pc["rx"] = "intReady"
        BY <1>10 DEF RxIntReady, Agrega, Paso
      <2>2. pcb["rx"] \in Pid /\ Muda(pcb["rx"], "READY")
        BY <1>10, LugaresRx
      <2>3. Cambia(pcb["rx"], EstadoEn("rx"), EstadoEn("READY")')
        BY <1>3, <1>4, <1>5, <2>2, MudaCambia DEF Clases, Colas
      <2>4. EstadoEn("rx") = "EXEC" /\ EstadoEn("READY")' = "READY"
        BY <2>1 DEF EstadoEn, Avisos
      <2>5. QED
        BY <2>2, <2>3, <2>4 DEF Flecha
<1>11. CASE RxInterrupt \/ RxExitProcesador \/ RxExitAvisa
      <2>1. \/ pc["rx"] = "INTERRUPT" /\ pc'["rx"] = "intReady"
            \/ pc["rx"] = "exitProcesador" /\ pc'["rx"] = "exitAvisa"
            \/ pc["rx"] = "exitAvisa" /\ pc'["rx"] = "exitLista"
        BY <1>1, <1>11 DEF RxInterrupt, RxExitProcesador, RxExitAvisa, Despierta, Paso, Hilos
      <2>2. Quedan
        BY <2>1, LugaresRx DEF RxRecibe, RxBlock, RxExitLista, RxIntReady, Agrega, Paso
      <2>3. EstadoEn("rx")' = EstadoEn("rx")
        BY <2>1 DEF EstadoEn, Avisos
      <2>4. QED
        BY <1>3, <2>2, <2>3, QuedanIguales DEF Flecha
<1>12. CASE RxExitMulti \/ RxIntSem \/ RxIntProcesador
      <2>1. pc["rx"] \in {"exitMulti", "intSem", "intProcesador"}
        BY <1>12 DEF RxExitMulti, RxIntSem, RxIntProcesador, Despierta, Paso
      <2>2. Quedan
        <3>1. ~(RxRecibe \/ RxBlock \/ RxExitLista \/ RxIntReady)
          BY <2>1 DEF RxRecibe, RxBlock, RxExitLista, RxIntReady, Agrega, Paso
        <3>2. QED
          BY <3>1, LugaresRx
      <2>3. pcb["rx"] \notin Pid
        BY <1>1, <2>1 DEF TieneProceso, Avisos
      <2>4. QED
        BY <1>3, <1>4, <2>2, <2>3, QuedanIguales DEF Flecha
<1>13. QED
      BY <1>6, <1>7, <1>8, <1>9, <1>10, <1>11, <1>12 DEF recibirMensajeCPU

LEMMA CicloIo ==
    ASSUME EnUnLugar, EnUnLugar', planifBloqueados
    PROVE  Flecha
<1>1. pc \in [Hilos -> PcLp \cup PcCp \cup PcRx \cup PcIo \cup PcCpu]
      BY DEF EnUnLugar, Procesador, Tipos, TypeOK
<1>2. pc'["lp"] = pc["lp"] /\ pc'["rx"] = pc["rx"]
      BY <1>1 DEF planifBloqueados, IoBloqueo, IoCola, IoTermina, IoMira, IoOlvida,
         IoSaca, IoReady, IoAvisa, IoPost, IoSacaSusp, IoSuspReady, IoPostLp,
         Espera, Extrae, Decide, Quita, Agrega, enviarInterruptCPU, Despierta,
         Paso, Hilos
<1>3. \A k : EstadoEn(k)' = EstadoEn(k)
      BY <1>2, PcEstado
<1>4. /\ EstadoEn("COLA_IO") = "BLOCKED" /\ EstadoEn("io") = "BLOCKED"
      /\ EstadoEn("READY") = "READY" /\ EstadoEn("READY_SUSPENDED") = "READY_SUSPENDED"
      BY DEF EstadoEn
<1>5. pcb["io"] \in Pid => En("io", pcb["io"])
      BY DEF En
<1>6. CASE IoCola
      <2>1. Head(cola["COLA_IO"]) \in Pid /\ Muda(Head(cola["COLA_IO"]), "io")
        BY <1>6, LugaresIo
      <2>2. En("COLA_IO", Head(cola["COLA_IO"]))
        BY <1>6, CabezaEsta DEF IoCola, Extrae, Colas
      <2>3. Cambia(Head(cola["COLA_IO"]), "BLOCKED", "BLOCKED")
        BY <1>3, <1>4, <2>1, <2>2, MudaCambia DEF Clases, Colas
      <2>4. QED
        BY <2>1, <2>3, CambiaIgual DEF Flecha
<1>7. CASE IoReady
      <2>1. pcb["io"] \in Pid /\ Muda(pcb["io"], "READY")
        BY <1>7, LugaresIo
      <2>2. Cambia(pcb["io"], "BLOCKED", "READY")
        BY <1>3, <1>4, <1>5, <2>1, MudaCambia DEF Clases, Colas
      <2>3. QED
        BY <2>1, <2>2 DEF Flecha
<1>8. CASE IoSuspReady
      <2>1. pcb["io"] \in Pid /\ Muda(pcb["io"], "READY_SUSPENDED")
        BY <1>8, LugaresIo
      <2>2. Cambia(pcb["io"], "BLOCKED", "READY_SUSPENDED")
        BY <1>3, <1>4, <1>5, <2>1, MudaCambia DEF Clases, Colas
      <2>3. QED
        BY <2>1, <2>2 DEF Flecha
<1>9. CASE IoOlvida
      <2>1. pcb["io"] \in Pid /\ Muda(pcb["io"], "olvido")
        BY <1>9, LugaresIo
      <2>2. Cambia(pcb["io"], "BLOCKED", "BLOCKED")
        BY <1>3, <1>4, <1>5, <2>1, MudaNingunaCambia DEF Clases, Colas
      <2>3. QED
        BY <2>1, <2>2, CambiaIgual DEF Flecha
<1>10. CASE ~(IoCola \/ IoReady \/ IoSuspReady \/ IoOlvida)
      BY <1>3, <1>10, LugaresIo, QuedanIguales DEF Flecha
<1>11. QED
      BY <1>6, <1>7, <1>8, <1>9, <1>10

LEMMA CicloHilo ==
    ASSUME EnUnLugar, EnUnLugar', NEW p \in Pid, NEW n \in 1..MaxIO, hiloSuspendedor(p, n)
    PROVE  Flecha
<1>1. UNCHANGED pc
      BY DEF hiloSuspendedor, HiloExec, HiloProcesador, HiloBlock, HiloCola,
         HiloBloqueo, HiloVence, HiloSaca, HiloAvisa, HiloSusp, HiloMulti, Avanza
<1>2. \A k : EstadoEn(k)' = EstadoEn(k)
      BY <1>1, PcEstado
<1>3. CASE HiloCola(p, n)
      <2>1. En("hilo", p)
        BY <1>3 DEF HiloCola, Avanza, En, PcInicioHilo
      <2>2. EstadoEn("hilo") = "BLOCKED" /\ EstadoEn("COLA_IO") = "BLOCKED"
        BY DEF EstadoEn
      <2>3. Muda(p, "COLA_IO")
        BY <1>3, LugaresHilo
      <2>4. Cambia(p, "BLOCKED", "BLOCKED")
        BY <1>2, <2>1, <2>2, <2>3, MudaCambia DEF Clases, Colas
      <2>5. QED
        BY <2>4, CambiaIgual DEF Flecha
<1>4. CASE ~HiloCola(p, n)
      BY <1>2, <1>4, LugaresHilo, QuedanIguales DEF Flecha
<1>5. QED
      BY <1>3, <1>4

LEMMA CicloCpu ==
    ASSUME EnUnLugar, EnUnLugar', iniciarDispatch
    PROVE  Flecha
<1>1. pc \in [Hilos -> PcLp \cup PcCp \cup PcRx \cup PcIo \cup PcCpu]
      BY DEF EnUnLugar, Procesador, Tipos, TypeOK
<1>2. pc'["lp"] = pc["lp"] /\ pc'["rx"] = pc["rx"]
      BY <1>1 DEF iniciarDispatch, CpuRecibe, CpuIO, CpuExit, CpuInterrupt, CpuDevuelve,
         CpuLimpia, Paso, Hilos
<1>3. \A k : EstadoEn(k)' = EstadoEn(k)
      BY <1>2, PcEstado
<1>4. /\ EstadoEn("dispatch") = "EXEC" /\ EstadoEn("cpu") = "EXEC"
      /\ EstadoEn("respuesta") = "EXEC"
      BY DEF EstadoEn
<1>5. CASE CpuRecibe
      <2>1. Head(dispatch) \in Pid /\ Muda(Head(dispatch), "cpu")
        BY <1>5, LugaresCpu
      <2>2. En("dispatch", Head(dispatch))
        <3>1. dispatch \in Seq(Pid) /\ dispatch # <<>>
          BY <1>5 DEF CpuRecibe, EnUnLugar, Procesador, Tipos, TypeOK
        <3>2. QED
          BY <3>1 DEF En, Indices
      <2>3. Cambia(Head(dispatch), "EXEC", "EXEC")
        BY <1>3, <1>4, <2>1, <2>2, MudaCambia DEF Clases, Colas
      <2>4. QED
        BY <2>1, <2>3, CambiaIgual DEF Flecha
<1>6. CASE CpuIO \/ CpuExit \/ CpuInterrupt
      <2>1. pcb["cpu"] \in Pid /\ Muda(pcb["cpu"], "respuesta")
        BY <1>6, LugaresCpu
      <2>2. En("cpu", pcb["cpu"])
        BY DEF En
      <2>3. Cambia(pcb["cpu"], "EXEC", "EXEC")
        BY <1>3, <1>4, <2>1, <2>2, MudaCambia DEF Clases, Colas
      <2>4. QED
        BY <2>1, <2>3, CambiaIgual DEF Flecha
<1>7. CASE CpuLimpia
      BY <1>3, <1>7, LugaresCpu, QuedanIguales DEF Flecha
<1>8. QED
      BY <1>5, <1>6, <1>7 DEF iniciarDispatch

LEMMA CicloCrear ==
    ASSUME EnUnLugar, EnUnLugar', NEW p \in Pid, CrearNew(p) \/ CrearPost(p)
    PROVE  Flecha
<1>1. UNCHANGED pc
      BY DEF CrearNew, CrearPost
<1>2. \A k : EstadoEn(k)' = EstadoEn(k)
      BY <1>1, PcEstado
<1>3. CASE CrearNew(p)
      <2>1. En("crear", p) /\ Muda(p, "NEW")
        BY <1>3, LugaresCrear DEF CrearNew, En
      <2>2. EstadoEn("crear") = "FUERA" /\ EstadoEn("NEW") = "NEW"
        BY DEF EstadoEn
      <2>3. Cambia(p, "FUERA", "NEW")
        BY <1>2, <2>1, <2>2, MudaCambia DEF Clases, Colas
      <2>4. QED
        BY <2>3 DEF Flecha
<1>4. CASE CrearPost(p)
      BY <1>2, <1>4, LugaresCrear, QuedanIguales DEF Flecha
<1>5. QED
      BY <1>3, <1>4

LEMMA CicloNext == EnUnLugar /\ EnUnLugar' /\ [Next]_vars => Flecha
<1> SUFFICES ASSUME EnUnLugar, EnUnLugar', [Next]_vars
             PROVE  Flecha
    OBVIOUS
<1>1. CASE iniciarInterrupt \/ conexionKernel \/ UNCHANGED vars
      <2>1. UNCHANGED pc
        BY <1>1 DEF iniciarInterrupt, conexionKernel, vars
      <2>2. QED
        BY <1>1, <2>1, PcEstado, LugaresQuieto, QuedanIguales DEF Flecha
<1>2. QED
      BY <1>1, CicloLp, CicloCp, CicloRx, CicloHilo, CicloIo, CicloCpu, CicloCrear DEF Next

-----------------------------------------------------------------------------
(* The theorem.                                                            *)

LEMMA CicloInit == Init => CV!CVInit
<1> SUFFICES ASSUME Init
             PROVE  CV!CVInit
    OBVIOUS
<1>1. \A p \in Pid : EstadoDe(p) = "FUERA"
      <2> SUFFICES ASSUME NEW p \in Pid
                   PROVE  EstadoDe(p) = "FUERA"
        OBVIOUS
      <2>1. EnUnLugar /\ En("crear", p)
        BY EnUnLugarInit DEF Init, En
      <2>2. EstadoDe(p) = EstadoEn("crear")
        BY <2>1, EstadoUnico DEF EstadoPorClase, Clases
      <2>3. QED
        BY <2>2 DEF EstadoEn
<1>2. QED
      BY <1>1 DEF CV!CVInit

LEMMA FlechaEsPaso == Flecha => [CV!CVNext]_[p \in Pid |-> EstadoDe(p)]
<1> SUFFICES ASSUME Flecha
             PROVE  CV!CVNext \/ UNCHANGED [p \in Pid |-> EstadoDe(p)]
    OBVIOUS
<1> DEFINE estado == [p \in Pid |-> EstadoDe(p)]
<1>1. CASE Iguales
      BY <1>1 DEF Iguales
<1>2. ASSUME NEW p \in Pid, NEW x, NEW y, Cambia(p, x, y)
      PROVE  CV!Pasa(p, x, y)
      <2>1. estado[p] = x /\ estado' = [estado EXCEPT ![p] = y]
        BY <1>2 DEF Cambia
      <2>2. QED
        BY <2>1 DEF CV!Pasa
<1>3. ASSUME NEW p \in Pid, Cambia(p, "READY", "EXEC"), \A q \in Pid : EstadoDe(q) # "EXEC"
      PROVE  CV!Despachar(p)
      BY <1>2, <1>3 DEF CV!Despachar
<1>4. QED
      BY <1>1, <1>2, <1>3
      DEF Flecha, CV!CVNext, CV!Llegar, CV!Admitir, CV!Desalojar, CV!Bloquear,
          CV!Terminar, CV!FinIO, CV!FinIOSuspendido, CV!Reanudar

\* The four threads of the Kernel, the threads of the I/Os, the CPU and the
\* sockets between them implement the seven-state diagram: no process ever
\* skips an arrow, and a process enters EXEC only when no other is there.
THEOREM ElKernelImplementaElCiclo == Spec => ImplementaCicloVida
<1>1. EnUnLugar /\ EnUnLugar' /\ [Next]_vars => [CV!CVNext]_[p \in Pid |-> EstadoDe(p)]
      BY CicloNext, FlechaEsPaso
<1>2. QED
      BY <1>1, CicloInit, SiempreEnUnLugar, PTL DEF Spec, ImplementaCicloVida, CV!CVSpec

-----------------------------------------------------------------------------
(* What the memory is told about a process that left.                      *)

\* recibirMensajeCPU told the memory that p exits.
Despedido(p) == Esta("EXIT", p) \/ (pcb["rx"] = p /\ pc["rx"] = "exitLista")

Llega(m, p) == m.tipo = "PASAR_A_READY" /\ m.pid = p
Sale(m, p) == m.tipo # "PASAR_A_READY" /\ m.pid = p

\* The memory ends without p when it has served what is in the socket.
Libera(p) ==
    /\ p \in residente => \E j \in DOMAIN memoria : Sale(memoria[j], p)
    /\ \A i \in DOMAIN memoria : Llega(memoria[i], p) =>
            \E j \in DOMAIN memoria : j > i /\ Sale(memoria[j], p)

Despide == \A p \in Pid : Despedido(p) => Libera(p)

EnDespedida == EnUnLugar /\ Despide

LEMMA LiberaAgrega ==
    ASSUME Tipos, NEW t \in Pedidos, NEW p \in Pid, Pedir(t, p), UNCHANGED residente,
           NEW q \in Pid, \/ Libera(q) /\ (q # p \/ t # "PASAR_A_READY")
                          \/ q = p /\ t # "PASAR_A_READY"
    PROVE  Libera(q)'
<1> DEFINE m == [tipo |-> t, pid |-> p]
           n == Len(memoria) + 1
<1>1. /\ DOMAIN memoria' = DOMAIN memoria \cup {n} /\ n \notin DOMAIN memoria
      /\ n \in Nat /\ memoria'[n] = m /\ DOMAIN memoria \subseteq Nat
      /\ \A i \in DOMAIN memoria : memoria'[i] = memoria[i] /\ i < n
      <2>1. /\ memoria \in Seq([tipo : Pedidos, pid : Pid])
            /\ m \in [tipo : Pedidos, pid : Pid] /\ memoria' = Append(memoria, m)
        BY DEF Tipos, TypeOK, Pedir
      <2>2. DOMAIN memoria = 1..Len(memoria) /\ Len(memoria) \in Nat
        BY <2>1
      <2>3. DOMAIN memoria' = 1..n /\ \A i \in 1..n : memoria'[i] = IF i = n THEN m ELSE memoria[i]
        BY <2>1, <2>2
      <2>4. QED
        BY <2>2, <2>3
<1>2. m.tipo = t /\ m.pid = p
      OBVIOUS
<1>3. CASE q = p /\ t # "PASAR_A_READY"
      <2>1. n \in DOMAIN memoria' /\ Sale(memoria'[n], q) /\ ~Llega(memoria'[n], q)
        BY <1>1, <1>2, <1>3 DEF Sale, Llega
      <2>2. \A i \in DOMAIN memoria' : Llega(memoria'[i], q) => n > i
        BY <1>1, <2>1
      <2>3. QED
        BY <2>1, <2>2 DEF Libera
<1>4. CASE Libera(q) /\ (q # p \/ t # "PASAR_A_READY")
      <2>1. ~Llega(memoria'[n], q)
        BY <1>1, <1>2, <1>4 DEF Llega
      <2>2. \A j \in DOMAIN memoria : j \in DOMAIN memoria' /\ memoria'[j] = memoria[j]
        BY <1>1
      <2>3. q \in residente' => \E j \in DOMAIN memoria' : Sale(memoria'[j], q)
        BY <1>4, <2>2 DEF Libera
      <2>4. ASSUME NEW i \in DOMAIN memoria', Llega(memoria'[i], q)
            PROVE  \E j \in DOMAIN memoria' : j > i /\ Sale(memoria'[j], q)
        <3>1. i \in DOMAIN memoria /\ Llega(memoria[i], q)
          BY <1>1, <2>1, <2>4
        <3>2. PICK j \in DOMAIN memoria : j > i /\ Sale(memoria[j], q)
          BY <1>4, <3>1 DEF Libera
        <3>3. QED
          BY <2>2, <3>2
      <2>5. QED
        BY <2>3, <2>4 DEF Libera
<1>5. QED
      BY <1>3, <1>4

LEMMA LiberaAtiende ==
    ASSUME Tipos, conexionKernel, NEW q \in Pid, Libera(q)
    PROVE  Libera(q)'
<1>1. /\ memoria \in Seq([tipo : Pedidos, pid : Pid]) /\ memoria # <<>>
      /\ memoria' = Tail(memoria)
      BY DEF conexionKernel, Tipos, TypeOK
<1>2. /\ 1 \in DOMAIN memoria /\ Head(memoria) = memoria[1]
      /\ \A i \in DOMAIN memoria' : i \in Nat /\ i + 1 \in DOMAIN memoria
                                    /\ memoria'[i] = memoria[i + 1]
      /\ \A j \in DOMAIN memoria : j \in Nat /\ j >= 1
                    /\ (j > 1 => j - 1 \in DOMAIN memoria' /\ memoria'[j - 1] = memoria[j])
      BY <1>1
<1>3. residente' = IF memoria[1].tipo = "PASAR_A_READY"
                   THEN residente \cup {memoria[1].pid} ELSE residente \ {memoria[1].pid}
      BY <1>2 DEF conexionKernel
<1>4. ASSUME NEW j \in DOMAIN memoria, j > 1, Sale(memoria[j], q)
      PROVE  \E i \in DOMAIN memoria' : i = j - 1 /\ Sale(memoria'[i], q)
      BY <1>2, <1>4
<1>5. ASSUME NEW i \in DOMAIN memoria', Llega(memoria'[i], q)
      PROVE  \E j \in DOMAIN memoria' : j > i /\ Sale(memoria'[j], q)
      <2>1. i + 1 \in DOMAIN memoria /\ Llega(memoria[i + 1], q) /\ i \in Nat
        BY <1>2, <1>5
      <2>2. PICK j \in DOMAIN memoria : j > i + 1 /\ Sale(memoria[j], q)
        BY <2>1 DEF Libera
      <2>3. j \in Nat /\ j - 1 > i /\ j > 1 /\ j - 1 \in DOMAIN memoria'
            /\ memoria'[j - 1] = memoria[j]
        BY <1>2, <2>1, <2>2
      <2>4. QED
        BY <2>2, <2>3
<1>6. ASSUME q \in residente'
      PROVE  \E j \in DOMAIN memoria' : Sale(memoria'[j], q)
      <2>1. CASE Llega(memoria[1], q)
        <3>1. PICK j \in DOMAIN memoria : j > 1 /\ Sale(memoria[j], q)
          BY <1>2, <2>1 DEF Libera
        <3>2. QED
          BY <1>4, <3>1
      <2>2. CASE ~Llega(memoria[1], q)
        <3>1. q \in residente /\ ~Sale(memoria[1], q)
          BY <1>3, <1>6, <2>2 DEF Llega, Sale
        <3>2. PICK j \in DOMAIN memoria : Sale(memoria[j], q)
          BY <3>1 DEF Libera
        <3>3. j > 1
          BY <1>2, <3>1, <3>2
        <3>4. QED
          BY <1>4, <3>2, <3>3
      <2>3. QED
        BY <2>1, <2>2
<1>7. QED
      BY <1>5, <1>6 DEF Libera

\* Steps that say nothing to the memory.
LEMMA DespideQueda ==
    ASSUME EnDespedida, UNCHANGED <<memoria, residente>>,
           \A p \in Pid : Despedido(p)' => Despedido(p)
    PROVE  Despide'
BY DEF EnDespedida, Despide, Libera

LEMMA DespideNext == EnDespedida /\ EnUnLugar' /\ [Next]_vars => Despide'
<1> SUFFICES ASSUME EnDespedida, EnUnLugar', [Next]_vars
             PROVE  Despide'
    OBVIOUS
<1>1. /\ Tipos /\ pc \in [Hilos -> PcLp \cup PcCp \cup PcRx \cup PcIo \cup PcCpu]
      /\ pcb \in [Hilos -> Pid \cup {Nadie}] /\ lista \in [Listas -> [Pid -> Nat]]
      BY DEF EnDespedida, EnUnLugar, Procesador, Tipos, TypeOK
<1>2. ASSUME pc'["rx"] = pc["rx"], pcb'["rx"] = pcb["rx"], lista'["EXIT"] = lista["EXIT"]
      PROVE  \A p \in Pid : Despedido(p)' => Despedido(p)
      BY <1>2 DEF Despedido, Esta
<1>3. CASE planifLargoPlazo
      <2>1. /\ pc'["rx"] = pc["rx"] /\ pcb'["rx"] = pcb["rx"] /\ UNCHANGED <<lista, residente>>
        BY <1>1, <1>3 DEF planifLargoPlazo, LpPlanif, LpMulti, LpElige, LpSacaNew, LpSacaSusp,
           LpSaca, LpRespNew, LpRespSusp, LpRespuesta, LpMide, LpReady, LpReadyAvisa,
           LpAvisa, LpPost, Espera, Decide, Agrega, enviarInterruptCPU, Despierta, Paso,
           Toma, afuera, Hilos
      <2>2. \A p \in Pid : Despedido(p)' => Despedido(p)
        BY <1>2, <2>1
      <2>3. ASSUME NEW p \in Pid, Pedir("PASAR_A_READY", p), Muda(p, "lp")
            PROVE  Despide'
        <3>1. ~Despedido(p)'
          <4>1. En("lp", p)'
            BY <2>3 DEF Muda, Clases
          <4>2. ~En("EXIT", p)' /\ ~En("rx", p)'
            BY <2>3, <4>1 DEF EnUnLugar, UnaClase, Clases
          <4>3. QED
            BY <4>2 DEF Despedido, En, Colas
        <3>2. ASSUME NEW q \in Pid, Despedido(q)'
              PROVE  Libera(q)'
          <4>1. Libera(q) /\ q # p
            BY <2>2, <3>1, <3>2 DEF EnDespedida, Despide
          <4>2. QED
            BY <1>1, <2>1, <2>3, <4>1, LiberaAgrega DEF Pedidos
        <3>3. QED
          BY <3>2 DEF Despide
      <2>4. CASE LpSacaNew
        <3>1. PICK p \in Pid : p = Head(cola["NEW"]) /\ Muda(p, "lp")
          BY <1>3, <2>4, LugaresLp DEF EnDespedida
        <3>2. QED
          BY <2>3, <2>4, <3>1 DEF LpSacaNew, LpSaca
      <2>5. CASE LpSacaSusp
        <3>1. PICK p \in Pid : p = Head(cola["READY_SUSPENDED"]) /\ Muda(p, "lp")
          BY <1>3, <2>5, LugaresLp DEF EnDespedida
        <3>2. QED
          BY <2>3, <2>5, <3>1 DEF LpSacaSusp, LpSaca
      <2>6. CASE ~(LpSacaNew \/ LpSacaSusp)
        <3>1. UNCHANGED memoria
          BY <1>3, <2>6 DEF planifLargoPlazo, LpPlanif, LpMulti, LpElige, LpRespNew,
             LpRespSusp, LpRespuesta, LpMide, LpReady, LpReadyAvisa, LpAvisa, LpPost,
             Espera, Decide, Agrega, enviarInterruptCPU, Despierta, redMem
        <3>2. QED
          BY <2>1, <2>2, <3>1, DespideQueda
      <2>7. QED
        BY <2>4, <2>5, <2>6
<1>4. CASE planifCortoPlazo
      <2>1. /\ pc'["rx"] = pc["rx"] /\ pcb'["rx"] = pcb["rx"] /\ lista'["EXIT"] = lista["EXIT"]
            /\ UNCHANGED <<memoria, residente>>
        BY <1>1, <1>4 DEF planifCortoPlazo, CpReady, CpProcesador, algoritmo_FIFO,
           algoritmo_SRT, CpQuita, CpExec, CpDespacha, Espera, Extrae, Anotar, Paso, Toma,
           redMem, afuera, Hilos, Listas
      <2>2. QED
        BY <1>2, <2>1, DespideQueda
<1>5. CASE recibirMensajeCPU
      <2>1. UNCHANGED residente
        BY <1>5 DEF recibirMensajeCPU, RxRecibe, RxBlock, RxExit, RxExitProcesador,
           RxExitAvisa, RxExitLista, RxExitMulti, RxInterrupt, RxIntReady, RxIntSem,
           RxIntProcesador, Quita, Despierta, Agrega, afuera
      <2>2. CASE RxExitAvisa
        <3>1. /\ Pedir("PASAR_A_EXIT", pcb["rx"]) /\ pcb["rx"] \in Pid
              /\ UNCHANGED <<lista, pcb>>
          BY <1>1, <2>2 DEF RxExitAvisa, Paso, Tipos, TieneProceso
        <3>2. ASSUME NEW q \in Pid, Despedido(q)'
              PROVE  Libera(q)'
          <4>1. Despedido(q) \/ q = pcb["rx"]
            BY <3>1, <3>2 DEF Despedido, Esta
          <4>2. Libera(q) \/ q = pcb["rx"]
            BY <4>1 DEF EnDespedida, Despide
          <4>3. QED
            BY <1>1, <2>1, <3>1, <4>2, LiberaAgrega DEF Pedidos
        <3>3. QED
          BY <3>2 DEF Despide
      <2>3. CASE RxExitLista
        <3>1. /\ UNCHANGED memoria /\ Anotar("EXIT", pcb["rx"]) /\ pc["rx"] = "exitLista"
              /\ pc'["rx"] = "exitMulti" /\ pcb["rx"] \in Pid
          BY <1>1, <2>3 DEF RxExitLista, Paso, redMem, Tipos, TieneProceso, Hilos
        <3>2. \A p \in Pid : lista'["EXIT"][p] = IF p = pcb["rx"] THEN lista["EXIT"][p] + 1
                                                ELSE lista["EXIT"][p]
          BY <1>1, <3>1 DEF Anotar, Listas
        <3>3. \A p \in Pid : Despedido(p)' => Despedido(p)
          BY <3>1, <3>2 DEF Despedido, Esta
        <3>4. QED
          BY <2>1, <3>1, <3>3, DespideQueda
      <2>4. CASE RxRecibe
        <3>1. /\ respuesta \in Seq([op : Avisos, pcb : Pid]) /\ respuesta # <<>>
              /\ 1 \in DOMAIN respuesta /\ Head(respuesta) = respuesta[1]
          BY <1>1, <2>4 DEF RxRecibe, Tipos, TypeOK
        <3>2. Head(respuesta).op \in Avisos
          <4>1. respuesta[1] \in [op : Avisos, pcb : Pid]
            BY <3>1, Elemento
          <4>2. QED
            BY <3>1, <4>1
        <3>3. UNCHANGED <<memoria, lista>> /\ pc'["rx"] # "exitLista"
          BY <1>1, <2>4, <3>2 DEF RxRecibe, Paso, redMem, Hilos, Avisos
        <3>4. \A p \in Pid : Despedido(p)' => Despedido(p)
          BY <3>3 DEF Despedido, Esta
        <3>5. QED
          BY <2>1, <3>3, <3>4, DespideQueda
      <2>5. CASE ~(RxExitAvisa \/ RxExitLista \/ RxRecibe)
        <3>1. UNCHANGED memoria /\ lista'["EXIT"] = lista["EXIT"] /\ pc'["rx"] # "exitLista"
          BY <1>1, <1>5, <2>5 DEF recibirMensajeCPU, RxBlock, RxExit,
             RxExitProcesador, RxExitMulti, RxInterrupt, RxIntReady, RxIntSem,
             RxIntProcesador, Quita, Borrar, Despierta, Agrega, Paso, redMem, Hilos, Listas
        <3>2. \A p \in Pid : Despedido(p)' => Despedido(p)
          BY <3>1 DEF Despedido, Esta
        <3>3. QED
          BY <2>1, <3>1, <3>2, DespideQueda
      <2>6. QED
        BY <2>2, <2>3, <2>4, <2>5
<1>6. ASSUME NEW p \in Pid, NEW n \in 1..MaxIO, hiloSuspendedor(p, n)
      PROVE  Despide'
      <2>1. /\ UNCHANGED <<pc, pcb, residente>> /\ lista'["EXIT"] = lista["EXIT"]
            /\ UNCHANGED memoria \/ Pedir("SUSPENDER", p)
        BY <1>1, <1>6 DEF hiloSuspendedor, HiloExec, HiloProcesador, HiloBlock, HiloCola,
           HiloBloqueo, HiloVence, HiloSaca, HiloAvisa, HiloSusp, HiloMulti, Avanza,
           Borrar, Anotar, afuera, Listas
      <2>2. \A q \in Pid : Despedido(q)' => Despedido(q)
        BY <1>2, <2>1
      <2>3. CASE UNCHANGED memoria
        BY <2>1, <2>2, <2>3, DespideQueda
      <2>4. CASE Pedir("SUSPENDER", p)
        <3>1. ASSUME NEW q \in Pid, Despedido(q)'
              PROVE  Libera(q)'
          <4>1. Libera(q)
            BY <2>2, <3>1 DEF EnDespedida, Despide
          <4>2. QED
            BY <1>1, <2>1, <2>4, <4>1, LiberaAgrega DEF Pedidos
        <3>2. QED
          BY <3>1 DEF Despide
      <2>5. QED
        BY <2>1, <2>3, <2>4
<1>7. CASE planifBloqueados
      <2>1. /\ pc'["rx"] = pc["rx"] /\ pcb'["rx"] = pcb["rx"] /\ lista'["EXIT"] = lista["EXIT"]
            /\ UNCHANGED <<memoria, residente>>
        BY <1>1, <1>7 DEF planifBloqueados, IoBloqueo, IoCola, IoTermina, IoMira, IoOlvida,
           IoSaca, IoReady, IoAvisa, IoPost, IoSacaSusp, IoSuspReady, IoPostLp,
           Espera, Extrae, Decide, Quita, Borrar, Agrega, enviarInterruptCPU, Despierta,
           Paso, Toma, redMem, afuera, Hilos, Listas
      <2>2. QED
        BY <1>2, <2>1, DespideQueda
<1>8. CASE iniciarDispatch \/ iniciarInterrupt
      <2>1. /\ pc'["rx"] = pc["rx"] /\ pcb'["rx"] = pcb["rx"]
            /\ UNCHANGED <<lista, memoria, residente>>
        BY <1>1, <1>8 DEF iniciarDispatch, CpuRecibe, CpuIO, CpuExit, CpuInterrupt,
           CpuDevuelve, CpuLimpia, iniciarInterrupt, Paso, Toma, redMem, afuera, Hilos
      <2>2. QED
        BY <1>2, <2>1, DespideQueda
<1>9. CASE conexionKernel
      <2>1. UNCHANGED <<pc, pcb, lista>>
        BY <1>9 DEF conexionKernel
      <2>2. \A p \in Pid : Despedido(p)' => Despedido(p)
        BY <1>2, <2>1
      <2>3. ASSUME NEW q \in Pid, Despedido(q)'
            PROVE  Libera(q)'
        BY <1>1, <1>9, <2>2, <2>3, LiberaAtiende DEF EnDespedida, Despide
      <2>4. QED
        BY <2>3 DEF Despide
<1>10. CASE (\E p \in Pid : CrearNew(p) \/ CrearPost(p)) \/ UNCHANGED vars
      <2>1. UNCHANGED <<pc, pcb, lista, memoria, residente>>
        BY <1>10 DEF CrearNew, CrearPost, redMem, afuera, vars
      <2>2. QED
        BY <1>2, <2>1, DespideQueda
<1>11. QED
      BY <1>3, <1>4, <1>5, <1>6, <1>7, <1>8, <1>9, <1>10 DEF Next

\* A process that exited does not stay loaded, however the messages of the
\* long-term scheduler, of recibirMensajeCPU and of a late hiloSuspendedor
\* interleave in the socket: no request to load it can follow its exit.
THEOREM ElQueSaleSeLibera == Spec => []ExitLibera
<1>1. Init => EnDespedida
      BY EnUnLugarInit DEF Init, EnDespedida, Despide, Despedido, Libera, Esta, Listas
<1>2. EnDespedida /\ [Next]_vars => EnDespedida'
      BY EnUnLugarNext, DespideNext DEF EnDespedida
<1>3. EnDespedida => ExitLibera
      BY DEF EnDespedida, Despide, Despedido, Libera, Sale, ExitLibera
<1>4. QED
      BY <1>1, <1>2, <1>3, PTL DEF Spec

-----------------------------------------------------------------------------
(* What the memory is asked about the process that the CPU has.            *)

Carga(i) == memoria[i].tipo = "PASAR_A_READY"

\* planifLargoPlazo sends one request and waits for its answer, with the
\* process in its variable.
Aguarda == pc["lp"] \in {"respNew", "respSusp"}
UnaCarga ==
    /\ respMem <= 1 /\ (respMem = 1 => Aguarda)
    /\ \A i \in DOMAIN memoria : Carga(i) =>
        /\ Aguarda /\ respMem = 0 /\ memoria[i].pid = pcb["lp"]
        /\ \A j \in DOMAIN memoria : Carga(j) => j = i

SalidosDespedidos ==
    \A i \in DOMAIN memoria :
        memoria[i].tipo = "PASAR_A_EXIT" => Despedido(memoria[i].pid)

EnPedidos == EnUnLugar /\ UnaCarga /\ SalidosDespedidos

LEMMA AjenoALp ==
    ASSUME Tipos, [Next]_vars, ~planifLargoPlazo
    PROVE  /\ pc'["lp"] = pc["lp"] /\ pcb'["lp"] = pcb["lp"]
           /\ respMem' = respMem \/ conexionKernel
<1> /\ pc \in [Hilos -> PcLp \cup PcCp \cup PcRx \cup PcIo \cup PcCpu]
    /\ pcb \in [Hilos -> Pid \cup {Nadie}]
    BY DEF Tipos, TypeOK
<1>1. CASE planifCortoPlazo
      BY <1>1 DEF planifCortoPlazo, CpReady, CpProcesador, algoritmo_FIFO, algoritmo_SRT,
         CpQuita, CpExec, CpDespacha, Espera, Extrae, Paso, Toma, redMem, Hilos
<1>2. CASE recibirMensajeCPU
      BY <1>2 DEF recibirMensajeCPU, RxRecibe, RxBlock, RxExit, RxExitProcesador,
         RxExitAvisa, RxExitLista, RxExitMulti, RxInterrupt, RxIntReady, RxIntSem,
         RxIntProcesador, Quita, Despierta, Agrega, Paso, Toma, redMem, Hilos
<1>3. ASSUME NEW p \in Pid, NEW n \in 1..MaxIO, hiloSuspendedor(p, n)
      PROVE  UNCHANGED <<pc, pcb, respMem>>
      BY <1>3 DEF hiloSuspendedor, HiloExec, HiloProcesador, HiloBlock, HiloCola,
         HiloBloqueo, HiloVence, HiloSaca, HiloAvisa, HiloSusp, HiloMulti, Avanza
<1>4. CASE planifBloqueados
      BY <1>4 DEF planifBloqueados, IoBloqueo, IoCola, IoTermina, IoMira, IoOlvida,
         IoSaca, IoReady, IoAvisa, IoPost, IoSacaSusp, IoSuspReady, IoPostLp, Espera,
         Extrae, Decide, Quita, Agrega, enviarInterruptCPU, Despierta, Paso, Toma,
         redMem, Hilos
<1>5. CASE iniciarDispatch \/ iniciarInterrupt
      BY <1>5 DEF iniciarDispatch, CpuRecibe, CpuIO, CpuExit, CpuInterrupt,
         CpuDevuelve, CpuLimpia, iniciarInterrupt, Paso, Toma, redMem, Hilos
<1>6. CASE conexionKernel
      BY <1>6 DEF conexionKernel
<1>7. CASE (\E p \in Pid : CrearNew(p) \/ CrearPost(p)) \/ UNCHANGED vars
      BY <1>7 DEF CrearNew, CrearPost, redMem, vars
<1>8. QED
      BY <1>1, <1>2, <1>3, <1>4, <1>5, <1>6, <1>7 DEF Next

LEMMA AjenoARx ==
    ASSUME Tipos, [Next]_vars, ~recibirMensajeCPU
    PROVE  pc'["rx"] = pc["rx"] /\ pcb'["rx"] = pcb["rx"] /\ lista'["EXIT"] = lista["EXIT"]
<1> /\ pc \in [Hilos -> PcLp \cup PcCp \cup PcRx \cup PcIo \cup PcCpu]
    /\ pcb \in [Hilos -> Pid \cup {Nadie}] /\ lista \in [Listas -> [Pid -> Nat]]
    BY DEF Tipos, TypeOK
<1>1. CASE planifLargoPlazo
      BY <1>1 DEF planifLargoPlazo, LpPlanif, LpMulti, LpElige, LpSacaNew, LpSacaSusp,
         LpSaca, LpRespNew, LpRespSusp, LpRespuesta, LpMide, LpReady, LpReadyAvisa,
         LpAvisa, LpPost, Espera, Decide, Agrega, enviarInterruptCPU, Despierta, Paso,
         Toma, Hilos
<1>2. CASE planifCortoPlazo
      BY <1>2 DEF planifCortoPlazo, CpReady, CpProcesador, algoritmo_FIFO, algoritmo_SRT,
         CpQuita, CpExec, CpDespacha, Espera, Extrae, Anotar, Paso, Toma, Hilos, Listas
<1>3. ASSUME NEW p \in Pid, NEW n \in 1..MaxIO, hiloSuspendedor(p, n)
      PROVE  UNCHANGED <<pc, pcb>> /\ lista'["EXIT"] = lista["EXIT"]
      BY <1>3 DEF hiloSuspendedor, HiloExec, HiloProcesador, HiloBlock, HiloCola,
         HiloBloqueo, HiloVence, HiloSaca, HiloAvisa, HiloSusp, HiloMulti, Avanza,
         Borrar, Anotar, Listas
<1>4. CASE planifBloqueados
      BY <1>4 DEF planifBloqueados, IoBloqueo, IoCola, IoTermina, IoMira, IoOlvida,
         IoSaca, IoReady, IoAvisa, IoPost, IoSacaSusp, IoSuspReady, IoPostLp, Espera,
         Extrae, Decide, Quita, Borrar, Agrega, enviarInterruptCPU, Despierta, Paso,
         Toma, Hilos, Listas
<1>5. CASE iniciarDispatch \/ iniciarInterrupt
      BY <1>5 DEF iniciarDispatch, CpuRecibe, CpuIO, CpuExit, CpuInterrupt,
         CpuDevuelve, CpuLimpia, iniciarInterrupt, Paso, Toma, Hilos
<1>6. CASE conexionKernel
      BY <1>6 DEF conexionKernel
<1>7. CASE (\E p \in Pid : CrearNew(p) \/ CrearPost(p)) \/ UNCHANGED vars
      BY <1>7 DEF CrearNew, CrearPost, vars
<1>8. QED
      BY <1>1, <1>2, <1>3, <1>4, <1>5, <1>6, <1>7 DEF Next

LEMMA QuienPide ==
    ASSUME Tipos, [Next]_vars
    PROVE  \/ UNCHANGED memoria \/ conexionKernel
           \/ LpSacaNew \/ LpSacaSusp \/ RxExitAvisa
           \/ ~planifLargoPlazo /\ \E p \in Pid : Pedir("SUSPENDER", p)
<1>1. CASE planifLargoPlazo
      BY <1>1 DEF planifLargoPlazo, LpPlanif, LpMulti, LpElige, LpRespNew, LpRespSusp,
         LpRespuesta, LpMide, LpReady, LpReadyAvisa, LpAvisa, LpPost, Espera, Decide,
         Agrega, enviarInterruptCPU, Despierta, redMem
<1>2. CASE planifCortoPlazo
      BY <1>2 DEF planifCortoPlazo, CpReady, CpProcesador, algoritmo_FIFO, algoritmo_SRT,
         CpQuita, CpExec, CpDespacha, Espera, Extrae, redMem
<1>3. CASE recibirMensajeCPU
      BY <1>3 DEF recibirMensajeCPU, RxRecibe, RxBlock, RxExit, RxExitProcesador,
         RxExitLista, RxExitMulti, RxInterrupt, RxIntReady, RxIntSem, RxIntProcesador,
         Quita, Despierta, Agrega, redMem
<1>4. ASSUME NEW p \in Pid, NEW n \in 1..MaxIO, hiloSuspendedor(p, n)
      PROVE  UNCHANGED memoria \/ (UNCHANGED pc /\ Pedir("SUSPENDER", p))
      BY <1>4 DEF hiloSuspendedor, HiloExec, HiloProcesador, HiloBlock, HiloCola,
         HiloBloqueo, HiloVence, HiloSaca, HiloAvisa, HiloSusp, HiloMulti, Avanza
<1>5. CASE planifBloqueados
      BY <1>5 DEF planifBloqueados, IoBloqueo, IoCola, IoTermina, IoMira, IoOlvida,
         IoSaca, IoReady, IoAvisa, IoPost, IoSacaSusp, IoSuspReady, IoPostLp, Espera,
         Extrae, Decide, Quita, Agrega, enviarInterruptCPU, Despierta, redMem
<1>6. CASE iniciarDispatch \/ iniciarInterrupt
      BY <1>6 DEF iniciarDispatch, CpuRecibe, CpuIO, CpuExit, CpuInterrupt,
         CpuDevuelve, CpuLimpia, iniciarInterrupt, redMem
<1>7. CASE (\E p \in Pid : CrearNew(p) \/ CrearPost(p)) \/ UNCHANGED vars
      BY <1>7 DEF CrearNew, CrearPost, redMem, vars
<1>8. QED
      BY <1>1, <1>2, <1>3, <1>4, <1>5, <1>6, <1>7 DEF Next

LEMMA DespedidoSigue ==
    ASSUME Tipos, [Next]_vars, NEW p \in Pid, Despedido(p)
    PROVE  Despedido(p)'
<1>1. /\ pc \in [Hilos -> PcLp \cup PcCp \cup PcRx \cup PcIo \cup PcCpu]
      /\ pcb \in [Hilos -> Pid \cup {Nadie}] /\ lista \in [Listas -> [Pid -> Nat]]
      BY DEF Tipos, TypeOK
<1>2. CASE ~recibirMensajeCPU
      BY <1>2, AjenoARx DEF Despedido, Esta
<1>3. CASE RxExitLista
      <2>1. Anotar("EXIT", pcb["rx"]) /\ pcb["rx"] \in Pid /\ pc["rx"] = "exitLista"
        BY <1>3 DEF RxExitLista, Paso, Tipos, TieneProceso
      <2>2. lista'["EXIT"][p] = IF p = pcb["rx"] THEN lista["EXIT"][p] + 1 ELSE lista["EXIT"][p]
        BY <1>1, <2>1 DEF Anotar, Listas
      <2>3. lista["EXIT"][p] \in Nat
        BY <1>1 DEF Listas
      <2>4. QED
        BY <2>1, <2>2, <2>3 DEF Despedido, Esta
<1>4. CASE recibirMensajeCPU /\ ~RxExitLista
      <2>1. lista'["EXIT"] = lista["EXIT"] /\ pc["rx"] # "exitLista"
        <3>1. CASE RxRecibe
          BY <3>1 DEF RxRecibe, Paso
        <3>2. CASE recibirMensajeCPU /\ ~RxRecibe
          BY <1>1, <1>4, <3>2 DEF recibirMensajeCPU, RxBlock, RxExit, RxExitProcesador,
             RxExitAvisa, RxExitMulti, RxInterrupt, RxIntReady, RxIntSem, RxIntProcesador,
             Quita, Borrar, Despierta, Agrega, Paso, Listas
        <3>3. QED
          BY <1>4, <3>1, <3>2
      <2>2. QED
        BY <2>1 DEF Despedido, Esta
<1>5. QED
      BY <1>2, <1>3, <1>4

\* The socket after a request, and after one is served.
LEMMA Pedido ==
    ASSUME Tipos, NEW t \in Pedidos, NEW p \in Pid, Pedir(t, p)
    PROVE  \A i \in DOMAIN memoria' :
              \/ i \in DOMAIN memoria /\ memoria'[i] = memoria[i]
              \/ i = Len(memoria) + 1 /\ memoria'[i].tipo = t /\ memoria'[i].pid = p
<1>1. /\ memoria \in Seq([tipo : Pedidos, pid : Pid])
      /\ memoria' = Append(memoria, [tipo |-> t, pid |-> p])
      BY DEF Tipos, TypeOK, Pedir
<1>2. QED
      BY <1>1

LEMMA Servido ==
    ASSUME Tipos, conexionKernel
    PROVE  /\ \A i \in DOMAIN memoria' : i \in Nat /\ i > 0 /\ i + 1 \in DOMAIN memoria
                                         /\ memoria'[i] = memoria[i + 1]
           /\ 1 \in DOMAIN memoria /\ UNCHANGED <<pc, pcb, lista>>
           /\ respMem' = IF Carga(1) THEN respMem + 1 ELSE respMem
<1>1. /\ memoria \in Seq([tipo : Pedidos, pid : Pid]) /\ memoria # <<>>
      /\ memoria' = Tail(memoria)
      BY DEF conexionKernel, Tipos, TypeOK
<1>2. 1 \in DOMAIN memoria /\ Head(memoria) = memoria[1]
      BY <1>1
<1>3. \A i \in DOMAIN memoria' : i \in Nat /\ i > 0 /\ i + 1 \in DOMAIN memoria
                                 /\ memoria'[i] = memoria[i + 1]
      BY <1>1
<1>4. QED
      BY <1>2, <1>3 DEF conexionKernel, Carga

LEMMA UnaCargaNext == Tipos /\ UnaCarga /\ [Next]_vars => UnaCarga'
<1> SUFFICES ASSUME Tipos, UnaCarga, [Next]_vars
             PROVE  UnaCarga'
    OBVIOUS
<1>1. /\ pc \in [Hilos -> PcLp \cup PcCp \cup PcRx \cup PcIo \cup PcCpu]
      /\ pcb \in [Hilos -> Pid \cup {Nadie}] /\ respMem \in Nat
      BY DEF Tipos, TypeOK
<1>2. CASE LpSacaNew \/ LpSacaSusp
      <2>1. PICK p \in Pid : Pedir("PASAR_A_READY", p) /\ pcb'["lp"] = p
        <3>1. PICK c \in {"NEW", "READY_SUSPENDED"} :
                /\ cola[c] # <<>> /\ Pedir("PASAR_A_READY", Head(cola[c]))
                /\ Toma("lp", Head(cola[c]))
          BY <1>2 DEF LpSacaNew, LpSacaSusp, LpSaca
        <3>2. cola[c] \in Seq(Pid)
          BY DEF Tipos, TypeOK, Colas
        <3>3. Head(cola[c]) \in Pid
          BY <3>1, <3>2
        <3>4. QED
          BY <1>1, <3>1, <3>3 DEF Toma, Hilos
      <2>2. ~Aguarda /\ Aguarda' /\ UNCHANGED respMem
        BY <1>1, <1>2 DEF LpSacaNew, LpSacaSusp, LpSaca, Paso, Aguarda, Hilos
      <2>3. respMem = 0 /\ \A i \in DOMAIN memoria : ~Carga(i)
        BY <1>1, <2>2 DEF UnaCarga
      <2>4. \A i \in DOMAIN memoria' :
                Carga(i)' => i = Len(memoria) + 1 /\ memoria'[i].pid = p
        BY <2>1, <2>3, Pedido DEF Carga, Pedidos
      <2>5. QED
        BY <2>1, <2>2, <2>3, <2>4 DEF UnaCarga
<1>3. CASE LpRespNew \/ LpRespSusp
      <2>1. respMem > 0 /\ respMem' = respMem - 1 /\ UNCHANGED memoria
        BY <1>3 DEF LpRespNew, LpRespSusp, LpRespuesta
      <2>2. respMem = 1 /\ \A i \in DOMAIN memoria : ~Carga(i)
        BY <1>1, <2>1 DEF UnaCarga
      <2>3. respMem' = 0 /\ \A i \in DOMAIN memoria' : ~Carga(i)'
        BY <2>1, <2>2 DEF Carga
      <2>4. QED
        BY <2>3 DEF UnaCarga
<1>4. CASE conexionKernel
      <2>1. Aguarda' = Aguarda /\ UNCHANGED pcb
        BY <1>4, Servido DEF Aguarda
      <2>2. CASE Carga(1)
        <3>1. Aguarda /\ respMem = 0 /\ \A j \in DOMAIN memoria : Carga(j) => j = 1
          BY <1>4, <2>2, Servido DEF UnaCarga
        <3>2. \A i \in DOMAIN memoria' : ~Carga(i)'
          BY <1>4, <3>1, Servido DEF Carga
        <3>3. respMem' = 1
          BY <1>4, <2>2, <3>1, Servido
        <3>4. QED
          BY <2>1, <3>1, <3>2, <3>3 DEF UnaCarga
      <2>3. CASE ~Carga(1)
        <3>1. UNCHANGED respMem
          BY <1>4, <2>3, Servido
        <3>2. ASSUME NEW i \in DOMAIN memoria', Carga(i)'
              PROVE  /\ Aguarda' /\ respMem' = 0 /\ memoria'[i].pid = pcb'["lp"]
                     /\ \A j \in DOMAIN memoria' : Carga(j)' => j = i
          <4>1. /\ i \in Nat /\ i + 1 \in DOMAIN memoria /\ Carga(i + 1)
                /\ memoria'[i] = memoria[i + 1]
            BY <1>4, <3>2, Servido DEF Carga
          <4>2. /\ Aguarda /\ respMem = 0 /\ memoria[i + 1].pid = pcb["lp"]
                /\ \A j \in DOMAIN memoria : Carga(j) => j = i + 1
            BY <4>1 DEF UnaCarga
          <4>3. ASSUME NEW j \in DOMAIN memoria', Carga(j)'
                PROVE  j = i
            <5>1. j \in Nat /\ j + 1 \in DOMAIN memoria /\ Carga(j + 1)
              BY <1>4, <4>3, Servido DEF Carga
            <5>2. QED
              BY <4>1, <4>2, <5>1
          <4>4. QED
            BY <2>1, <3>1, <4>1, <4>2, <4>3
        <3>3. QED
          BY <2>1, <3>1, <3>2 DEF UnaCarga
      <2>4. QED
        BY <2>2, <2>3
<1>5. CASE planifLargoPlazo /\ ~(LpSacaNew \/ LpSacaSusp \/ LpRespNew \/ LpRespSusp)
      <2>1. ~Aguarda /\ UNCHANGED <<memoria, respMem>>
        BY <1>5 DEF planifLargoPlazo, LpPlanif, LpMulti, LpElige, LpMide, LpReady,
           LpReadyAvisa, LpAvisa, LpPost, Espera, Decide, Agrega, enviarInterruptCPU,
           Despierta, Paso, redMem, Aguarda
      <2>2. respMem = 0 /\ \A i \in DOMAIN memoria : ~Carga(i)
        BY <1>1, <2>1 DEF UnaCarga
      <2>3. respMem' = 0 /\ \A i \in DOMAIN memoria' : ~Carga(i)'
        BY <2>1, <2>2 DEF Carga
      <2>4. QED
        BY <2>3 DEF UnaCarga
<1>6. CASE ~planifLargoPlazo /\ ~conexionKernel
      <2>1. Aguarda' = Aguarda /\ pcb'["lp"] = pcb["lp"] /\ UNCHANGED respMem
        BY <1>6, AjenoALp DEF Aguarda
      <2>2. ASSUME NEW i \in DOMAIN memoria', Carga(i)'
            PROVE  i \in DOMAIN memoria /\ memoria'[i] = memoria[i]
        <3>1. CASE UNCHANGED memoria
          BY <2>2, <3>1
        <3>2. ASSUME NEW t \in {"SUSPENDER", "PASAR_A_EXIT"}, NEW p \in Pid, Pedir(t, p)
              PROVE  i \in DOMAIN memoria /\ memoria'[i] = memoria[i]
          BY <2>2, <3>2, Pedido DEF Carga, Pedidos
        <3>3. CASE RxExitAvisa
          BY <3>2, <3>3 DEF RxExitAvisa, Paso, Tipos, TieneProceso
        <3>4. QED
          BY <1>6, <3>1, <3>2, <3>3, QuienPide DEF planifLargoPlazo
      <2>3. QED
        BY <2>1, <2>2 DEF UnaCarga, Carga
<1>7. QED
      BY <1>2, <1>3, <1>4, <1>5, <1>6

LEMMA SalidosNext ==
    Tipos /\ SalidosDespedidos /\ [Next]_vars => SalidosDespedidos'
<1> SUFFICES ASSUME Tipos, SalidosDespedidos, [Next]_vars,
                    NEW i \in DOMAIN memoria', memoria'[i].tipo = "PASAR_A_EXIT"
             PROVE  \E p \in Pid : p = memoria'[i].pid /\ Despedido(p)'
    BY DEF SalidosDespedidos, Despedido
<1>1. ASSUME NEW j \in DOMAIN memoria, memoria'[i] = memoria[j]
      PROVE  \E p \in Pid : p = memoria'[i].pid /\ Despedido(p)'
      <2>1. memoria[j] \in [tipo : Pedidos, pid : Pid]
        <3>1. memoria \in Seq([tipo : Pedidos, pid : Pid])
          BY DEF Tipos, TypeOK
        <3>2. QED
          BY <3>1, Elemento
      <2>2. PICK p \in Pid : p = memoria[j].pid
        BY <2>1
      <2>3. Despedido(p)
        BY <1>1, <2>2 DEF SalidosDespedidos, Despedido
      <2>4. QED
        BY <1>1, <2>2, <2>3, DespedidoSigue
<1>2. CASE UNCHANGED memoria
      BY <1>1, <1>2
<1>3. CASE conexionKernel
      BY <1>1, <1>3, Servido
<1>4. ASSUME NEW t \in Pedidos \ {"PASAR_A_EXIT"}, NEW p \in Pid, Pedir(t, p)
      PROVE  \E q \in Pid : q = memoria'[i].pid /\ Despedido(q)'
      BY <1>1, <1>4, Pedido
<1>5. CASE LpSacaNew \/ LpSacaSusp
      <2>1. PICK c \in {"NEW", "READY_SUSPENDED"} :
              cola[c] # <<>> /\ Pedir("PASAR_A_READY", Head(cola[c]))
        BY <1>5 DEF LpSacaNew, LpSacaSusp, LpSaca
      <2>2. cola[c] \in Seq(Pid)
        BY DEF Tipos, TypeOK, Colas
      <2>3. Head(cola[c]) \in Pid
        BY <2>1, <2>2
      <2>4. QED
        BY <1>4, <2>1, <2>3 DEF Pedidos
<1>6. CASE RxExitAvisa
      <2>1. /\ Pedir("PASAR_A_EXIT", pcb["rx"]) /\ pcb["rx"] \in Pid /\ UNCHANGED pcb
            /\ pc'["rx"] = "exitLista"
        BY <1>6 DEF RxExitAvisa, Paso, Tipos, TypeOK, TieneProceso, Hilos
      <2>2. PICK p \in Pid : p = pcb["rx"]
        BY <2>1
      <2>3. Despedido(p)'
        BY <2>1, <2>2 DEF Despedido
      <2>4. \/ i \in DOMAIN memoria /\ memoria'[i] = memoria[i]
            \/ memoria'[i].pid = p
        BY <2>1, <2>2, Pedido DEF Pedidos
      <2>5. QED
        BY <1>1, <2>3, <2>4
<1>7. QED
      BY <1>2, <1>3, <1>4, <1>5, <1>6, QuienPide DEF Pedidos

LEMMA PedidosAjenos == EnPedidos => PedidosSinCpu
<1> SUFFICES ASSUME EnPedidos, NEW i \in DOMAIN memoria, memoria[i].tipo # "SUSPENDER",
                    EnCpu(memoria[i].pid)
             PROVE  FALSE
    BY DEF PedidosSinCpu
<1> DEFINE p == memoria[i].pid
<1>1. p \in Pid /\ memoria[i].tipo \in {"PASAR_A_READY", "PASAR_A_EXIT"}
      <2>1. memoria \in Seq([tipo : Pedidos, pid : Pid])
        BY DEF EnPedidos, EnUnLugar, Procesador, Tipos, TypeOK
      <2>2. memoria[i] \in [tipo : Pedidos, pid : Pid]
        BY <2>1, Elemento
      <2>3. QED
        BY <2>2 DEF Pedidos
<1>2. \/ En("cp", p) \/ En("dispatch", p) \/ En("cpu", p) \/ En("respuesta", p)
      \/ (En("rx", p) /\ pc["rx"] \in Avisos) \/ En("hilo", p)
      BY <1>1, CpuLugar DEF En, PcInicioHilo
<1>3. CASE Carga(i)
      <2>1. En("lp", p)
        BY <1>3 DEF EnPedidos, UnaCarga, En
      <2>2. QED
        BY <1>1, <1>2, <2>1 DEF EnPedidos, EnUnLugar, UnaClase, Clases
<1>4. CASE memoria[i].tipo = "PASAR_A_EXIT"
      <2>1. En("EXIT", p) \/ (En("rx", p) /\ pc["rx"] = "exitLista")
        BY <1>4 DEF EnPedidos, SalidosDespedidos, Despedido, En
      <2>2. QED
        BY <1>1, <1>2, <2>1 DEF EnPedidos, EnUnLugar, UnaClase, Clases, Avisos
<1>5. QED
      BY <1>1, <1>3, <1>4 DEF Carga

\* While the CPU has a process, or its socket does, the memory has nothing to
\* do for it but to suspend it: what planifLargoPlazo asks is answered before
\* the process is ready, and what recibirMensajeCPU asks is after it came back.
THEOREM SoloSeSuspende == Spec => []PedidosSinCpu
<1>1. Init => EnPedidos
      BY EnUnLugarInit DEF Init, EnPedidos, UnaCarga, SalidosDespedidos
<1>2. EnPedidos /\ [Next]_vars => EnPedidos'
      <2>1. EnPedidos => Tipos
        BY DEF EnPedidos, EnUnLugar, Procesador
      <2>2. QED
        BY <2>1, EnUnLugarNext, UnaCargaNext, SalidosNext DEF EnPedidos
<1>3. QED
      BY <1>1, <1>2, PedidosAjenos, PTL DEF Spec

-----------------------------------------------------------------------------
(* The places of GRADO_MULTIPROGRAMACION.                                  *)

\* A process keeps its place while it is in one of these classes, while its
\* hiloSuspendedor has not put it in BLOCKED, and, once it is there, until
\* whoever takes it out of BLOCKED gives the place back or keeps it.
ClasesConCupo == {"lp", "cp", "cpu", "rx", "READY", "dispatch", "respuesta"}
PcConCupo == {"exec", "procesador", "block"}
Retiene(p) ==
    \/ \E k \in ClasesConCupo : En(k, p)
    \/ \E n \in 1..MaxIO : hilo[p][n] \in PcConCupo
    \/ pcb["io"] = p /\ pc["io"] = "ready"
    \/ /\ Esta("BLOCKED", p)
       /\ En("io", p) \/ En("COLA_IO", p) \/ \E n \in 1..MaxIO : hilo[p][n] = "cola"
Retienen == {p \in Pid : Retiene(p)}

Yendose == {"avisa", "susp", "multi"}
CupoSem == sem["contador_multiprogramacion"]
CupoLp == Si(pc["lp"] \in {"elige", "new", "susp"})
CupoRx == Si(pc["rx"] = "exitMulti")
CupoProceso == Cardinality(Retienen)
CupoHilo == Cardinality(HilosEn(Yendose))

Cupos == CupoSem + CupoLp + CupoProceso + CupoRx + CupoHilo >= GRADO_MULTIPROGRAMACION

\* planifBloqueados did not find the process in BLOCKED and nobody puts it there.
FueraDeBlocked ==
    pc["io"] \in {"mira", "sacaSusp", "suspReady"} => ~Esta("BLOCKED", pcb["io"])

EnCupos == EnUnLugar /\ FueraDeBlocked /\ Cupos

LEMMA RetienenFinito == IsFiniteSet(Retienen) /\ IsFiniteSet(Retienen')
BY ProcesosFinitos, FS_Subset DEF Retienen

LEMMA CupoHiloNatural == CupoHilo \in Nat /\ CupoHilo' \in Nat
<1>1. IsFiniteSet(Pid \X (1..MaxIO))
      <2>1. IsFiniteSet(1..MaxIO)
        BY MaxIONatural, FS_Interval
      <2>2. QED
        BY <2>1, ProcesosFinitos, FS_Product
<1>2. IsFiniteSet(HilosEn(Yendose)) /\ IsFiniteSet(HilosEn(Yendose)')
      BY <1>1, FS_Subset DEF HilosEn
<1>3. QED
      BY <1>2, FS_CardinalityType DEF CupoHilo

LEMMA CuposEnteros ==
    ASSUME Tipos, Tipos'
    PROVE  /\ CupoSem \in Nat /\ CupoLp \in {0, 1} /\ CupoProceso \in Nat
           /\ CupoRx \in {0, 1} /\ CupoHilo \in Nat
           /\ CupoSem' \in Nat /\ CupoLp' \in {0, 1} /\ CupoProceso' \in Nat
           /\ CupoRx' \in {0, 1} /\ CupoHilo' \in Nat
<1>1. CupoProceso \in Nat /\ CupoProceso' \in Nat
      BY RetienenFinito, FS_CardinalityType DEF CupoProceso
<1>2. CupoHilo \in Nat /\ CupoHilo' \in Nat
      BY CupoHiloNatural
<1>3. CupoSem \in Nat /\ CupoSem' \in Nat
      BY DEF Tipos, TypeOK, Semaforos, CupoSem
<1>4. CupoLp \in {0, 1} /\ CupoRx \in {0, 1} /\ CupoLp' \in {0, 1} /\ CupoRx' \in {0, 1}
      BY DEF CupoLp, CupoRx, Si
<1>5. QED
      BY <1>1, <1>2, <1>3, <1>4

\* The processes that keep a place, and how many they are.
LEMMA Conservan ==
    ASSUME \A q \in Pid : Retiene(q) => Retiene(q)'
    PROVE  CupoProceso' >= CupoProceso
<1>1. Retienen \subseteq Retienen'
      BY DEF Retienen
<1>2. QED
      BY <1>1, RetienenFinito, FS_Subset, FS_CardinalityType DEF CupoProceso

LEMMA RetieneMas ==
    ASSUME NEW p \in Pid, ~Retiene(p), Retiene(p)', \A q \in Pid : Retiene(q) => Retiene(q)'
    PROVE  CupoProceso' >= CupoProceso + 1
<1>1. Retienen \cup {p} \subseteq Retienen' /\ p \notin Retienen
      BY DEF Retienen
<1>2. /\ IsFiniteSet(Retienen \cup {p})
      /\ Cardinality(Retienen \cup {p}) = Cardinality(Retienen) + 1
      BY <1>1, RetienenFinito, FS_AddElement
<1>3. Cardinality(Retienen \cup {p}) <= Cardinality(Retienen')
      BY <1>1, RetienenFinito, FS_Subset
<1>4. Cardinality(Retienen) \in Nat /\ Cardinality(Retienen') \in Nat
      BY RetienenFinito, FS_CardinalityType
<1>5. QED
      BY <1>2, <1>3, <1>4 DEF CupoProceso

LEMMA RetieneMenos ==
    ASSUME NEW p \in Pid, \A q \in Pid \ {p} : Retiene(q) => Retiene(q)'
    PROVE  CupoProceso' >= CupoProceso - 1
<1>1. Retienen \ {p} \subseteq Retienen'
      BY DEF Retienen
<1>2. Cardinality(Retienen \ {p}) >= Cardinality(Retienen) - 1
      <2>1. Cardinality(Retienen) \in Nat
        BY RetienenFinito, FS_CardinalityType
      <2>2. QED
        BY <2>1, RetienenFinito, FS_RemoveElement
<1>3. Cardinality(Retienen \ {p}) <= Cardinality(Retienen')
      BY <1>1, RetienenFinito, FS_Subset
<1>4. /\ Cardinality(Retienen) \in Nat /\ Cardinality(Retienen') \in Nat
      /\ Cardinality(Retienen \ {p}) \in Nat
      BY RetienenFinito, FS_CardinalityType, FS_RemoveElement
<1>5. QED
      BY <1>2, <1>3, <1>4 DEF CupoProceso

\* A process that is where no place is kept.
LEMMA NoRetiene ==
    ASSUME EnUnLugar, NEW p \in Pid, NEW k \in {"crear", "NEW", "READY_SUSPENDED"}, En(k, p)
    PROVE  ~Retiene(p)
<1>1. \A l \in Clases : En(l, p) <=> l = k
      BY DEF EnUnLugar, UnaClase, Clases, Colas
<1>2. ~En("hilo", p) /\ ~En("io", p) /\ ~En("COLA_IO", p) /\ \A l \in ClasesConCupo : ~En(l, p)
      BY <1>1 DEF Clases, Colas, ClasesConCupo
<1>3. /\ pcb["io"] # p
      /\ \A n \in 1..MaxIO : hilo[p][n] \notin PcConCupo /\ hilo[p][n] # "cola"
      BY <1>2 DEF En, Colas, PcInicioHilo, PcConCupo
<1>4. QED
      BY <1>2, <1>3 DEF Retiene

\* Steps that leave alone the I/O thread, LISTA_BLOCKED and the hiloSuspendedor.
LEMMA RetieneQueda ==
    ASSUME UNCHANGED hilo, lista'["BLOCKED"] = lista["BLOCKED"],
           pcb'["io"] = pcb["io"], pc'["io"] = pc["io"],
           NEW q \in Pid, \A l \in Clases : En(l, q) => En(l, q)', Retiene(q)
    PROVE  Retiene(q)'
BY DEF Retiene, Clases, Colas, ClasesConCupo, Esta

LEMMA RetienenQuedan ==
    ASSUME UNCHANGED hilo, lista'["BLOCKED"] = lista["BLOCKED"],
           pcb'["io"] = pcb["io"], pc'["io"] = pc["io"],
           Quedan \/ \E p \in Pid : \E k \in ClasesConCupo : Muda(p, k)
    PROVE  \A q \in Pid : Retiene(q) => Retiene(q)'
<1> SUFFICES ASSUME NEW q \in Pid, Retiene(q)
             PROVE  Retiene(q)'
    OBVIOUS
<1>1. CASE Quedan
      BY <1>1, RetieneQueda DEF Quedan
<1>2. ASSUME NEW p \in Pid, NEW k \in ClasesConCupo, Muda(p, k)
      PROVE  Retiene(q)'
      <2>1. CASE q = p
        BY <1>2, <2>1 DEF Muda, Retiene, ClasesConCupo, Clases, Colas
      <2>2. CASE q # p
        <3>1. \A l \in Clases : En(l, q) => En(l, q)'
          BY <1>2, <2>2 DEF Muda
        <3>2. QED
          BY <3>1, RetieneQueda
      <2>3. QED
        BY <2>1, <2>2
<1>3. QED
      BY <1>1, <1>2

\* The sum after a step, in names of its own: it did not go down.
LEMMA CuposBastan ==
    ASSUME EnCupos, Tipos',
           NEW a \in Int, NEW b \in Int, NEW c \in Int, NEW d \in Int, NEW e \in Int,
           a + b + c + d + e >= CupoSem + CupoLp + CupoProceso + CupoRx + CupoHilo
    PROVE  a + b + c + d + e >= GRADO_MULTIPROGRAMACION
<1>1. /\ CupoSem \in Nat /\ CupoLp \in {0, 1} /\ CupoProceso \in Nat
      /\ CupoRx \in {0, 1} /\ CupoHilo \in Nat
      BY CuposEnteros DEF EnCupos, EnUnLugar, Procesador
<1>2. /\ CupoSem + CupoLp + CupoProceso + CupoRx + CupoHilo >= GRADO_MULTIPROGRAMACION
      /\ CupoLp \in Nat /\ CupoRx \in Nat /\ GRADO_MULTIPROGRAMACION \in Nat
      BY <1>1, GradoPositivo DEF EnCupos, Cupos
<1>3. QED
      BY <1>1, <1>2

LEMMA CuposSuman ==
    ASSUME EnCupos, Tipos',
           NEW a \in Int, a = CupoSem', NEW b \in Int, b = CupoLp',
           NEW c \in Int, c = CupoProceso', NEW d \in Int, d = CupoRx',
           NEW e \in Int, e = CupoHilo',
           a + b + c + d + e >= CupoSem + CupoLp + CupoProceso + CupoRx + CupoHilo
    PROVE  Cupos'
<1>1. a + b + c + d + e >= GRADO_MULTIPROGRAMACION
      BY CuposBastan
<1>2. QED
      BY <1>1 DEF Cupos

\* Steps that take nothing from the sum.
LEMMA CuposQuedan ==
    ASSUME EnCupos, Tipos', CupoProceso' >= CupoProceso, UNCHANGED hilo,
           pc'["lp"] = pc["lp"], pc'["rx"] = pc["rx"],
           sem'["contador_multiprogramacion"] = sem["contador_multiprogramacion"]
    PROVE  Cupos'
<1>1. /\ CupoLp' = CupoLp /\ CupoRx' = CupoRx /\ CupoHilo' = CupoHilo /\ CupoSem' = CupoSem
      BY DEF CupoLp, CupoRx, CupoHilo, CupoSem, HilosEn
<1>2. /\ CupoSem \in Nat /\ CupoLp \in {0, 1} /\ CupoProceso \in Nat
      /\ CupoRx \in {0, 1} /\ CupoHilo \in Nat /\ CupoProceso' \in Nat
      BY CuposEnteros DEF EnCupos, EnUnLugar, Procesador
<1>3. PICK c \in Nat : c = CupoProceso'
      BY <1>2
<1>4. c >= CupoProceso
      BY <1>3
<1>5. CupoSem + CupoLp + c + CupoRx + CupoHilo
        >= CupoSem + CupoLp + CupoProceso + CupoRx + CupoHilo
      BY <1>2, <1>4
<1>6. QED
      BY <1>1, <1>2, <1>3, <1>5, CuposSuman

\* A thread that gives a place back, or takes one, or neither.
LEMMA CuposLp ==
    ASSUME EnCupos, EnUnLugar', planifLargoPlazo
    PROVE  FueraDeBlocked' /\ Cupos'
<1>1. /\ pc \in [Hilos -> PcLp \cup PcCp \cup PcRx \cup PcIo \cup PcCpu]
      /\ pcb \in [Hilos -> Pid \cup {Nadie}] /\ sem \in [Semaforos -> Nat]
      /\ EnUnLugar /\ Tipos /\ Tipos'
      BY DEF EnCupos, EnUnLugar, Procesador, Tipos, TypeOK
<1>2. /\ UNCHANGED <<hilo, lista>> /\ pc'["rx"] = pc["rx"]
      /\ pcb'["io"] = pcb["io"] /\ pc'["io"] = pc["io"]
      BY <1>1 DEF planifLargoPlazo, LpPlanif, LpMulti, LpElige, LpSacaNew, LpSacaSusp,
         LpSaca, LpRespNew, LpRespSusp, LpRespuesta, LpMide, LpReady, LpReadyAvisa,
         LpAvisa, LpPost, Espera, Decide, Agrega, enviarInterruptCPU, Despierta, Paso,
         Toma, porProceso, Hilos
<1>3. FueraDeBlocked' /\ CupoRx' = CupoRx /\ CupoHilo' = CupoHilo
      BY <1>2 DEF EnCupos, FueraDeBlocked, Esta, CupoRx, CupoHilo, HilosEn
<1>4. /\ CupoSem \in Nat /\ CupoProceso \in Nat /\ CupoRx \in Nat /\ CupoHilo \in Nat
      BY <1>1, CuposEnteros
<1>5. PICK a \in Int, b \in Int, c \in Int, d \in Int, e \in Int :
            /\ a = CupoSem' /\ b = CupoLp' /\ c = CupoProceso' /\ d = CupoRx'
            /\ e = CupoHilo'
      BY <1>1, CuposEnteros
<1>6. Quedan => c >= CupoProceso
      BY <1>2, <1>5, Conservan, RetienenQuedan
<1>7. CASE LpMulti
      <2>1. /\ pc["lp"] = "multi" /\ pc'["lp"] = "elige"
            /\ CupoSem > 0 /\ CupoSem' = CupoSem - 1
        BY <1>1, <1>7 DEF LpMulti, Espera, Wait, Paso, CupoSem, Semaforos, Hilos
      <2>2. Quedan
        BY <1>1, <2>1, LugaresLp
        DEF LpSacaNew, LpSacaSusp, LpSaca, LpReady, LpReadyAvisa, Agrega, Paso
      <2>3. CupoLp = 0 /\ CupoLp' = 1
        BY <2>1 DEF CupoLp, Si
      <2>4. a = CupoSem - 1 /\ b = 1 /\ d = CupoRx /\ e = CupoHilo
        BY <1>3, <1>5, <2>1, <2>3
      <2>5. a + b + c + d + e >= CupoSem + CupoLp + CupoProceso + CupoRx + CupoHilo
        BY <1>4, <1>6, <2>2, <2>3, <2>4
      <2>6. QED
        BY <1>1, <1>3, <1>5, <2>5, CuposSuman
<1>8. ASSUME NEW p \in Pid, NEW k \in {"NEW", "READY_SUSPENDED"}, En(k, p), Muda(p, "lp"),
             pc["lp"] \in {"new", "susp"}, pc'["lp"] \in {"respNew", "respSusp"},
             UNCHANGED sem
      PROVE  Cupos'
      <2>1. ~Retiene(p)
        BY <1>1, <1>8, NoRetiene
      <2>2. Retiene(p)'
        BY <1>8 DEF Muda, Retiene, ClasesConCupo, Clases
      <2>3. \A q \in Pid : Retiene(q) => Retiene(q)'
        BY <1>2, <1>8, RetienenQuedan DEF ClasesConCupo
      <2>4. c >= CupoProceso + 1
        BY <1>5, <2>1, <2>2, <2>3, RetieneMas
      <2>5. CupoLp = 1 /\ CupoLp' = 0 /\ CupoSem' = CupoSem
        BY <1>8 DEF CupoLp, CupoSem, Si
      <2>6. a = CupoSem /\ b = 0 /\ d = CupoRx /\ e = CupoHilo
        BY <1>3, <1>5, <2>5
      <2>7. a + b + c + d + e >= CupoSem + CupoLp + CupoProceso + CupoRx + CupoHilo
        BY <1>4, <2>4, <2>5, <2>6
      <2>8. QED
        BY <1>1, <1>3, <1>5, <2>7, CuposSuman
<1>9. CASE LpSacaNew
      <2>1. PICK p \in Pid : p = Head(cola["NEW"]) /\ Muda(p, "lp")
        BY <1>1, <1>9, LugaresLp
      <2>2. En("NEW", p) /\ UNCHANGED sem
        BY <1>1, <1>9, <2>1, CabezaEsta DEF LpSacaNew, LpSaca, Colas
      <2>3. pc["lp"] = "new" /\ pc'["lp"] = "respNew"
        BY <1>1, <1>9 DEF LpSacaNew, LpSaca, Paso, Hilos
      <2>4. QED
        BY <1>3, <1>8, <2>1, <2>2, <2>3
<1>10. CASE LpSacaSusp
      <2>1. PICK p \in Pid : p = Head(cola["READY_SUSPENDED"]) /\ Muda(p, "lp")
        BY <1>1, <1>10, LugaresLp
      <2>2. En("READY_SUSPENDED", p) /\ UNCHANGED sem
        BY <1>1, <1>10, <2>1, CabezaEsta DEF LpSacaSusp, LpSaca, Colas
      <2>3. pc["lp"] = "susp" /\ pc'["lp"] = "respSusp"
        BY <1>1, <1>10 DEF LpSacaSusp, LpSaca, Paso, Hilos
      <2>4. QED
        BY <1>3, <1>8, <2>1, <2>2, <2>3
<1>11. CASE ~(LpMulti \/ LpSacaNew \/ LpSacaSusp)
      <2>1. /\ sem'["contador_multiprogramacion"] = sem["contador_multiprogramacion"]
            /\ pc'["lp"] \in {"elige", "new", "susp"} <=> pc["lp"] \in {"elige", "new", "susp"}
        BY <1>1, <1>11 DEF planifLargoPlazo, LpPlanif, LpElige, LpRespNew, LpRespSusp,
           LpRespuesta, LpMide, LpReady, LpReadyAvisa, LpAvisa, LpPost, Espera, Wait,
           Decide, Agrega, enviarInterruptCPU, Despierta, Post, Paso, Semaforos, Hilos
      <2>2. Quedan \/ \E p \in Pid : Muda(p, "READY")
        BY <1>1, <1>11, LugaresLp
      <2>3. \A q \in Pid : Retiene(q) => Retiene(q)'
        BY <1>2, <2>2, RetienenQuedan DEF ClasesConCupo
      <2>4. c >= CupoProceso
        BY <1>5, <2>3, Conservan
      <2>5. CupoLp' = CupoLp /\ CupoSem' = CupoSem /\ CupoLp \in Nat
        BY <2>1 DEF CupoLp, CupoSem, Si
      <2>6. a = CupoSem /\ b = CupoLp /\ d = CupoRx /\ e = CupoHilo
        BY <1>3, <1>5, <2>5
      <2>7. a + b + c + d + e >= CupoSem + CupoLp + CupoProceso + CupoRx + CupoHilo
        BY <1>4, <2>4, <2>5, <2>6
      <2>8. QED
        BY <1>1, <1>3, <1>5, <2>7, CuposSuman
<1>12. QED
      BY <1>3, <1>7, <1>9, <1>10, <1>11

\* planifCortoPlazo, the CPU and crearPCB leave the sum alone.
LEMMA CuposAjenos ==
    ASSUME EnCupos, EnUnLugar', UNCHANGED hilo, lista'["BLOCKED"] = lista["BLOCKED"],
           \A t \in {"lp", "rx", "io"} : pc'[t] = pc[t], pcb'["io"] = pcb["io"],
           sem'["contador_multiprogramacion"] = sem["contador_multiprogramacion"],
           \A q \in Pid : Retiene(q) => Retiene(q)'
    PROVE  FueraDeBlocked' /\ Cupos'
<1>1. FueraDeBlocked'
      BY DEF EnCupos, FueraDeBlocked, Esta
<1>2. Cupos'
      BY Conservan, CuposQuedan DEF EnUnLugar, Procesador
<1>3. QED
      BY <1>1, <1>2

LEMMA CuposCp ==
    ASSUME EnCupos, EnUnLugar', planifCortoPlazo
    PROVE  FueraDeBlocked' /\ Cupos'
<1>1. /\ pc \in [Hilos -> PcLp \cup PcCp \cup PcRx \cup PcIo \cup PcCpu]
      /\ pcb \in [Hilos -> Pid \cup {Nadie}] /\ sem \in [Semaforos -> Nat]
      /\ lista \in [Listas -> [Pid -> Nat]] /\ EnUnLugar
      BY DEF EnCupos, EnUnLugar, Procesador, Tipos, TypeOK
<1>2. /\ UNCHANGED hilo /\ lista'["BLOCKED"] = lista["BLOCKED"]
      /\ \A t \in {"lp", "rx", "io"} : pc'[t] = pc[t]
      /\ pcb'["io"] = pcb["io"]
      /\ sem'["contador_multiprogramacion"] = sem["contador_multiprogramacion"]
      BY <1>1 DEF planifCortoPlazo, CpReady, CpProcesador, algoritmo_FIFO,
         algoritmo_SRT, CpQuita, CpExec, CpDespacha, Espera, Wait, Extrae, Anotar, Paso,
         Toma, porProceso, Hilos, Listas, Semaforos
<1>3. Quedan \/ \E p \in Pid : Muda(p, "cp") \/ Muda(p, "dispatch")
      BY <1>1, LugaresCp
<1>4. \A q \in Pid : Retiene(q) => Retiene(q)'
      BY <1>2, <1>3, RetienenQuedan DEF ClasesConCupo
<1>5. QED
      BY <1>2, <1>4, CuposAjenos

LEMMA CuposCpu ==
    ASSUME EnCupos, EnUnLugar', iniciarDispatch
    PROVE  FueraDeBlocked' /\ Cupos'
<1>1. /\ pc \in [Hilos -> PcLp \cup PcCp \cup PcRx \cup PcIo \cup PcCpu]
      /\ pcb \in [Hilos -> Pid \cup {Nadie}] /\ EnUnLugar
      BY DEF EnCupos, EnUnLugar, Procesador, Tipos, TypeOK
<1>2. /\ UNCHANGED <<hilo, lista, sem>> /\ pcb'["io"] = pcb["io"]
      /\ \A t \in {"lp", "rx", "io"} : pc'[t] = pc[t]
      BY <1>1 DEF iniciarDispatch, CpuRecibe, CpuIO, CpuExit, CpuInterrupt, CpuDevuelve,
         CpuLimpia, Paso, Toma, porProceso, Hilos
<1>3. Quedan \/ \E p \in Pid : Muda(p, "cpu") \/ Muda(p, "respuesta")
      BY <1>1, LugaresCpu DEF iniciarDispatch
<1>4. \A q \in Pid : Retiene(q) => Retiene(q)'
      BY <1>2, <1>3, RetienenQuedan DEF ClasesConCupo
<1>5. QED
      BY <1>2, <1>4, CuposAjenos

LEMMA CuposCrear ==
    ASSUME EnCupos, EnUnLugar', NEW p \in Pid, CrearNew(p) \/ CrearPost(p)
    PROVE  FueraDeBlocked' /\ Cupos'
<1>1. /\ UNCHANGED <<hilo, lista, pc, pcb>> /\ EnUnLugar
      /\ sem'["contador_multiprogramacion"] = sem["contador_multiprogramacion"]
      BY DEF CrearNew, CrearPost, Post, Semaforos, EnCupos, EnUnLugar, Procesador, Tipos,
         TypeOK
<1>2. \A q \in Pid : Retiene(q) => Retiene(q)'
      <2>1. CASE CrearNew(p)
        <3>1. En("crear", p) /\ Muda(p, "NEW")
          BY <1>1, <2>1, LugaresCrear DEF CrearNew, En
        <3>2. ~Retiene(p)
          BY <1>1, <3>1, NoRetiene
        <3>3. ASSUME NEW q \in Pid, Retiene(q)
              PROVE  Retiene(q)'
          <4>1. \A l \in Clases : En(l, q) => En(l, q)'
            BY <3>1, <3>2, <3>3 DEF Muda
          <4>2. QED
            BY <1>1, <3>3, <4>1, RetieneQueda
        <3>4. QED
          BY <3>3
      <2>2. CASE CrearPost(p)
        BY <1>1, <2>2, LugaresCrear, RetienenQuedan
      <2>3. QED
        BY <2>1, <2>2
<1>3. QED
      BY <1>1, <1>2, CuposAjenos

LEMMA CuposQuieto ==
    ASSUME EnCupos, EnUnLugar', iniciarInterrupt \/ conexionKernel \/ UNCHANGED vars
    PROVE  FueraDeBlocked' /\ Cupos'
<1>1. UNCHANGED <<hilo, lista, sem, pc, pcb>> /\ EnUnLugar
      BY DEF iniciarInterrupt, conexionKernel, vars, porProceso, EnCupos
<1>2. Quedan
      BY <1>1, LugaresQuieto
<1>3. \A q \in Pid : Retiene(q) => Retiene(q)'
      BY <1>1, <1>2, RetienenQuedan
<1>4. QED
      BY <1>1, <1>3, CuposAjenos

LEMMA RetieneSigue ==
    ASSUME NEW q \in Pid, Retiene(q), \A l \in Clases : En(l, q) => En(l, q)',
           \A n \in 1..MaxIO : hilo[q][n] \in PcConCupo \cup {"cola"} => hilo'[q][n] = hilo[q][n],
           Esta("BLOCKED", q) => Esta("BLOCKED", q)',
           ~(pcb["io"] = q /\ pc["io"] = "ready") \/ (pcb'["io"] = q /\ pc'["io"] = "ready")
    PROVE  Retiene(q)'
BY DEF Retiene, Clases, Colas, ClasesConCupo

LEMMA CuposRx ==
    ASSUME EnCupos, EnUnLugar', recibirMensajeCPU
    PROVE  FueraDeBlocked' /\ Cupos'
<1>1. /\ pc \in [Hilos -> PcLp \cup PcCp \cup PcRx \cup PcIo \cup PcCpu]
      /\ pcb \in [Hilos -> Pid \cup {Nadie}] /\ sem \in [Semaforos -> Nat]
      /\ lista \in [Listas -> [Pid -> Nat]] /\ hilo \in [Pid -> [1..MaxIO -> PcHilo]]
      /\ EnUnLugar /\ Tipos /\ Tipos'
      BY DEF EnCupos, EnUnLugar, Procesador, Tipos, TypeOK
<1>2. /\ lista'["BLOCKED"] = lista["BLOCKED"] /\ pc'["lp"] = pc["lp"]
      /\ pcb'["io"] = pcb["io"] /\ pc'["io"] = pc["io"]
      BY <1>1 DEF recibirMensajeCPU, RxRecibe, RxBlock, RxExit, RxExitProcesador,
         RxExitAvisa, RxExitLista, RxExitMulti, RxInterrupt, RxIntReady, RxIntSem,
         RxIntProcesador, Quita, Borrar, Anotar, Despierta, Agrega, Paso, Toma, Hilos,
         Listas
<1>3. FueraDeBlocked' /\ CupoLp' = CupoLp
      BY <1>2 DEF EnCupos, FueraDeBlocked, Esta, CupoLp
<1>4. /\ CupoSem \in Nat /\ CupoLp \in Nat /\ CupoProceso \in Nat /\ CupoRx \in Nat
      /\ CupoHilo \in Nat
      BY <1>1, CuposEnteros
<1>5. PICK a \in Int, b \in Int, c \in Int, d \in Int, e \in Int :
            /\ a = CupoSem' /\ b = CupoLp' /\ c = CupoProceso' /\ d = CupoRx'
            /\ e = CupoHilo'
      BY <1>1, CuposEnteros
<1>6. b = CupoLp
      BY <1>3, <1>5
<1>7. CASE RxExitLista
      <2>1. /\ pc["rx"] = "exitLista" /\ pc'["rx"] = "exitMulti" /\ UNCHANGED <<sem, hilo>>
        BY <1>1, <1>7 DEF RxExitLista, Paso, porProceso, Hilos
      <2>2. PICK p \in Pid : Muda(p, "EXIT")
        BY <1>1, <1>7, LugaresRx
      <2>3. ASSUME NEW q \in Pid \ {p}, Retiene(q)
            PROVE  Retiene(q)'
        <3>1. \A l \in Clases : En(l, q) => En(l, q)'
          BY <2>2 DEF Muda
        <3>2. QED
          BY <1>2, <2>1, <2>3, <3>1, RetieneQueda
      <2>4. c >= CupoProceso - 1
        BY <1>5, <2>3, RetieneMenos
      <2>5. CupoRx = 0 /\ CupoRx' = 1 /\ CupoSem' = CupoSem /\ CupoHilo' = CupoHilo
        BY <2>1 DEF CupoRx, CupoSem, CupoHilo, HilosEn, Si
      <2>6. a = CupoSem /\ d = 1 /\ e = CupoHilo
        BY <1>5, <2>5
      <2>7. a + b + c + d + e >= CupoSem + CupoLp + CupoProceso + CupoRx + CupoHilo
        BY <1>4, <1>6, <2>4, <2>5, <2>6
      <2>8. QED
        BY <1>1, <1>3, <1>5, <2>7, CuposSuman
<1>8. CASE RxExitMulti
      <2>1. /\ pc["rx"] = "exitMulti" /\ pc'["rx"] = "recibe" /\ UNCHANGED hilo
            /\ CupoSem' = CupoSem + 1
        BY <1>1, <1>8 DEF RxExitMulti, Despierta, Post, Paso, porProceso, Hilos, CupoSem,
           Semaforos
      <2>2. Quedan
        <3>1. ~(RxRecibe \/ RxBlock \/ RxExitLista \/ RxIntReady)
          BY <2>1 DEF RxRecibe, RxBlock, RxExitLista, RxIntReady, Agrega, Paso
        <3>2. QED
          BY <1>1, <3>1, LugaresRx
      <2>3. \A q \in Pid : Retiene(q) => Retiene(q)'
        BY <1>2, <2>1, <2>2, RetienenQuedan
      <2>4. c >= CupoProceso
        BY <1>5, <2>3, Conservan
      <2>5. CupoRx = 1 /\ CupoRx' = 0 /\ CupoHilo' = CupoHilo
        BY <2>1 DEF CupoRx, CupoHilo, HilosEn, Si
      <2>6. a = CupoSem + 1 /\ d = 0 /\ e = CupoHilo
        BY <1>5, <2>1, <2>5
      <2>7. a + b + c + d + e >= CupoSem + CupoLp + CupoProceso + CupoRx + CupoHilo
        BY <1>4, <1>6, <2>4, <2>5, <2>6
      <2>8. QED
        BY <1>1, <1>3, <1>5, <2>7, CuposSuman
<1>9. ASSUME CupoProceso' >= CupoProceso, CupoHilo' = CupoHilo,
             pc["rx"] # "exitMulti", pc'["rx"] # "exitMulti", CupoSem' = CupoSem
      PROVE  Cupos'
      <2>1. CupoRx = 0 /\ CupoRx' = 0
        BY <1>9 DEF CupoRx, Si
      <2>2. a = CupoSem /\ d = 0 /\ e = CupoHilo /\ c >= CupoProceso
        BY <1>5, <1>9, <2>1
      <2>3. a + b + c + d + e >= CupoSem + CupoLp + CupoProceso + CupoRx + CupoHilo
        BY <1>4, <1>6, <2>1, <2>2
      <2>4. QED
        BY <1>1, <1>5, <2>3, CuposSuman
<1>10. CASE RxBlock
      <2>1. /\ pc["rx"] = "BLOCK" /\ pc'["rx"] = "recibe" /\ UNCHANGED sem
            /\ pcb["rx"] \in Pid /\ SinHilo(pcb["rx"])
            /\ hilo' = [hilo EXCEPT ![pcb["rx"]][nIO[pcb["rx"]]] = "exec"]
        BY <1>1, <1>10, LugaresRx DEF RxBlock, Paso, Hilos, EnUnLugar, Procesador, Frescos
      <2>2. PICK p \in Pid, n \in 1..MaxIO :
                /\ p = pcb["rx"] /\ Muda(p, "hilo") /\ hilo[p][n] = "nada"
                /\ hilo' = [hilo EXCEPT ![p][n] = "exec"]
        BY <1>1, <1>10, <2>1, LugaresRx DEF SinHilo
      <2>3. \A q \in Pid, m \in 1..MaxIO :
                hilo'[q][m] = IF q = p /\ m = n THEN "exec" ELSE hilo[q][m]
        BY <1>1, <2>2
      <2>4. Retiene(p)'
        BY <2>3 DEF Retiene, PcConCupo
      <2>5. ASSUME NEW q \in Pid, Retiene(q), q # p
            PROVE  Retiene(q)'
        <3>1. \A l \in Clases : En(l, q) => En(l, q)'
          BY <2>2, <2>5 DEF Muda
        <3>2. \A m \in 1..MaxIO : hilo'[q][m] = hilo[q][m]
          BY <2>3, <2>5
        <3>3. QED
          BY <1>2, <2>5, <3>1, <3>2, RetieneSigue DEF Esta
      <2>6. CupoProceso' >= CupoProceso
        BY <2>4, <2>5, Conservan
      <2>7. CupoHilo' = CupoHilo
        <3>1. hilo[p][n] \in Yendose <=> "exec" \in Yendose
          BY <2>2 DEF Yendose
        <3>2. HilosEn(Yendose)' = HilosEn(Yendose)
          BY <1>1, <2>2, <3>1, HiloQueda
        <3>3. QED
          BY <3>2 DEF CupoHilo
      <2>8. QED
        BY <1>3, <1>9, <2>1, <2>6, <2>7 DEF CupoSem
<1>11. CASE ~(RxExitLista \/ RxExitMulti \/ RxBlock)
      <2>1. /\ UNCHANGED hilo /\ pc["rx"] # "exitMulti"
            /\ sem'["contador_multiprogramacion"] = sem["contador_multiprogramacion"]
        BY <1>1, <1>11 DEF recibirMensajeCPU, RxRecibe, RxExit, RxExitProcesador,
           RxExitAvisa, RxInterrupt, RxIntReady, RxIntSem, RxIntProcesador, Quita,
           Despierta, Post, Agrega, Paso, porProceso, Semaforos
      <2>2. pc'["rx"] # "exitMulti"
        <3>1. CASE RxRecibe
          <4>1. /\ respuesta \in Seq([op : Avisos, pcb : Pid]) /\ respuesta # <<>>
                /\ 1 \in DOMAIN respuesta /\ Head(respuesta) = respuesta[1]
            BY <1>1, <3>1 DEF RxRecibe, Tipos, TypeOK
          <4>2. respuesta[1] \in [op : Avisos, pcb : Pid]
            BY <4>1, Elemento
          <4>3. pc'["rx"] = respuesta[1].op
            BY <1>1, <3>1, <4>1 DEF RxRecibe, Paso, Hilos
          <4>4. QED
            BY <4>2, <4>3 DEF Avisos
        <3>2. CASE ~RxRecibe
          BY <1>1, <1>11, <3>2 DEF recibirMensajeCPU, RxExit, RxExitProcesador,
             RxExitAvisa, RxInterrupt, RxIntReady, RxIntSem, RxIntProcesador, Quita,
             Despierta, Agrega, Paso, Hilos
        <3>3. QED
          BY <3>1, <3>2
      <2>3. Quedan \/ \E p \in Pid : Muda(p, "rx") \/ Muda(p, "READY")
        BY <1>1, <1>11, LugaresRx
      <2>4. \A q \in Pid : Retiene(q) => Retiene(q)'
        BY <1>2, <2>1, <2>3, RetienenQuedan DEF ClasesConCupo
      <2>5. CupoProceso' >= CupoProceso
        BY <2>4, Conservan
      <2>6. CupoHilo' = CupoHilo /\ CupoSem' = CupoSem
        BY <2>1 DEF CupoHilo, CupoSem, HilosEn
      <2>7. QED
        BY <1>3, <1>9, <2>1, <2>2, <2>5, <2>6
<1>12. QED
      BY <1>3, <1>7, <1>8, <1>10, <1>11

\* The I/O thread: it takes a process from one class to another, or loses it
\* when its place was given back already.
LEMMA CuposIo ==
    ASSUME EnCupos, EnUnLugar', planifBloqueados
    PROVE  FueraDeBlocked' /\ Cupos'
<1>1. /\ pc \in [Hilos -> PcLp \cup PcCp \cup PcRx \cup PcIo \cup PcCpu]
      /\ pcb \in [Hilos -> Pid \cup {Nadie}] /\ sem \in [Semaforos -> Nat]
      /\ lista \in [Listas -> [Pid -> Nat]] /\ TieneProceso /\ EnUnLugar /\ Tipos'
      BY DEF EnCupos, EnUnLugar, Procesador, Tipos, TypeOK
<1>2. /\ UNCHANGED hilo /\ pc'["lp"] = pc["lp"] /\ pc'["rx"] = pc["rx"]
      /\ sem'["contador_multiprogramacion"] = sem["contador_multiprogramacion"]
      BY <1>1 DEF planifBloqueados, IoBloqueo, IoCola, IoTermina, IoMira, IoOlvida,
         IoSaca, IoReady, IoAvisa, IoPost, IoSacaSusp, IoSuspReady, IoPostLp, Espera,
         Wait, Extrae, Decide, Quita, Agrega, enviarInterruptCPU, Despierta, Post, Paso,
         porProceso, Hilos, Semaforos
<1>3. SUFFICES FueraDeBlocked' /\ \A q \in Pid : Retiene(q) => Retiene(q)'
      BY <1>1, <1>2, Conservan, CuposQuedan
<1>4. ASSUME pcb["io"] \in Pid, pc["io"] \in {"mira", "suspReady"}
      PROVE  ~Retiene(pcb["io"])
      <2>1. En("io", pcb["io"])
        BY DEF En
      <2>2. \A l \in Clases : En(l, pcb["io"]) <=> l = "io"
        BY <1>1, <1>4, <2>1 DEF EnUnLugar, UnaClase, Clases
      <2>3. \A n \in 1..MaxIO : hilo[pcb["io"]][n] \notin PcInicioHilo
        BY <2>2 DEF En, Clases, Colas
      <2>4. \A l \in ClasesConCupo : ~En(l, pcb["io"])
        BY <2>2 DEF ClasesConCupo, Clases, Colas
      <2>5. ~Esta("BLOCKED", pcb["io"])
        BY <1>4 DEF EnCupos, FueraDeBlocked
      <2>6. QED
        BY <1>4, <2>3, <2>4, <2>5 DEF Retiene, PcInicioHilo, PcConCupo
<1>5. CASE IoCola
      <2>1. /\ pc["io"] = "cola" /\ pc'["io"] = "duerme" /\ UNCHANGED lista
            /\ cola["COLA_IO"] # <<>>
        BY <1>1, <1>5 DEF IoCola, Extrae, Paso, Hilos
      <2>2. PICK p \in Pid : p = Head(cola["COLA_IO"]) /\ Muda(p, "io")
        BY <1>1, <1>5, LugaresIo
      <2>3. En("COLA_IO", p)
        BY <1>1, <2>1, <2>2, CabezaEsta DEF Colas
      <2>4. \A l \in Clases : En(l, p) <=> l = "COLA_IO"
        BY <1>1, <2>3 DEF EnUnLugar, UnaClase, Clases, Colas
      <2>5. ASSUME Retiene(p)
            PROVE  Retiene(p)'
        <3>1. \A l \in ClasesConCupo : ~En(l, p)
          BY <2>4 DEF ClasesConCupo, Clases, Colas
        <3>2. \A n \in 1..MaxIO : hilo[p][n] \notin PcInicioHilo
          BY <2>4 DEF En, Clases, Colas
        <3>3. Esta("BLOCKED", p)
          BY <2>1, <2>5, <3>1, <3>2 DEF Retiene, PcInicioHilo, PcConCupo
        <3>4. En("io", p)'
          BY <2>2 DEF Muda, Clases
        <3>5. QED
          BY <2>1, <3>3, <3>4 DEF Retiene, Esta
      <2>6. ASSUME NEW q \in Pid, Retiene(q), q # p
            PROVE  Retiene(q)'
        <3>1. \A l \in Clases : En(l, q) => En(l, q)'
          BY <2>2, <2>6 DEF Muda
        <3>2. QED
          BY <1>2, <2>1, <2>6, <3>1, RetieneSigue DEF Esta
      <2>7. QED
        BY <2>1, <2>5, <2>6 DEF FueraDeBlocked
<1>6. CASE IoReady \/ IoSuspReady \/ IoOlvida
      <2>1. /\ \/ pc["io"] = "ready" /\ Muda(pcb["io"], "READY")
               \/ pc["io"] \in {"mira", "suspReady"} /\ \E k : Muda(pcb["io"], k)
            /\ pcb["io"] \in Pid /\ UNCHANGED lista
            /\ pc'["io"] \in {"avisa", "post", "postLp", "bloqueo"}
        <3>1. CASE IoReady
          BY <1>1, <3>1, LugaresIo DEF IoReady, Agrega, Paso, Hilos
        <3>2. CASE IoSuspReady
          BY <1>1, <3>2, LugaresIo DEF IoSuspReady, Agrega, Paso, Hilos
        <3>3. CASE IoOlvida
          BY <1>1, <3>3, LugaresIo DEF IoOlvida, Paso, Hilos
        <3>4. QED
          BY <1>6, <3>1, <3>2, <3>3
      <2>2. PICK p \in Pid : p = pcb["io"] /\ \E k : Muda(p, k)
        BY <2>1
      <2>3. Retiene(p) => Retiene(p)'
        <3>1. CASE pc["io"] = "ready"
          <4>1. Muda(p, "READY")
            BY <2>1, <2>2, <3>1
          <4>2. En("READY", p)'
            BY <4>1 DEF Muda, Clases, Colas
          <4>3. QED
            BY <4>2 DEF Retiene, ClasesConCupo
        <3>2. CASE pc["io"] # "ready"
          BY <1>4, <2>1, <2>2, <3>2
        <3>3. QED
          BY <3>1, <3>2
      <2>4. ASSUME NEW q \in Pid, Retiene(q), q # p
            PROVE  Retiene(q)'
        <3>1. \A l \in Clases : En(l, q) => En(l, q)'
          BY <2>2, <2>4 DEF Muda
        <3>2. QED
          BY <1>2, <2>1, <2>2, <2>4, <3>1, RetieneSigue DEF Esta
      <2>5. QED
        BY <2>1, <2>3, <2>4 DEF FueraDeBlocked
<1>7. CASE IoSaca
      <2>1. /\ pc["io"] = "saca" /\ pc'["io"] = "ready" /\ Borrar("BLOCKED", pcb["io"])
            /\ pcb["io"] \in Pid /\ UNCHANGED pcb
        BY <1>1, <1>7 DEF IoSaca, Quita, Paso, TieneProceso, Hilos
      <2>2. \A q \in Pid : q # pcb["io"] => lista'["BLOCKED"][q] = lista["BLOCKED"][q]
        BY <1>1, <2>1 DEF Borrar, Listas
      <2>3. Quedan
        BY <1>1, <2>1, LugaresIo
        DEF IoCola, Extrae, IoReady, IoSuspReady, IoOlvida, Agrega, Paso
      <2>4. ASSUME NEW q \in Pid, Retiene(q)
            PROVE  Retiene(q)'
        <3>1. CASE q = pcb["io"]
          BY <2>1, <3>1 DEF Retiene
        <3>2. CASE q # pcb["io"]
          <4>1. \A l \in Clases : En(l, q) => En(l, q)'
            BY <2>3 DEF Quedan
          <4>2. QED
            BY <1>2, <2>1, <2>2, <2>4, <3>2, <4>1, RetieneSigue DEF Esta
        <3>3. QED
          BY <3>1, <3>2
      <2>5. QED
        BY <2>1, <2>4 DEF FueraDeBlocked
<1>8. CASE ~(IoCola \/ IoReady \/ IoSuspReady \/ IoOlvida \/ IoSaca)
      <2>1. /\ lista'["BLOCKED"] = lista["BLOCKED"] /\ UNCHANGED pcb /\ pc["io"] # "ready"
            /\ \/ pc'["io"] \notin {"mira", "sacaSusp", "suspReady"}
               \/ pc["io"] \in {"mira", "sacaSusp"}
               \/ ~Esta("BLOCKED", pcb["io"])
        BY <1>1, <1>8 DEF planifBloqueados, IoBloqueo, IoTermina, IoMira, IoAvisa, IoPost,
           IoSacaSusp, IoPostLp, Espera, Decide, Quita, Borrar, enviarInterruptCPU,
           Despierta, Paso, Hilos, Listas
      <2>2. Quedan
        BY <1>1, <1>8, LugaresIo
      <2>3. ASSUME NEW q \in Pid, Retiene(q)
            PROVE  Retiene(q)'
        <3>1. \A l \in Clases : En(l, q) => En(l, q)'
          BY <2>2 DEF Quedan
        <3>2. QED
          BY <1>2, <2>1, <2>3, <3>1, RetieneSigue DEF Esta
      <2>4. FueraDeBlocked'
        BY <2>1 DEF EnCupos, FueraDeBlocked, Esta
      <2>5. QED
        BY <2>3, <2>4
<1>9. QED
      BY <1>5, <1>6, <1>7, <1>8

\* The first three steps keep the place, HiloCola takes the process to the
\* queue with it, HiloSaca gives it up and HiloMulti gives it back.
LEMMA CuposHilo ==
    ASSUME EnCupos, EnUnLugar', NEW p \in Pid, NEW n \in 1..MaxIO, hiloSuspendedor(p, n)
    PROVE  FueraDeBlocked' /\ Cupos'
<1>1. /\ sem \in [Semaforos -> Nat] /\ lista \in [Listas -> [Pid -> Nat]]
      /\ hilo \in [Pid -> [1..MaxIO -> PcHilo]] /\ EnUnLugar /\ Tipos /\ Tipos'
      BY DEF EnCupos, EnUnLugar, Procesador, Tipos, TypeOK
<1>2. UNCHANGED <<pc, pcb>> /\ CupoLp' = CupoLp /\ CupoRx' = CupoRx
      BY DEF hiloSuspendedor, HiloExec, HiloProcesador, HiloBlock, HiloCola, HiloBloqueo,
         HiloVence, HiloSaca, HiloAvisa, HiloSusp, HiloMulti, Avanza, CupoLp, CupoRx
<1>3. \A q \in Pid : q # p => lista'["BLOCKED"][q] = lista["BLOCKED"][q]
      BY <1>1 DEF hiloSuspendedor, HiloExec, HiloProcesador, HiloBlock, HiloCola,
         HiloBloqueo, HiloVence, HiloSaca, HiloAvisa, HiloSusp, HiloMulti, Avanza,
         Borrar, Anotar, Listas
<1>4. \A q \in Pid, m \in 1..MaxIO : q # p \/ m # n => hilo'[q][m] = hilo[q][m]
      <2>1. PICK x : hilo' = [hilo EXCEPT ![p][n] = x]
        BY DEF hiloSuspendedor, HiloExec, HiloProcesador, HiloBlock, HiloCola, HiloBloqueo,
           HiloVence, HiloSaca, HiloAvisa, HiloSusp, HiloMulti, Avanza
      <2>2. QED
        BY <1>1, <2>1
<1>5. FueraDeBlocked'
      <2> SUFFICES ASSUME pc["io"] \in {"mira", "sacaSusp", "suspReady"}
                   PROVE  ~Esta("BLOCKED", pcb["io"])'
        BY <1>2 DEF FueraDeBlocked
      <2>1. ~Esta("BLOCKED", pcb["io"]) /\ pcb["io"] \in Pid
        BY <1>1 DEF EnCupos, Tipos, TieneProceso, FueraDeBlocked
      <2>2. CASE HiloBlock(p, n)
        <3>1. hilo[p][n] = "block"
          BY <2>2 DEF HiloBlock, Avanza
        <3>2. En("hilo", p)
          BY <3>1 DEF En, PcInicioHilo
        <3>3. ~En("io", p)
          BY <1>1, <3>2 DEF EnUnLugar, UnaClase, Clases
        <3>4. pcb["io"] # p
          BY <3>3 DEF En
        <3>5. QED
          BY <1>2, <1>3, <2>1, <3>4 DEF Esta
      <2>3. CASE ~HiloBlock(p, n)
        <3>1. Esta("BLOCKED", p)' => Esta("BLOCKED", p)
          BY <1>1, <2>3 DEF hiloSuspendedor, HiloExec, HiloProcesador, HiloCola,
             HiloBloqueo, HiloVence, HiloSaca, HiloAvisa, HiloSusp, HiloMulti, Avanza,
             Borrar, Anotar, Listas, Esta
        <3>2. QED
          BY <1>2, <1>3, <2>1, <3>1 DEF Esta
      <2>4. QED
        BY <2>2, <2>3
<1>6. ASSUME NEW q \in Pid, Retiene(q), q # p
      PROVE  Retiene(q)'
      <2>1. \A l \in Clases : En(l, q) => En(l, q)'
        BY <1>6, LugaresHilo, <1>1 DEF Muda, Quedan
      <2>2. QED
        BY <1>2, <1>3, <1>4, <1>6, <2>1, RetieneSigue DEF Esta
<1>7. /\ CupoSem \in Nat /\ CupoLp \in Nat /\ CupoProceso \in Nat /\ CupoRx \in Nat
      /\ CupoHilo \in Nat
      BY <1>1, CuposEnteros
<1>8. PICK a \in Int, b \in Int, c \in Int, d \in Int, e \in Int :
            /\ a = CupoSem' /\ b = CupoLp' /\ c = CupoProceso' /\ d = CupoRx'
            /\ e = CupoHilo'
      BY <1>1, CuposEnteros
<1>9. b = CupoLp /\ d = CupoRx
      BY <1>2, <1>8
<1>10. ASSUME Retiene(p) => Retiene(p)'
       PROVE  c >= CupoProceso
      BY <1>6, <1>8, <1>10, Conservan
<1>11. ASSUME Retiene(p) => Retiene(p)', CupoSem' = CupoSem, CupoHilo' = CupoHilo
       PROVE  Cupos'
      <2>1. a = CupoSem /\ e = CupoHilo /\ c >= CupoProceso
        BY <1>8, <1>10, <1>11
      <2>2. a + b + c + d + e >= CupoSem + CupoLp + CupoProceso + CupoRx + CupoHilo
        BY <1>7, <1>9, <2>1
      <2>3. QED
        BY <1>1, <1>8, <2>2, CuposSuman
<1>12. CASE HiloExec(p, n) \/ HiloProcesador(p, n) \/ HiloBlock(p, n) \/ HiloCola(p, n)
      <2>1. PICK x : /\ hilo[p][n] \in PcInicioHilo /\ x \in {"procesador", "block", "cola", "bloqueo"}
                     /\ hilo' = [hilo EXCEPT ![p][n] = x]
        BY <1>12 DEF HiloExec, HiloProcesador, HiloBlock, HiloCola, Avanza, PcInicioHilo
      <2>2. CupoHilo' = CupoHilo
        <3>1. hilo[p][n] \in Yendose <=> x \in Yendose
          BY <2>1 DEF PcInicioHilo, Yendose
        <3>2. HilosEn(Yendose)' = HilosEn(Yendose)
          BY <1>1, <2>1, <3>1, HiloQueda
        <3>3. QED
          BY <3>2 DEF CupoHilo
      <2>3. CupoSem' = CupoSem
        BY <1>1, <1>12 DEF HiloExec, HiloProcesador, HiloBlock, HiloCola, Post, CupoSem,
           Semaforos
      <2>4. Retiene(p) => Retiene(p)'
        <3>1. CASE HiloExec(p, n) \/ HiloProcesador(p, n)
          <4>1. hilo'[p][n] \in PcConCupo
            BY <1>1, <3>1 DEF HiloExec, HiloProcesador, Avanza, PcConCupo
          <4>2. QED
            BY <4>1 DEF Retiene
        <3>2. CASE HiloBlock(p, n)
          <4>1. hilo'[p][n] = "cola" /\ lista'["BLOCKED"][p] = lista["BLOCKED"][p] + 1
            BY <1>1, <3>2 DEF HiloBlock, Avanza, Anotar, Listas
          <4>2. lista["BLOCKED"][p] + 1 > 0
            BY <1>1 DEF Listas
          <4>3. QED
            BY <4>1, <4>2 DEF Retiene, Esta
        <3>3. CASE HiloCola(p, n)
          <4>1. Muda(p, "COLA_IO") /\ hilo[p][n] = "cola" /\ UNCHANGED lista
            BY <1>1, <3>3, LugaresHilo DEF HiloCola, Avanza
          <4>2. En("hilo", p)
            BY <4>1 DEF En, PcInicioHilo
          <4>3. \A l \in Clases : En(l, p) <=> l = "hilo"
            BY <1>1, <4>2 DEF EnUnLugar, UnaClase, Clases
          <4>4. \A m \in 1..MaxIO : hilo[p][m] \notin PcConCupo
            BY <1>1, <4>1 DEF EnUnLugar, SinRepetidos, PcInicioHilo, PcConCupo
          <4>5. /\ \A l \in ClasesConCupo : ~En(l, p)
                /\ ~(pcb["io"] = p)
            BY <4>3 DEF ClasesConCupo, Clases, Colas, En
          <4>6. Retiene(p) => Esta("BLOCKED", p)
            BY <4>4, <4>5 DEF Retiene
          <4>7. En("COLA_IO", p)'
            BY <4>1 DEF Muda, Clases, Colas
          <4>8. QED
            BY <4>1, <4>6, <4>7 DEF Retiene, Esta
        <3>4. QED
          BY <1>12, <3>1, <3>2, <3>3
      <2>5. QED
        BY <1>5, <1>11, <2>2, <2>3, <2>4
<1>13. ASSUME hilo[p][n] \notin PcInicioHilo, lista'["BLOCKED"] = lista["BLOCKED"], Quedan
       PROVE  Retiene(p) => Retiene(p)'
      <2>1. ASSUME NEW m \in 1..MaxIO, hilo[p][m] \in PcConCupo \cup {"cola"}
            PROVE  hilo'[p][m] = hilo[p][m]
        <3>1. m # n
          BY <1>13, <2>1 DEF PcInicioHilo, PcConCupo
        <3>2. QED
          BY <1>4, <3>1
      <2>2. QED
        BY <1>2, <1>13, <2>1, RetieneSigue DEF Esta, Quedan
<1>14. CASE HiloBloqueo(p, n) \/ HiloVence(p, n) \/ HiloAvisa(p, n) \/ HiloSusp(p, n)
      <2>1. PICK x : /\ hilo[p][n] \notin PcInicioHilo
                     /\ hilo[p][n] \in Yendose <=> x \in Yendose
                     /\ hilo' = [hilo EXCEPT ![p][n] = x]
        BY <1>14 DEF HiloBloqueo, HiloVence, HiloAvisa, HiloSusp, Avanza, PcInicioHilo, Yendose
      <2>2. CupoHilo' = CupoHilo
        BY <1>1, <2>1, HiloQueda DEF CupoHilo
      <2>3. CupoSem' = CupoSem /\ lista'["BLOCKED"] = lista["BLOCKED"]
        BY <1>1, <1>14 DEF HiloBloqueo, HiloVence, HiloAvisa, HiloSusp, Post, CupoSem,
           Anotar, Semaforos, Listas
      <2>4. Quedan
        BY <1>1, <2>1, LugaresHilo DEF HiloCola, Avanza, PcInicioHilo
      <2>5. QED
        BY <1>5, <1>11, <1>13, <2>1, <2>2, <2>3, <2>4
<1>15. CASE HiloSaca(p, n)
      <2>1. /\ hilo[p][n] = "saca" /\ hilo' = [hilo EXCEPT ![p][n] = "avisa"] /\ UNCHANGED sem
        BY <1>15 DEF HiloSaca, Avanza
      <2>2. CupoHilo' = CupoHilo + 1
        <3>1. hilo[p][n] \notin Yendose /\ "avisa" \in Yendose
          BY <2>1 DEF Yendose
        <3>2. QED
          BY <1>1, <2>1, <3>1, HiloEntra DEF CupoHilo
      <2>3. c >= CupoProceso - 1
        BY <1>6, <1>8, RetieneMenos
      <2>4. a = CupoSem /\ e = CupoHilo + 1
        BY <1>8, <2>1, <2>2 DEF CupoSem
      <2>5. a + b + c + d + e >= CupoSem + CupoLp + CupoProceso + CupoRx + CupoHilo
        BY <1>7, <1>9, <2>3, <2>4
      <2>6. QED
        BY <1>1, <1>5, <1>8, <2>5, CuposSuman
<1>16. CASE HiloMulti(p, n)
      <2>1. /\ hilo[p][n] = "multi" /\ hilo' = [hilo EXCEPT ![p][n] = "fin"]
            /\ UNCHANGED lista /\ CupoSem' = CupoSem + 1
        BY <1>1, <1>16 DEF HiloMulti, Avanza, Post, CupoSem, Semaforos
      <2>2. CupoHilo' = CupoHilo - 1
        <3>1. hilo[p][n] \in Yendose /\ "fin" \notin Yendose
          BY <2>1 DEF Yendose
        <3>2. QED
          BY <1>1, <2>1, <3>1, HiloSale DEF CupoHilo
      <2>3. hilo[p][n] \notin PcInicioHilo /\ Quedan
        BY <1>1, <2>1, LugaresHilo DEF HiloCola, Avanza, PcInicioHilo
      <2>4. c >= CupoProceso
        BY <1>10, <1>13, <2>1, <2>3
      <2>5. a = CupoSem + 1 /\ e = CupoHilo - 1
        BY <1>8, <2>1, <2>2
      <2>6. a + b + c + d + e >= CupoSem + CupoLp + CupoProceso + CupoRx + CupoHilo
        BY <1>7, <1>9, <2>4, <2>5
      <2>7. QED
        BY <1>1, <1>5, <1>8, <2>6, CuposSuman
<1>17. QED
      BY <1>5, <1>12, <1>14, <1>15, <1>16 DEF hiloSuspendedor

LEMMA CuposInit == Init => EnCupos
<1> SUFFICES ASSUME Init
             PROVE  EnCupos
    OBVIOUS
<1>1. EnUnLugar /\ FueraDeBlocked
      BY EnUnLugarInit DEF Init, FueraDeBlocked
<1>2. /\ CupoSem = GRADO_MULTIPROGRAMACION /\ CupoLp = 0 /\ CupoRx = 0
      /\ GRADO_MULTIPROGRAMACION \in Nat
      BY GradoPositivo DEF Init, CupoSem, CupoLp, CupoRx, Semaforos, Si
<1>3. CupoProceso \in Nat /\ CupoHilo \in Nat
      BY RetienenFinito, FS_CardinalityType, CupoHiloNatural DEF CupoProceso
<1>4. QED
      BY <1>1, <1>2, <1>3 DEF EnCupos, Cupos

LEMMA CuposNext == EnCupos /\ [Next]_vars => EnCupos'
<1> SUFFICES ASSUME EnCupos, [Next]_vars
             PROVE  EnCupos'
    OBVIOUS
<1>1. EnUnLugar'
      BY EnUnLugarNext DEF EnCupos
<1>2. FueraDeBlocked' /\ Cupos'
      BY <1>1, CuposLp, CuposCp, CuposRx, CuposHilo, CuposIo, CuposCpu, CuposCrear,
         CuposQuieto DEF Next
<1>3. QED
      BY <1>1, <1>2 DEF EnCupos

\* What keeps a place takes one.
LEMMA CuposAlcanzan == EnCupos => CuposNoSePierden
<1> SUFFICES ASSUME EnCupos
             PROVE  CuposNoSePierden
    OBVIOUS
<1> DEFINE Ocupan == {p \in Pid : Ocupa(p)}
<1>1. ASSUME NEW p \in Pid, Retiene(p)
      PROVE  Ocupa(p)
      BY <1>1 DEF Retiene, Ocupa, En, Colas, ClasesConCupo, PcConCupo, PcInicioHilo
<1>2. Retienen \subseteq Ocupan /\ IsFiniteSet(Ocupan)
      BY <1>1, ProcesosFinitos, FS_Subset DEF Retienen
<1>3. CupoProceso <= Cardinality(Ocupan) /\ Cardinality(Ocupan) \in Nat
      BY <1>2, FS_Subset, FS_CardinalityType DEF CupoProceso
<1>4. /\ CupoSem \in Nat /\ CupoLp \in {0, 1} /\ CupoProceso \in Nat
      /\ CupoRx \in {0, 1} /\ CupoHilo \in Nat
      <2>1. Tipos
        BY DEF EnCupos, EnUnLugar, Procesador
      <2>2. QED
        BY <2>1, RetienenFinito, FS_CardinalityType, CupoHiloNatural
        DEF Tipos, TypeOK, Semaforos, CupoSem, CupoLp, CupoRx, CupoProceso, Si
<1>5. GRADO_MULTIPROGRAMACION \in Nat
      BY GradoPositivo
<1>6. CupoSem + CupoLp + Cardinality(Ocupan) + CupoRx + CupoHilo >= GRADO_MULTIPROGRAMACION
      <2>1. CupoSem + CupoLp + CupoProceso + CupoRx + CupoHilo >= GRADO_MULTIPROGRAMACION
        BY DEF EnCupos, Cupos
      <2>2. QED
        BY <1>3, <1>4, <1>5, <2>1
<1>7. QED
      BY <1>6 DEF CuposNoSePierden, CupoSem, CupoLp, CupoRx, CupoHilo, Yendose

\* Every place of the degree of multiprogramming is accounted for in every
\* run, whichever of planifBloqueados and hiloSuspendedor wins a process that
\* comes out of BLOCKED: none leaks.
THEOREM NingunCupoSePierde == Spec => []CuposNoSePierden
BY CuposInit, CuposNext, CuposAlcanzan, PTL DEF Spec

=============================================================================
