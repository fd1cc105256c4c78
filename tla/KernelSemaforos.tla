-------------------------- MODULE KernelSemaforos --------------------------
(***************************************************************************)
(* A thread that a semaphore lets through finds what it waits for:         *)
(* SinPCBNulo holds of every instance of the Kernel.                       *)
(*                                                                         *)
(* sem_ready, sem_planif_largo_plazo and sem_bloqueo count what is in      *)
(* LISTA_READY, in LISTA_NEW and LISTA_READY_SUSPENDED together, and in    *)
(* COLA_BLOQUEO_IO, up to the threads that have added and not yet posted   *)
(* or have waited and not yet removed.                                     *)
(***************************************************************************)
EXTENDS KernelProofs

CreandoPost == {p \in Pid : crear[p] = "post"}

\* What is queued.
QReady == Len(cola["READY"])
QNew == Len(cola["NEW"])
QSusp == Len(cola["READY_SUSPENDED"])
QIO == Len(cola["COLA_IO"])

\* What the semaphores say.
SReady == sem["ready"]
SPlanif == sem["planif_largo_plazo"]
SIO == sem["bloqueo"]

\* The threads on their way between a list and its semaphore.
ACp == Si(pc["cp"] \in {"procesador", "elige", "quita"})
ALp == Si(pc["lp"] \in {"avisa", "post"})
ARx == Si(pc["rx"] = "intSem")
AIo == Si(pc["io"] \in {"avisa", "post"})
BLp == Si(pc["lp"] \in {"multi", "elige", "new", "susp"})
BCr == Cardinality(CreandoPost)
BIo == Si(pc["io"] = "postLp")
CIo == Si(pc["io"] = "cola")
CHi == Cardinality(HilosEn({"bloqueo"}))

Cuentas ==
    /\ QReady = SReady + ACp + ALp + ARx + AIo
    /\ QNew + QSusp = SPlanif + BLp + BCr + BIo
    /\ QIO = SIO + CIo + CHi

\* The list that planifLargoPlazo chose is still the one to take from.
Elegida == (pc["lp"] = "susp" => QSusp > 0) /\ (pc["lp"] = "new" => QNew > 0)

Turnos == Cuentas /\ Elegida

colas == <<QReady, QNew, QSusp, QIO>>
semaforos == <<SReady, SPlanif, SIO>>

-----------------------------------------------------------------------------
(* Queues and counts.                                                      *)

LEMMA CreandoFinito == IsFiniteSet(CreandoPost)
BY ProcesosFinitos, FS_Subset DEF CreandoPost

LEMMA Bases ==
    ASSUME Procesador
    PROVE  /\ cola \in [Colas -> Seq(Pid)] /\ sem \in [Semaforos -> Nat]
           /\ crear \in [Pid -> PcCrear] /\ hilo \in [Pid -> [1..MaxIO -> PcHilo]]
           /\ DOMAIN pc = Hilos
           /\ pc["lp"] \in PcLp /\ pc["cp"] \in PcCp /\ pc["rx"] \in PcRx /\ pc["io"] \in PcIo
BY DEF Procesador, Tipos, TypeOK

LEMMA Numeros ==
    ASSUME Procesador
    PROVE  /\ QReady \in Nat /\ QNew \in Nat /\ QSusp \in Nat /\ QIO \in Nat
           /\ SReady \in Nat /\ SPlanif \in Nat /\ SIO \in Nat
           /\ ACp \in {0, 1} /\ ALp \in {0, 1} /\ ARx \in {0, 1} /\ AIo \in {0, 1}
           /\ BLp \in {0, 1} /\ BCr \in Nat /\ BIo \in {0, 1}
           /\ CIo \in {0, 1} /\ CHi \in Nat
<1>1. QReady \in Nat /\ QNew \in Nat /\ QSusp \in Nat /\ QIO \in Nat
      BY Bases DEF Colas, QReady, QNew, QSusp, QIO
<1>2. SReady \in Nat /\ SPlanif \in Nat /\ SIO \in Nat
      BY Bases DEF Semaforos, SReady, SPlanif, SIO
<1>3. /\ ACp \in {0, 1} /\ ALp \in {0, 1} /\ ARx \in {0, 1} /\ AIo \in {0, 1}
      /\ BLp \in {0, 1} /\ BIo \in {0, 1} /\ CIo \in {0, 1}
      BY DEF ACp, ALp, ARx, AIo, BLp, BIo, CIo, Si
<1>4. BCr \in Nat /\ CHi \in Nat
      BY CreandoFinito, HilosFinitos, FS_CardinalityType DEF BCr, CHi
<1>5. QED
      BY <1>1, <1>2, <1>3, <1>4

LEMMA EncolarLargo ==
    ASSUME NEW c \in Colas, NEW p \in Pid, Encolar(c, p), cola \in [Colas -> Seq(Pid)]
    PROVE  \A d \in Colas : Len(cola'[d]) = IF d = c THEN Len(cola[d]) + 1 ELSE Len(cola[d])
BY DEF Encolar

LEMMA SacarLargo ==
    ASSUME NEW c \in Colas, cola[c] # <<>>, SacarPrimero(c), cola \in [Colas -> Seq(Pid)]
    PROVE  \A d \in Colas : Len(cola'[d]) = IF d = c THEN Len(cola[d]) - 1 ELSE Len(cola[d])
<1>1. Len(Tail(cola[c])) = Len(cola[c]) - 1
      OBVIOUS
<1>2. QED
      BY <1>1 DEF SacarPrimero

\* The step of a thread t from a to b leaves every other thread where it is.
LEMMA PasoSolo ==
    ASSUME Procesador, NEW t \in Hilos, NEW a, NEW b, Paso(t, a, b)
    PROVE  pc[t] = a /\ pc'[t] = b /\ \A u \in Hilos \ {t} : pc'[u] = pc[u]
BY Bases DEF Paso

\* What the counts take from each thread, and what they take from the lists.
LEMMA Quietos ==
    /\ pc'["cp"] = pc["cp"] => ACp' = ACp
    /\ pc'["lp"] = pc["lp"] => ALp' = ALp /\ BLp' = BLp
    /\ pc'["rx"] = pc["rx"] => ARx' = ARx
    /\ pc'["io"] = pc["io"] => AIo' = AIo /\ BIo' = BIo /\ CIo' = CIo
    /\ crear' = crear => BCr' = BCr
    /\ hilo' = hilo => CHi' = CHi
    /\ cola' = cola => UNCHANGED colas
    /\ sem' = sem => UNCHANGED semaforos
BY DEF ACp, ALp, ARx, AIo, BLp, BCr, BIo, CIo, CHi, CreandoPost, HilosEn, colas, semaforos,
   QReady, QNew, QSusp, QIO, SReady, SPlanif, SIO

-----------------------------------------------------------------------------
(* The threads.                                                            *)

LEMMA TurnosLp == ASSUME Procesador, Turnos, planifLargoPlazo PROVE Turnos'
<1>1. UNCHANGED <<ACp, ARx, AIo, BCr, BIo, CIo, CHi>>
      <2>1. crear' = crear /\ hilo' = hilo /\ \A u \in Hilos \ {"lp"} : pc'[u] = pc[u]
        BY PasoSolo DEF planifLargoPlazo, LpPlanif, LpMulti, LpElige, LpSacaNew,
        LpSacaSusp, LpRespNew, LpRespSusp, LpMide, LpReady, LpReadyAvisa, LpAvisa,
        LpPost, Espera, Decide, LpSaca, LpRespuesta, Agrega, enviarInterruptCPU,
        Despierta, porProceso, Hilos
      <2>2. QED
        BY <2>1, Quietos DEF Hilos
<1>2. CASE LpPlanif
      <2>1. pc["lp"] = "planif" /\ pc'["lp"] = "multi"
        BY <1>2, PasoSolo DEF LpPlanif, Espera, Hilos
      <2>2. ALp' = ALp /\ BLp = 0 /\ BLp' = 1
        BY <2>1 DEF Si, ALp, BLp
      <2>3. UNCHANGED colas
        BY <1>2, Quietos DEF LpPlanif, Espera
      <2>4. SPlanif' = SPlanif - 1 /\ UNCHANGED <<SReady, SIO>>
        BY <1>2, Bases DEF LpPlanif, Espera, Wait, Semaforos, SReady, SPlanif, SIO
      <2>5. QED
        BY <1>1, <2>1, <2>2, <2>3, <2>4, Numeros DEF Turnos, Cuentas, Elegida, colas,
        semaforos
<1>3. CASE LpMulti
      <2>1. UNCHANGED <<ALp, BLp>>
        BY <1>3, PasoSolo DEF LpMulti, Espera, Hilos, Si, ALp, BLp
      <2>2. UNCHANGED colas
        BY <1>3, Quietos DEF LpMulti, Espera
      <2>3. UNCHANGED semaforos
        BY <1>3, Bases DEF LpMulti, Espera, Wait, Semaforos, semaforos, SReady,
        SPlanif, SIO
      <2>4. pc'["lp"] \notin {"susp", "new"}
        BY <1>3, PasoSolo DEF LpMulti, Espera, Hilos
      <2>5. QED
        BY <1>1, <2>1, <2>2, <2>3, <2>4, Numeros DEF Turnos, Cuentas, Elegida, colas,
        semaforos
<1>4. CASE LpElige
      <2>1. UNCHANGED colas /\ UNCHANGED semaforos
        BY <1>4, Quietos DEF LpElige, Decide
      <2>2. pc["lp"] = "elige" /\ pc'["lp"] = IF cola["READY_SUSPENDED"] # <<>> THEN "susp" ELSE "new"
        BY <1>4, PasoSolo DEF LpElige, Decide, Hilos
      <2>3. ALp' = ALp /\ BLp' = BLp /\ BLp = 1
        BY <2>2 DEF ALp, BLp, Si
      <2>4. pc'["lp"] = IF QSusp > 0 THEN "susp" ELSE "new"
        BY <2>2, Bases DEF QSusp, Colas
      <2>5. QNew + QSusp > 0
        BY <2>3, Numeros DEF Turnos, Cuentas
      <2>6. QED
        BY <1>1, <2>1, <2>3, <2>4, <2>5, Numeros DEF Turnos, Cuentas, Elegida, colas, semaforos
<1>5. CASE LpSacaNew
      <2>1. pc["lp"] = "new" /\ pc'["lp"] = "respNew"
        BY <1>5, PasoSolo DEF LpSacaNew, LpSaca, Hilos
      <2>2. ALp' = ALp /\ BLp = 1 /\ BLp' = 0
        BY <2>1 DEF Si, ALp, BLp
      <2>3. QNew' = QNew - 1 /\ UNCHANGED <<QReady, QSusp, QIO>>
        BY <1>5, Bases, SacarLargo DEF LpSacaNew, LpSaca, Colas, QReady, QNew, QSusp,
        QIO
      <2>4. UNCHANGED semaforos
        BY <1>5, Quietos DEF LpSacaNew, LpSaca
      <2>5. QED
        BY <1>1, <2>1, <2>2, <2>3, <2>4, Numeros DEF Turnos, Cuentas, Elegida, colas,
        semaforos
<1>6. CASE LpSacaSusp
      <2>1. pc["lp"] = "susp" /\ pc'["lp"] = "respSusp"
        BY <1>6, PasoSolo DEF LpSacaSusp, LpSaca, Hilos
      <2>2. ALp' = ALp /\ BLp = 1 /\ BLp' = 0
        BY <2>1 DEF Si, ALp, BLp
      <2>3. QSusp' = QSusp - 1 /\ UNCHANGED <<QReady, QNew, QIO>>
        BY <1>6, Bases, SacarLargo DEF LpSacaSusp, LpSaca, Colas, QReady, QNew, QSusp,
        QIO
      <2>4. UNCHANGED semaforos
        BY <1>6, Quietos DEF LpSacaSusp, LpSaca
      <2>5. QED
        BY <1>1, <2>1, <2>2, <2>3, <2>4, Numeros DEF Turnos, Cuentas, Elegida, colas,
        semaforos
<1>7. CASE LpRespNew \/ LpRespSusp
      <2>1. UNCHANGED <<ALp, BLp>>
        BY <1>7, PasoSolo DEF LpRespNew, LpRespSusp, LpRespuesta, Hilos, Si, ALp, BLp
      <2>2. UNCHANGED colas
        BY <1>7, Quietos DEF LpRespNew, LpRespSusp, LpRespuesta
      <2>3. UNCHANGED semaforos
        BY <1>7, Quietos DEF LpRespNew, LpRespSusp, LpRespuesta
      <2>4. pc'["lp"] \notin {"susp", "new"}
        BY <1>7, PasoSolo DEF LpRespNew, LpRespSusp, LpRespuesta, Hilos
      <2>5. QED
        BY <1>1, <2>1, <2>2, <2>3, <2>4, Numeros DEF Turnos, Cuentas, Elegida, colas,
        semaforos
<1>8. CASE LpMide
      <2>1. UNCHANGED <<ALp, BLp>>
        BY <1>8, PasoSolo DEF LpMide, Decide, Hilos, Si, ALp, BLp
      <2>2. UNCHANGED colas
        BY <1>8, Quietos DEF LpMide, Decide
      <2>3. UNCHANGED semaforos
        BY <1>8, Quietos DEF LpMide, Decide
      <2>4. pc'["lp"] \notin {"susp", "new"}
        BY <1>8, PasoSolo DEF LpMide, Decide, Hilos
      <2>5. QED
        BY <1>1, <2>1, <2>2, <2>3, <2>4, Numeros DEF Turnos, Cuentas, Elegida, colas,
        semaforos
<1>9. CASE LpReady
      <2>1. pc["lp"] = "ready" /\ pc'["lp"] = "post"
        BY <1>9, PasoSolo DEF LpReady, Agrega, Hilos
      <2>2. ALp = 0 /\ ALp' = 1 /\ BLp' = BLp
        BY <2>1 DEF Si, ALp, BLp
      <2>3. pcb["lp"] \in Pid
        BY <2>1 DEF Procesador, Tipos, TieneProceso, Avisos
      <2>4. QReady' = QReady + 1 /\ UNCHANGED <<QNew, QSusp, QIO>>
        BY <1>9, Bases, <2>3, EncolarLargo DEF LpReady, Agrega, Colas, QReady, QNew,
        QSusp, QIO
      <2>5. UNCHANGED semaforos
        BY <1>9, Quietos DEF LpReady, Agrega
      <2>6. QED
        BY <1>1, <2>1, <2>2, <2>4, <2>5, Numeros DEF Turnos, Cuentas, Elegida, colas,
        semaforos
<1>10. CASE LpReadyAvisa
      <2>1. pc["lp"] = "readyAvisa" /\ pc'["lp"] = "avisa"
        BY <1>10, PasoSolo DEF LpReadyAvisa, Agrega, Hilos
      <2>2. ALp = 0 /\ ALp' = 1 /\ BLp' = BLp
        BY <2>1 DEF Si, ALp, BLp
      <2>3. pcb["lp"] \in Pid
        BY <2>1 DEF Procesador, Tipos, TieneProceso, Avisos
      <2>4. QReady' = QReady + 1 /\ UNCHANGED <<QNew, QSusp, QIO>>
        BY <1>10, Bases, <2>3, EncolarLargo DEF LpReadyAvisa, Agrega, Colas, QReady,
        QNew, QSusp, QIO
      <2>5. UNCHANGED semaforos
        BY <1>10, Quietos DEF LpReadyAvisa, Agrega
      <2>6. QED
        BY <1>1, <2>1, <2>2, <2>4, <2>5, Numeros DEF Turnos, Cuentas, Elegida, colas,
        semaforos
<1>11. CASE LpAvisa
      <2>1. UNCHANGED <<ALp, BLp>>
        BY <1>11, PasoSolo DEF LpAvisa, enviarInterruptCPU, Hilos, Si, ALp, BLp
      <2>2. UNCHANGED colas
        BY <1>11, Quietos DEF LpAvisa, enviarInterruptCPU
      <2>3. UNCHANGED semaforos
        BY <1>11, Quietos DEF LpAvisa, enviarInterruptCPU
      <2>4. pc'["lp"] \notin {"susp", "new"}
        BY <1>11, PasoSolo DEF LpAvisa, enviarInterruptCPU, Hilos
      <2>5. QED
        BY <1>1, <2>1, <2>2, <2>3, <2>4, Numeros DEF Turnos, Cuentas, Elegida, colas,
        semaforos
<1>12. CASE LpPost
      <2>1. pc["lp"] = "post" /\ pc'["lp"] = "planif"
        BY <1>12, PasoSolo DEF LpPost, Despierta, Hilos
      <2>2. ALp = 1 /\ ALp' = 0 /\ BLp' = BLp
        BY <2>1 DEF Si, ALp, BLp
      <2>3. UNCHANGED colas
        BY <1>12, Quietos DEF LpPost, Despierta
      <2>4. SReady' = SReady + 1 /\ UNCHANGED <<SPlanif, SIO>>
        BY <1>12, Bases DEF LpPost, Despierta, Post, Semaforos, SReady, SPlanif, SIO
      <2>5. QED
        BY <1>1, <2>1, <2>2, <2>3, <2>4, Numeros DEF Turnos, Cuentas, Elegida, colas,
        semaforos
<1>13. QED
      BY <1>2, <1>3, <1>4, <1>5, <1>6, <1>7, <1>8, <1>9, <1>10, <1>11, <1>12 DEF planifLargoPlazo

LEMMA TurnosCp == ASSUME Procesador, Turnos, planifCortoPlazo PROVE Turnos'
<1>1. UNCHANGED <<ALp, ARx, AIo, BLp, BCr, BIo, CIo, CHi>> /\ pc'["lp"] = pc["lp"]
      <2>1. crear' = crear /\ hilo' = hilo /\ \A u \in Hilos \ {"cp"} : pc'[u] = pc[u]
        BY PasoSolo DEF planifCortoPlazo, CpReady, CpProcesador, algoritmo_FIFO,
        algoritmo_SRT, CpQuita, CpExec, CpDespacha, Espera, Extrae, porProceso, Hilos
      <2>2. QED
        BY <2>1, Quietos DEF Hilos
<1>2. CASE CpReady
      <2>1. pc["cp"] = "ready" /\ pc'["cp"] = "procesador"
        BY <1>2, PasoSolo DEF CpReady, Espera, Hilos
      <2>2. ACp = 0 /\ ACp' = 1
        BY <2>1 DEF Si, ACp
      <2>3. UNCHANGED colas
        BY <1>2, Quietos DEF CpReady, Espera
      <2>4. SReady' = SReady - 1 /\ UNCHANGED <<SPlanif, SIO>>
        BY <1>2, Bases DEF CpReady, Espera, Wait, Semaforos, SReady, SPlanif, SIO
      <2>5. QED
        BY <1>1, <2>1, <2>2, <2>3, <2>4, Numeros DEF Turnos, Cuentas, Elegida, colas,
        semaforos
<1>3. CASE CpProcesador
      <2>1. UNCHANGED <<ACp>>
        BY <1>3, PasoSolo DEF CpProcesador, Espera, Hilos, Si, ACp
      <2>2. UNCHANGED colas
        BY <1>3, Quietos DEF CpProcesador, Espera
      <2>3. UNCHANGED semaforos
        BY <1>3, Bases DEF CpProcesador, Espera, Wait, Semaforos, semaforos, SReady,
        SPlanif, SIO
      <2>4. QED
        BY <1>1, <2>1, <2>2, <2>3, Numeros DEF Turnos, Cuentas, Elegida, colas,
        semaforos
<1>4. CASE algoritmo_FIFO
      <2>1. pc["cp"] = "elige" /\ pc'["cp"] = "exec"
        BY <1>4, PasoSolo DEF algoritmo_FIFO, Extrae, Hilos
      <2>2. ACp = 1 /\ ACp' = 0
        BY <2>1 DEF Si, ACp
      <2>3. QReady' = QReady - 1 /\ UNCHANGED <<QNew, QSusp, QIO>>
        BY <1>4, Bases, SacarLargo DEF algoritmo_FIFO, Extrae, Colas, QReady, QNew,
        QSusp, QIO
      <2>4. UNCHANGED semaforos
        BY <1>4, Quietos DEF algoritmo_FIFO, Extrae
      <2>5. QED
        BY <1>1, <2>1, <2>2, <2>3, <2>4, Numeros DEF Turnos, Cuentas, Elegida, colas,
        semaforos
<1>5. CASE algoritmo_SRT
      <2>1. UNCHANGED <<ACp>>
        BY <1>5, PasoSolo DEF algoritmo_SRT, Hilos, Si, ACp
      <2>2. UNCHANGED colas
        BY <1>5, Quietos DEF algoritmo_SRT
      <2>3. UNCHANGED semaforos
        BY <1>5, Quietos DEF algoritmo_SRT
      <2>4. QED
        BY <1>1, <2>1, <2>2, <2>3, Numeros DEF Turnos, Cuentas, Elegida, colas,
        semaforos
<1>6. CASE CpQuita
      <2>1. pc["cp"] = "quita" /\ pc'["cp"] = "exec"
        BY <1>6, PasoSolo DEF CpQuita, Hilos
      <2>2. ACp = 1 /\ ACp' = 0
        BY <2>1 DEF Si, ACp
      <2>3. PICK i \in DOMAIN cola["READY"] :
                cola' = [cola EXCEPT !["READY"] = RemoveAt(@, i)]
        BY <1>6 DEF CpQuita
      <2>4. Len(RemoveAt(cola["READY"], i)) = Len(cola["READY"]) - 1
        BY Bases, QuitarUno DEF Colas
      <2>5. QReady' = QReady - 1 /\ UNCHANGED <<QNew, QSusp, QIO>>
        BY <2>3, <2>4, Bases DEF Colas, QReady, QNew, QSusp, QIO
      <2>6. UNCHANGED semaforos
        BY <1>6, Quietos DEF CpQuita
      <2>7. QED
        BY <1>1, <2>2, <2>5, <2>6, Numeros DEF Turnos, Cuentas, Elegida, semaforos
<1>7. CASE CpExec \/ CpDespacha
      <2>1. UNCHANGED <<ACp>>
        BY <1>7, PasoSolo DEF CpExec, CpDespacha, Hilos, Si, ACp
      <2>2. UNCHANGED colas
        BY <1>7, Quietos DEF CpExec, CpDespacha
      <2>3. UNCHANGED semaforos
        BY <1>7, Quietos DEF CpExec, CpDespacha
      <2>4. QED
        BY <1>1, <2>1, <2>2, <2>3, Numeros DEF Turnos, Cuentas, Elegida, colas,
        semaforos
<1>8. QED
      BY <1>2, <1>3, <1>4, <1>5, <1>6, <1>7 DEF planifCortoPlazo

LEMMA TurnosRx == ASSUME Procesador, Turnos, recibirMensajeCPU PROVE Turnos'
<1>1. UNCHANGED <<ACp, ALp, AIo, BLp, BCr, BIo, CIo, CHi>> /\ pc'["lp"] = pc["lp"]
      <2>1. crear' = crear /\ \A u \in Hilos \ {"rx"} : pc'[u] = pc[u]
        BY PasoSolo DEF recibirMensajeCPU, RxRecibe, RxBlock, RxExit,
        RxExitProcesador, RxExitAvisa, RxExitLista, RxExitMulti, RxInterrupt,
        RxIntReady, RxIntSem, RxIntProcesador, Quita, Despierta, Agrega, porProceso,
        Hilos
      <2>2. CHi' = CHi
        <3>1. CASE RxBlock
          <4>1. pcb["rx"] \in Pid /\ SinHilo(pcb["rx"])
            BY <3>1, PasoSolo DEF RxBlock, Hilos, Procesador, Tipos, TieneProceso, Frescos, Avisos
          <4>2. HilosEn({"bloqueo"})' = HilosEn({"bloqueo"})
            BY <3>1, <4>1, Bases, HiloQueda DEF RxBlock, SinHilo
          <4>3. QED
            BY <4>2 DEF CHi
        <3>2. CASE ~RxBlock
          BY <3>2, Quietos DEF recibirMensajeCPU, RxRecibe, RxExit, RxExitProcesador,
             RxExitAvisa, RxExitLista, RxExitMulti, RxInterrupt, RxIntReady, RxIntSem,
             RxIntProcesador, Quita, Despierta, Agrega, porProceso
        <3>3. QED
          BY <3>1, <3>2
      <2>3. QED
        BY <2>1, <2>2, Quietos DEF Hilos
<1>2. CASE RxRecibe
      <2>1. Head(respuesta) \in [op : Avisos, pcb : Pid]
        BY <1>2, CabezaCola DEF RxRecibe, Procesador, Tipos, TypeOK
      <2>2. pc["rx"] = "recibe" /\ pc'["rx"] \in Avisos
        BY <1>2, <2>1, PasoSolo DEF RxRecibe, Hilos
      <2>3. ARx' = ARx
        BY <2>2 DEF ARx, Si, Avisos
      <2>4. UNCHANGED colas /\ UNCHANGED semaforos
        BY <1>2, Quietos DEF RxRecibe
      <2>5. QED
        BY <1>1, <2>3, <2>4, Numeros DEF Turnos, Cuentas, Elegida, colas, semaforos
<1>3. CASE RxBlock
      <2>1. UNCHANGED <<ARx>>
        BY <1>3, PasoSolo DEF RxBlock, Hilos, Si, ARx
      <2>2. UNCHANGED colas
        BY <1>3, Quietos DEF RxBlock
      <2>3. UNCHANGED semaforos
        BY <1>3, Quietos DEF RxBlock
      <2>4. QED
        BY <1>1, <2>1, <2>2, <2>3, Numeros DEF Turnos, Cuentas, Elegida, colas,
        semaforos
<1>4. CASE RxExit
      <2>1. UNCHANGED <<ARx>>
        BY <1>4, PasoSolo DEF RxExit, Quita, Hilos, Si, ARx
      <2>2. UNCHANGED colas
        BY <1>4, Quietos DEF RxExit, Quita
      <2>3. UNCHANGED semaforos
        BY <1>4, Quietos DEF RxExit, Quita
      <2>4. QED
        BY <1>1, <2>1, <2>2, <2>3, Numeros DEF Turnos, Cuentas, Elegida, colas,
        semaforos
<1>5. CASE RxExitProcesador \/ RxExitMulti \/ RxIntProcesador
      <2>1. UNCHANGED <<ARx>>
        BY <1>5, PasoSolo DEF RxExitProcesador, RxExitMulti, RxIntProcesador,
        Despierta, Hilos, Si, ARx
      <2>2. UNCHANGED colas
        BY <1>5, Quietos DEF RxExitProcesador, RxExitMulti, RxIntProcesador, Despierta
      <2>3. UNCHANGED semaforos
        BY <1>5, Bases DEF RxExitProcesador, RxExitMulti, RxIntProcesador, Despierta,
        Post, Semaforos, semaforos, SReady, SPlanif, SIO
      <2>4. QED
        BY <1>1, <2>1, <2>2, <2>3, Numeros DEF Turnos, Cuentas, Elegida, colas,
        semaforos
<1>6. CASE RxExitAvisa \/ RxExitLista \/ RxInterrupt
      <2>1. UNCHANGED <<ARx>>
        BY <1>6, PasoSolo DEF RxExitAvisa, RxExitLista, RxInterrupt, Hilos, Si, ARx
      <2>2. UNCHANGED colas
        BY <1>6, Quietos DEF RxExitAvisa, RxExitLista, RxInterrupt
      <2>3. UNCHANGED semaforos
        BY <1>6, Quietos DEF RxExitAvisa, RxExitLista, RxInterrupt
      <2>4. QED
        BY <1>1, <2>1, <2>2, <2>3, Numeros DEF Turnos, Cuentas, Elegida, colas,
        semaforos
<1>7. CASE RxIntReady
      <2>1. pc["rx"] = "intReady" /\ pc'["rx"] = "intSem"
        BY <1>7, PasoSolo DEF RxIntReady, Agrega, Hilos
      <2>2. ARx = 0 /\ ARx' = 1
        BY <2>1 DEF Si, ARx
      <2>3. pcb["rx"] \in Pid
        BY <2>1 DEF Procesador, Tipos, TieneProceso, Avisos
      <2>4. QReady' = QReady + 1 /\ UNCHANGED <<QNew, QSusp, QIO>>
        BY <1>7, Bases, <2>3, EncolarLargo DEF RxIntReady, Agrega, Colas, QReady,
        QNew, QSusp, QIO
      <2>5. UNCHANGED semaforos
        BY <1>7, Quietos DEF RxIntReady, Agrega
      <2>6. QED
        BY <1>1, <2>1, <2>2, <2>4, <2>5, Numeros DEF Turnos, Cuentas, Elegida, colas,
        semaforos
<1>8. CASE RxIntSem
      <2>1. pc["rx"] = "intSem" /\ pc'["rx"] = "intProcesador"
        BY <1>8, PasoSolo DEF RxIntSem, Despierta, Hilos
      <2>2. ARx = 1 /\ ARx' = 0
        BY <2>1 DEF Si, ARx
      <2>3. UNCHANGED colas
        BY <1>8, Quietos DEF RxIntSem, Despierta
      <2>4. SReady' = SReady + 1 /\ UNCHANGED <<SPlanif, SIO>>
        BY <1>8, Bases DEF RxIntSem, Despierta, Post, Semaforos, SReady, SPlanif, SIO
      <2>5. QED
        BY <1>1, <2>1, <2>2, <2>3, <2>4, Numeros DEF Turnos, Cuentas, Elegida, colas,
        semaforos
<1>9. QED
      BY <1>2, <1>3, <1>4, <1>5, <1>6, <1>7, <1>8 DEF recibirMensajeCPU

LEMMA TurnosIo == ASSUME Procesador, Turnos, planifBloqueados PROVE Turnos'
<1>1. UNCHANGED <<ACp, ALp, ARx, BLp, BCr, CHi>> /\ pc'["lp"] = pc["lp"]
      <2>1. crear' = crear /\ hilo' = hilo /\ \A u \in Hilos \ {"io"} : pc'[u] = pc[u]
        BY PasoSolo DEF planifBloqueados, IoBloqueo, IoCola, IoTermina, IoMira,
        IoOlvida, IoSaca, IoReady, IoAvisa, IoPost, IoSacaSusp, IoSuspReady, IoPostLp,
        Espera, Extrae, Decide, Quita, Agrega, enviarInterruptCPU, Despierta,
        porProceso, Hilos
      <2>2. QED
        BY <2>1, Quietos DEF Hilos
<1>2. CASE IoBloqueo
      <2>1. pc["io"] = "bloqueo" /\ pc'["io"] = "cola"
        BY <1>2, PasoSolo DEF IoBloqueo, Espera, Hilos
      <2>2. AIo' = AIo /\ BIo' = BIo /\ CIo = 0 /\ CIo' = 1
        BY <2>1 DEF Si, AIo, BIo, CIo
      <2>3. UNCHANGED colas
        BY <1>2, Quietos DEF IoBloqueo, Espera
      <2>4. SIO' = SIO - 1 /\ UNCHANGED <<SReady, SPlanif>>
        BY <1>2, Bases DEF IoBloqueo, Espera, Wait, Semaforos, SReady, SPlanif, SIO
      <2>5. QED
        BY <1>1, <2>1, <2>2, <2>3, <2>4, Numeros DEF Turnos, Cuentas, Elegida, colas,
        semaforos
<1>3. CASE IoCola
      <2>1. pc["io"] = "cola" /\ pc'["io"] = "duerme"
        BY <1>3, PasoSolo DEF IoCola, Extrae, Hilos
      <2>2. AIo' = AIo /\ BIo' = BIo /\ CIo = 1 /\ CIo' = 0
        BY <2>1 DEF Si, AIo, BIo, CIo
      <2>3. QIO' = QIO - 1 /\ UNCHANGED <<QReady, QNew, QSusp>>
        BY <1>3, Bases, SacarLargo DEF IoCola, Extrae, Colas, QReady, QNew, QSusp, QIO
      <2>4. UNCHANGED semaforos
        BY <1>3, Quietos DEF IoCola, Extrae
      <2>5. QED
        BY <1>1, <2>1, <2>2, <2>3, <2>4, Numeros DEF Turnos, Cuentas, Elegida, colas,
        semaforos
<1>4. CASE IoTermina \/ IoMira
      <2>1. UNCHANGED <<AIo, BIo, CIo>>
        BY <1>4, PasoSolo DEF IoTermina, IoMira, Decide, Hilos, Si, AIo, BIo, CIo
      <2>2. UNCHANGED colas
        BY <1>4, Quietos DEF IoTermina, IoMira, Decide
      <2>3. UNCHANGED semaforos
        BY <1>4, Quietos DEF IoTermina, IoMira, Decide
      <2>4. QED
        BY <1>1, <2>1, <2>2, <2>3, Numeros DEF Turnos, Cuentas, Elegida, colas,
        semaforos
<1>5. CASE IoOlvida
      <2>1. UNCHANGED <<AIo, BIo, CIo>>
        BY <1>5, PasoSolo DEF IoOlvida, Hilos, Si, AIo, BIo, CIo
      <2>2. UNCHANGED colas
        BY <1>5, Quietos DEF IoOlvida
      <2>3. UNCHANGED semaforos
        BY <1>5, Quietos DEF IoOlvida
      <2>4. QED
        BY <1>1, <2>1, <2>2, <2>3, Numeros DEF Turnos, Cuentas, Elegida, colas,
        semaforos
<1>6. CASE IoSaca \/ IoSacaSusp
      <2>1. UNCHANGED <<AIo, BIo, CIo>>
        BY <1>6, PasoSolo DEF IoSaca, IoSacaSusp, Quita, Hilos, Si, AIo, BIo, CIo
      <2>2. UNCHANGED colas
        BY <1>6, Quietos DEF IoSaca, IoSacaSusp, Quita
      <2>3. UNCHANGED semaforos
        BY <1>6, Quietos DEF IoSaca, IoSacaSusp, Quita
      <2>4. QED
        BY <1>1, <2>1, <2>2, <2>3, Numeros DEF Turnos, Cuentas, Elegida, colas,
        semaforos
<1>7. CASE IoReady
      <2>1. pc["io"] = "ready" /\ pc'["io"] \in {"avisa", "post"}
        BY <1>7, PasoSolo DEF IoReady, Agrega, Hilos
      <2>2. AIo = 0 /\ AIo' = 1 /\ BIo' = BIo /\ CIo' = CIo
        BY <2>1 DEF Si, AIo, BIo, CIo
      <2>3. pcb["io"] \in Pid
        BY <2>1 DEF Procesador, Tipos, TieneProceso, Avisos
      <2>4. QReady' = QReady + 1 /\ UNCHANGED <<QNew, QSusp, QIO>>
        BY <1>7, Bases, <2>3, EncolarLargo DEF IoReady, Agrega, Colas, QReady, QNew,
        QSusp, QIO
      <2>5. UNCHANGED semaforos
        BY <1>7, Quietos DEF IoReady, Agrega
      <2>6. Cuentas'
        BY <1>1, <2>2, <2>4, <2>5, Numeros DEF Turnos, Cuentas, semaforos
      <2>7. Elegida'
        BY <1>1, <2>2, <2>4, <2>5, Numeros DEF Turnos, Elegida, semaforos
      <2>8. QED
        BY <2>6, <2>7 DEF Turnos
<1>8. CASE IoAvisa
      <2>1. UNCHANGED <<AIo, BIo, CIo>>
        BY <1>8, PasoSolo DEF IoAvisa, enviarInterruptCPU, Hilos, Si, AIo, BIo, CIo
      <2>2. UNCHANGED colas
        BY <1>8, Quietos DEF IoAvisa, enviarInterruptCPU
      <2>3. UNCHANGED semaforos
        BY <1>8, Quietos DEF IoAvisa, enviarInterruptCPU
      <2>4. QED
        BY <1>1, <2>1, <2>2, <2>3, Numeros DEF Turnos, Cuentas, Elegida, colas,
        semaforos
<1>9. CASE IoPost
      <2>1. pc["io"] = "post" /\ pc'["io"] = "bloqueo"
        BY <1>9, PasoSolo DEF IoPost, Despierta, Hilos
      <2>2. AIo = 1 /\ AIo' = 0 /\ BIo' = BIo /\ CIo' = CIo
        BY <2>1 DEF Si, AIo, BIo, CIo
      <2>3. UNCHANGED colas
        BY <1>9, Quietos DEF IoPost, Despierta
      <2>4. SReady' = SReady + 1 /\ UNCHANGED <<SPlanif, SIO>>
        BY <1>9, Bases DEF IoPost, Despierta, Post, Semaforos, SReady, SPlanif, SIO
      <2>5. QED
        BY <1>1, <2>1, <2>2, <2>3, <2>4, Numeros DEF Turnos, Cuentas, Elegida, colas,
        semaforos
<1>10. CASE IoSuspReady
      <2>1. pc["io"] = "suspReady" /\ pc'["io"] = "postLp"
        BY <1>10, PasoSolo DEF IoSuspReady, Agrega, Hilos
      <2>2. AIo' = AIo /\ BIo = 0 /\ BIo' = 1 /\ CIo' = CIo
        BY <2>1 DEF Si, AIo, BIo, CIo
      <2>3. pcb["io"] \in Pid
        BY <2>1 DEF Procesador, Tipos, TieneProceso, Avisos
      <2>4. QSusp' = QSusp + 1 /\ UNCHANGED <<QReady, QNew, QIO>>
        BY <1>10, Bases, <2>3, EncolarLargo DEF IoSuspReady, Agrega, Colas, QReady,
        QNew, QSusp, QIO
      <2>5. UNCHANGED semaforos
        BY <1>10, Quietos DEF IoSuspReady, Agrega
      <2>6. Cuentas'
        BY <1>1, <2>2, <2>4, <2>5, Numeros DEF Turnos, Cuentas, semaforos
      <2>7. Elegida'
        BY <1>1, <2>2, <2>4, <2>5, Numeros DEF Turnos, Elegida, semaforos
      <2>8. QED
        BY <2>6, <2>7 DEF Turnos
<1>11. CASE IoPostLp
      <2>1. pc["io"] = "postLp" /\ pc'["io"] = "bloqueo"
        BY <1>11, PasoSolo DEF IoPostLp, Despierta, Hilos
      <2>2. AIo' = AIo /\ BIo = 1 /\ BIo' = 0 /\ CIo' = CIo
        BY <2>1 DEF Si, AIo, BIo, CIo
      <2>3. UNCHANGED colas
        BY <1>11, Quietos DEF IoPostLp, Despierta
      <2>4. SPlanif' = SPlanif + 1 /\ UNCHANGED <<SReady, SIO>>
        BY <1>11, Bases DEF IoPostLp, Despierta, Post, Semaforos, SReady, SPlanif, SIO
      <2>5. QED
        BY <1>1, <2>1, <2>2, <2>3, <2>4, Numeros DEF Turnos, Cuentas, Elegida, colas,
        semaforos
<1>12. QED
      BY <1>2, <1>3, <1>4, <1>5, <1>6, <1>7, <1>8, <1>9, <1>10, <1>11 DEF planifBloqueados

LEMMA TurnosHilo ==
    ASSUME Procesador, Turnos, NEW p \in Pid, NEW n \in 1..MaxIO, hiloSuspendedor(p, n)
    PROVE  Turnos'
<1>1. pc' = pc /\ crear' = crear
      BY DEF hiloSuspendedor, HiloExec, HiloProcesador, HiloBlock, HiloCola, HiloBloqueo,
         HiloVence, HiloSaca, HiloAvisa, HiloSusp, HiloMulti, Avanza
<1>2. UNCHANGED <<ACp, ALp, ARx, AIo, BLp, BCr, BIo, CIo>>
      BY <1>1, Quietos
<1>3. CASE HiloCola(p, n)
      <2>1. /\ hilo[p][n] \notin {"bloqueo"} /\ "bloqueo" \in {"bloqueo"}
            /\ hilo' = [hilo EXCEPT ![p][n] = "bloqueo"]
        BY <1>3 DEF HiloCola, Avanza
      <2>2. CHi' = CHi + 1
        BY <2>1, Bases, HiloEntra DEF CHi
      <2>3. QIO' = QIO + 1 /\ UNCHANGED <<QReady, QNew, QSusp>>
        BY <1>3, Bases, EncolarLargo DEF HiloCola, Colas, QReady, QNew, QSusp, QIO
      <2>4. UNCHANGED semaforos
        BY <1>3, Quietos DEF HiloCola
      <2>5. Cuentas'
        BY <1>1, <1>2, <2>2, <2>3, <2>4, Numeros DEF Turnos, Cuentas, semaforos
      <2>6. Elegida'
        BY <1>1, <1>2, <2>3, <2>4, Numeros DEF Turnos, Elegida, semaforos
      <2>7. QED
        BY <2>5, <2>6 DEF Turnos
<1>4. CASE HiloBloqueo(p, n)
      <2>1. /\ hilo[p][n] \in {"bloqueo"} /\ "duerme" \notin {"bloqueo"}
            /\ hilo' = [hilo EXCEPT ![p][n] = "duerme"]
        BY <1>4 DEF HiloBloqueo, Avanza
      <2>2. CHi' = CHi - 1
        BY <2>1, Bases, HiloSale DEF CHi
      <2>3. SIO' = SIO + 1 /\ UNCHANGED <<SReady, SPlanif>>
        BY <1>4, Bases DEF HiloBloqueo, Post, Semaforos, SReady, SPlanif, SIO
      <2>4. UNCHANGED colas
        BY <1>4, Quietos DEF HiloBloqueo
      <2>5. QED
        BY <1>1, <1>2, <2>2, <2>3, <2>4, Numeros DEF Turnos, Cuentas, Elegida, colas
<1>5. CASE ~HiloCola(p, n) /\ ~HiloBloqueo(p, n)
      <2>1. PICK c : /\ hilo[p][n] \in {"bloqueo"} <=> c \in {"bloqueo"}
                     /\ hilo' = [hilo EXCEPT ![p][n] = c]
        BY <1>5 DEF hiloSuspendedor, HiloExec, HiloProcesador, HiloBlock, HiloVence,
           HiloSaca, HiloAvisa, HiloSusp, HiloMulti, Avanza
      <2>2. CHi' = CHi
        BY <2>1, Bases, HiloQueda DEF CHi
      <2>3. UNCHANGED colas
        BY <1>5, Quietos DEF hiloSuspendedor, HiloExec, HiloProcesador, HiloBlock, HiloVence,
           HiloSaca, HiloAvisa, HiloSusp, HiloMulti
      <2>4. UNCHANGED semaforos
        BY <1>5, Bases DEF hiloSuspendedor, HiloExec, HiloProcesador, HiloBlock, HiloVence,
           HiloSaca, HiloAvisa, HiloSusp, HiloMulti, Post, Semaforos, SReady, SPlanif, SIO,
           semaforos
      <2>5. QED
        BY <1>1, <1>2, <2>2, <2>3, <2>4 DEF Turnos, Cuentas, Elegida, colas, semaforos
<1>6. QED
      BY <1>3, <1>4, <1>5

LEMMA TurnosCrear ==
    ASSUME Procesador, Turnos, NEW p \in Pid, CrearNew(p) \/ CrearPost(p)
    PROVE  Turnos'
<1>1. UNCHANGED <<ACp, ALp, ARx, AIo, BLp, BIo, CIo, CHi>> /\ pc' = pc
      BY Quietos DEF CrearNew, CrearPost
<1>2. CASE CrearNew(p)
      <2>1. CreandoPost' = CreandoPost \cup {p} /\ p \notin CreandoPost
        BY <1>2, Bases DEF CrearNew, CreandoPost
      <2>2. BCr' = BCr + 1
        BY <2>1, CreandoFinito, FS_AddElement DEF BCr
      <2>3. QNew' = QNew + 1 /\ UNCHANGED <<QReady, QSusp, QIO>>
        BY <1>2, Bases, EncolarLargo DEF CrearNew, Colas, QReady, QNew, QSusp, QIO
      <2>4. UNCHANGED semaforos
        BY <1>2, Quietos DEF CrearNew
      <2>5. QED
        BY <1>1, <2>2, <2>3, <2>4, Numeros DEF Turnos, Cuentas, Elegida, semaforos
<1>3. CASE CrearPost(p)
      <2>1. CreandoPost' = CreandoPost \ {p} /\ p \in CreandoPost
        BY <1>3, Bases DEF CrearPost, CreandoPost
      <2>2. BCr' = BCr - 1
        BY <2>1, CreandoFinito, FS_RemoveElement DEF BCr
      <2>3. SPlanif' = SPlanif + 1 /\ UNCHANGED <<SReady, SIO>>
        BY <1>3, Bases DEF CrearPost, Post, Semaforos, SReady, SPlanif, SIO
      <2>4. UNCHANGED colas
        BY <1>3, Quietos DEF CrearPost
      <2>5. QED
        BY <1>1, <2>2, <2>3, <2>4, Numeros DEF Turnos, Cuentas, Elegida, colas
<1>4. QED
      BY <1>2, <1>3

LEMMA TurnosQuieto ==
    ASSUME Turnos, UNCHANGED <<cola, sem, crear, hilo>>,
           \A t \in Hilos \ {"cpu"} : pc'[t] = pc[t]
    PROVE  Turnos'
<1>1. /\ UNCHANGED <<ACp, ALp, ARx, AIo, BLp, BCr, BIo, CIo, CHi>>
      /\ UNCHANGED colas /\ UNCHANGED semaforos /\ pc'["lp"] = pc["lp"]
      BY Quietos DEF Hilos
<1>2. QED
      BY <1>1 DEF Turnos, Cuentas, Elegida, colas, semaforos

LEMMA TurnosCpu == ASSUME Procesador, Turnos, iniciarDispatch PROVE Turnos'
<1>1. UNCHANGED <<cola, sem, crear, hilo>>
      BY DEF iniciarDispatch, CpuRecibe, CpuIO, CpuExit, CpuInterrupt, CpuDevuelve, CpuLimpia,
         porProceso
<1>2. \A t \in Hilos \ {"cpu"} : pc'[t] = pc[t]
      BY PasoSolo DEF iniciarDispatch, CpuRecibe, CpuIO, CpuExit, CpuInterrupt, CpuDevuelve,
         CpuLimpia, Hilos
<1>3. QED
      BY <1>1, <1>2, TurnosQuieto

-----------------------------------------------------------------------------
(* The theorem.                                                            *)

LEMMA TurnosInit == Init => Turnos
<1> SUFFICES ASSUME Init
             PROVE  Turnos
    OBVIOUS
<1>1. HilosEn({"bloqueo"}) = {} /\ CreandoPost = {}
      BY DEF Init, HilosEn, CreandoPost
<1>2. BCr = 0 /\ CHi = 0
      BY <1>1, FS_EmptySet DEF BCr, CHi
<1>3. ACp = 0 /\ ALp = 0 /\ ARx = 0 /\ AIo = 0 /\ BLp = 0 /\ BIo = 0 /\ CIo = 0
      BY DEF Init, ACp, ALp, ARx, AIo, BLp, BIo, CIo, Si
<1>4. QReady = 0 /\ QNew = 0 /\ QSusp = 0 /\ QIO = 0
      BY DEF Init, Colas, QReady, QNew, QSusp, QIO
<1>5. SReady = 0 /\ SPlanif = 0 /\ SIO = 0 /\ pc["lp"] = "planif"
      BY DEF Init, Semaforos, SReady, SPlanif, SIO
<1>6. QED
      BY <1>2, <1>3, <1>4, <1>5 DEF Turnos, Cuentas, Elegida

LEMMA TurnosNext == Procesador /\ Turnos /\ [Next]_vars => Turnos'
<1> SUFFICES ASSUME Procesador, Turnos, [Next]_vars
             PROVE  Turnos'
    OBVIOUS
<1>1. CASE UNCHANGED vars
      BY <1>1, TurnosQuieto DEF vars
<1>2. CASE iniciarInterrupt \/ conexionKernel
      BY <1>2, TurnosQuieto DEF iniciarInterrupt, conexionKernel, porProceso
<1>3. QED
      BY <1>1, <1>2, TurnosCrear, TurnosLp, TurnosCp, TurnosRx, TurnosHilo, TurnosIo,
         TurnosCpu DEF Next

LEMMA TurnosBastan == Procesador /\ Turnos => SinPCBNulo
<1> SUFFICES ASSUME Procesador, Turnos
             PROVE  SinPCBNulo
    OBVIOUS
<1>1. pc["lp"] = "new" => cola["NEW"] # <<>>
      BY DEF Turnos, Elegida, QNew
<1>2. pc["lp"] = "susp" => cola["READY_SUSPENDED"] # <<>>
      BY DEF Turnos, Elegida, QSusp
<1>3. pc["cp"] = "elige" => cola["READY"] # <<>>
      <2>1. pc["cp"] = "elige" => ACp = 1
        BY DEF ACp, Si
      <2>2. pc["cp"] = "elige" => QReady > 0
        BY <2>1, Numeros DEF Turnos, Cuentas
      <2>3. QED
        BY <2>2 DEF QReady
<1>4. pc["io"] = "cola" => cola["COLA_IO"] # <<>>
      <2>1. pc["io"] = "cola" => CIo = 1
        BY DEF CIo, Si
      <2>2. pc["io"] = "cola" => QIO > 0
        BY <2>1, Numeros DEF Turnos, Cuentas
      <2>3. QED
        BY <2>2 DEF QIO
<1>5. QED
      BY <1>1, <1>2, <1>3, <1>4 DEF SinPCBNulo

\* No thread removes from an empty list: neither planifLargoPlazo, which picks
\* one of two lists by an unlocked read, nor planifCortoPlazo or
\* planifBloqueados, whatever the order in which the others add and post.
THEOREM NingunPCBNulo == Spec => []SinPCBNulo
<1>1. Init => Procesador /\ Turnos
      BY ProcesadorInit, TurnosInit
<1>2. Procesador /\ Turnos /\ [Next]_vars => (Procesador /\ Turnos)'
      BY ProcesadorNext, TurnosNext
<1>3. Procesador /\ Turnos => SinPCBNulo
      BY TurnosBastan
<1>4. QED
      BY <1>1, <1>2, <1>3, PTL DEF Spec

=============================================================================
