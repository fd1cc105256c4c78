---------------------------- MODULE KernelProofs ----------------------------
(***************************************************************************)
(* What holds of the Kernel for every set of processes, every degree of    *)
(* multiprogramming and both algorithms: its types, and one processor      *)
(* (ProcesadorExclusivo and MedicionPropia).                               *)
(*                                                                         *)
(* The sum of ProcesadorExclusivo moves by one from term to term as the    *)
(* process goes from the short-term scheduler to the CPU, back, and to the *)
(* thread that posts sem_procesador.  The hand-over to hiloSuspendedor     *)
(* adds a thread only if that thread is new, which is what Frescos says.   *)
(***************************************************************************)
EXTENDS KernelPropiedades, FiniteSetTheorems, TLAPS

\* A thread has a process at hand exactly where its code uses one.
TieneProceso ==
    /\ pcb["lp"] \in Pid <=> pc["lp"] \in {"respSusp", "respNew", "mide",
                                           "ready", "readyAvisa"}
    /\ pcb["cp"] \in Pid <=> pc["cp"] \in {"quita", "exec", "despacha"}
    /\ pcb["rx"] \in Pid <=> pc["rx"] \in Avisos \cup {"exitProcesador",
                                           "exitAvisa", "exitLista", "intReady"}
    /\ pcb["io"] \in Pid <=> pc["io"] \in {"duerme", "saca", "ready", "mira",
                                           "sacaSusp", "suspReady"}
    /\ pcb["cpu"] \in Pid <=> pc["cpu"] = "ejecuta"

Tipos == TypeOK /\ TieneProceso

-----------------------------------------------------------------------------
(* Sequences and functions.                                                *)

LEMMA Vacia == ASSUME NEW S PROVE <<>> \in Seq(S)
OBVIOUS

LEMMA CabezaCola ==
    ASSUME NEW S, NEW s \in Seq(S), s # <<>>
    PROVE  Head(s) \in S /\ Tail(s) \in Seq(S) /\ Len(s) = Len(Tail(s)) + 1
OBVIOUS

LEMMA QuitarUno ==
    ASSUME NEW S, NEW s \in Seq(S), NEW i \in DOMAIN s
    PROVE  RemoveAt(s, i) \in Seq(S) /\ Len(RemoveAt(s, i)) = Len(s) - 1
BY DEF RemoveAt

LEMMA EncolarTipo ==
    ASSUME NEW c \in Colas, NEW p \in Pid, Encolar(c, p),
           cola \in [Colas -> Seq(Pid)]
    PROVE  cola' \in [Colas -> Seq(Pid)]
BY DEF Encolar

LEMMA SacarTipo ==
    ASSUME NEW c \in Colas, cola[c] # <<>>, SacarPrimero(c),
           cola \in [Colas -> Seq(Pid)]
    PROVE  Head(cola[c]) \in Pid /\ cola' \in [Colas -> Seq(Pid)]
<1>1. Head(cola[c]) \in Pid /\ Tail(cola[c]) \in Seq(Pid)
      BY CabezaCola
<1>2. QED
      BY <1>1 DEF SacarPrimero

LEMMA AnotarTipo ==
    ASSUME NEW l \in Listas, NEW p \in Pid, Anotar(l, p),
           lista \in [Listas -> [Pid -> Nat]]
    PROVE  lista' \in [Listas -> [Pid -> Nat]]
BY DEF Anotar

LEMMA BorrarTipo ==
    ASSUME NEW l \in Listas, NEW p \in Pid, Borrar(l, p),
           lista \in [Listas -> [Pid -> Nat]]
    PROVE  lista' \in [Listas -> [Pid -> Nat]]
BY DEF Borrar

LEMMA PostTipo ==
    ASSUME NEW s \in Semaforos, Post(s), sem \in [Semaforos -> Nat]
    PROVE  sem' \in [Semaforos -> Nat]
BY DEF Post

LEMMA WaitTipo ==
    ASSUME NEW s \in Semaforos, Wait(s), sem \in [Semaforos -> Nat]
    PROVE  sem' \in [Semaforos -> Nat]
BY DEF Wait

LEMMA PedirTipo ==
    ASSUME NEW t \in Pedidos, NEW p \in Pid, Pedir(t, p),
           memoria \in Seq([tipo : Pedidos, pid : Pid])
    PROVE  memoria' \in Seq([tipo : Pedidos, pid : Pid])
BY DEF Pedir

LEMMA HiloTipo ==
    ASSUME NEW p \in Pid, NEW n \in 1..MaxIO, NEW b \in PcHilo,
           hilo \in [Pid -> [1..MaxIO -> PcHilo]],
           hilo' = [hilo EXCEPT ![p][n] = b]
    PROVE  hilo' \in [Pid -> [1..MaxIO -> PcHilo]]
OBVIOUS

-----------------------------------------------------------------------------
(* Types.                                                                  *)

LEMMA TiposInit == Init => Tipos
<1> SUFFICES ASSUME Init
             PROVE  Tipos
    OBVIOUS
<1>1. cola \in [Colas -> Seq(Pid)] /\ sem \in [Semaforos -> Nat]
      BY GradoPositivo DEF Init
<1>2. /\ hilo \in [Pid -> [1..MaxIO -> PcHilo]] /\ lista \in [Listas -> [Pid -> Nat]]
      /\ crear \in [Pid -> PcCrear]
      BY DEF Init, PcHilo, PcCrear
<1>3. nIO \in [Pid -> 0..MaxIO] /\ rafaga \in [Pid -> Rafagas]
      BY MaxIONatural, RafagasEnteras DEF Init
<1>4. /\ pc \in [Hilos -> PcLp \cup PcCp \cup PcRx \cup PcIo \cup PcCpu]
      /\ pc["lp"] = "planif" /\ pc["cp"] = "ready" /\ pc["rx"] = "recibe"
      /\ pc["io"] = "bloqueo" /\ pc["cpu"] = "libre"
      BY DEF Init, Hilos, PcLp, PcCp, PcRx, PcIo, PcCpu
<1>5. pcb = [t \in Hilos |-> Nadie]
      BY DEF Init
<1>6. TieneProceso
      BY <1>4, <1>5, NadieNoEsProceso DEF TieneProceso, Hilos, Avisos
<1>7. /\ timeValBefore \in Pid \cup {Nadie} /\ dispatch \in Seq(Pid)
      /\ respuesta \in Seq([op : Avisos, pcb : Pid]) /\ interrupt \in Nat
      /\ memoria \in Seq([tipo : Pedidos, pid : Pid]) /\ respMem \in Nat
      /\ interrupciones \in BOOLEAN /\ residente \subseteq Pid
      BY Vacia DEF Init
<1>8. QED
      BY <1>1, <1>2, <1>3, <1>4, <1>5, <1>6, <1>7
      DEF Tipos, TypeOK, PcLp, PcCp, PcRx, PcIo, PcCpu

LEMMA TiposLp == Tipos /\ planifLargoPlazo => Tipos'
<1> SUFFICES ASSUME Tipos, planifLargoPlazo
             PROVE  Tipos'
    OBVIOUS
<1> USE NadieNoEsProceso
    DEF Tipos, TypeOK, TieneProceso, Hilos, Paso, Toma, porProceso, datos,
        redCpu, redMem, afuera
<1>1. CASE LpPlanif
      <2>1. sem' \in [Semaforos -> Nat]
        BY <1>1, WaitTipo DEF LpPlanif, Espera, Semaforos
      <2>2. QED
        BY <1>1, <2>1 DEF LpPlanif, Espera, PcLp
<1>2. CASE LpMulti
      <2>1. sem' \in [Semaforos -> Nat]
        BY <1>2, WaitTipo DEF LpMulti, Espera, Semaforos
      <2>2. QED
        BY <1>2, <2>1 DEF LpMulti, Espera, PcLp
<1>3. CASE LpElige
      BY <1>3 DEF LpElige, Decide, PcLp
<1>4. CASE LpSacaNew
      <2>1. Head(cola["NEW"]) \in Pid /\ cola' \in [Colas -> Seq(Pid)]
        BY <1>4, SacarTipo DEF LpSacaNew, LpSaca, Colas
      <2>2. memoria' \in Seq([tipo : Pedidos, pid : Pid])
        BY <1>4, <2>1 DEF LpSacaNew, LpSaca, Pedir, Pedidos
      <2>3. QED
        BY <1>4, <2>1, <2>2 DEF LpSacaNew, LpSaca, PcLp
<1>5. CASE LpSacaSusp
      <2>1. Head(cola["READY_SUSPENDED"]) \in Pid /\ cola' \in [Colas -> Seq(Pid)]
        BY <1>5, SacarTipo DEF LpSacaSusp, LpSaca, Colas
      <2>2. memoria' \in Seq([tipo : Pedidos, pid : Pid])
        BY <1>5, <2>1 DEF LpSacaSusp, LpSaca, Pedir, Pedidos
      <2>3. QED
        BY <1>5, <2>1, <2>2 DEF LpSacaSusp, LpSaca, PcLp
<1>6. CASE LpRespNew
      BY <1>6 DEF LpRespNew, LpRespuesta, PcLp
<1>7. CASE LpRespSusp
      BY <1>7 DEF LpRespSusp, LpRespuesta, PcLp
<1>8. CASE LpMide
      BY <1>8 DEF LpMide, Decide, PcLp
<1>9. CASE LpReady
      <2>1. pcb["lp"] \in Pid
        BY <1>9 DEF LpReady, Agrega
      <2>2. cola' \in [Colas -> Seq(Pid)]
        BY <1>9, <2>1, EncolarTipo DEF LpReady, Agrega, Colas
      <2>3. QED
        BY <1>9, <2>1, <2>2 DEF LpReady, Agrega, PcLp
<1>10. CASE LpReadyAvisa
      <2>1. pcb["lp"] \in Pid
        BY <1>10 DEF LpReadyAvisa, Agrega
      <2>2. cola' \in [Colas -> Seq(Pid)]
        BY <1>10, <2>1, EncolarTipo DEF LpReadyAvisa, Agrega, Colas
      <2>3. QED
        BY <1>10, <2>1, <2>2 DEF LpReadyAvisa, Agrega, PcLp
<1>11. CASE LpAvisa
      BY <1>11 DEF LpAvisa, enviarInterruptCPU, PcLp
<1>12. CASE LpPost
      <2>1. sem' \in [Semaforos -> Nat]
        BY <1>12, PostTipo DEF LpPost, Despierta, Semaforos
      <2>2. QED
        BY <1>12, <2>1 DEF LpPost, Despierta, PcLp
<1>13. QED
      BY <1>1, <1>2, <1>3, <1>4, <1>5, <1>6, <1>7, <1>8, <1>9, <1>10, <1>11, <1>12 DEF planifLargoPlazo

LEMMA TiposCp == Tipos /\ planifCortoPlazo => Tipos'
<1> SUFFICES ASSUME Tipos, planifCortoPlazo
             PROVE  Tipos'
    OBVIOUS
<1> USE NadieNoEsProceso
    DEF Tipos, TypeOK, TieneProceso, Hilos, Paso, Toma, porProceso, datos,
        redCpu, redMem, afuera
<1>1. CASE CpReady
      <2>1. sem' \in [Semaforos -> Nat]
        BY <1>1, WaitTipo DEF CpReady, Espera, Semaforos
      <2>2. QED
        BY <1>1, <2>1 DEF CpReady, Espera, PcCp
<1>2. CASE CpProcesador
      <2>1. sem' \in [Semaforos -> Nat]
        BY <1>2, WaitTipo DEF CpProcesador, Espera, Semaforos
      <2>2. QED
        BY <1>2, <2>1 DEF CpProcesador, Espera, PcCp
<1>3. CASE algoritmo_FIFO
      <2>1. Head(cola["READY"]) \in Pid /\ cola' \in [Colas -> Seq(Pid)]
        BY <1>3, SacarTipo DEF algoritmo_FIFO, Extrae, Colas
      <2>2. QED
        BY <1>3, <2>1 DEF algoritmo_FIFO, Extrae, PcCp
<1>4. CASE algoritmo_SRT
      <2>1. PICK i \in DOMAIN cola["READY"] : Toma("cp", cola["READY"][i])
        BY <1>4 DEF algoritmo_SRT
      <2>2. cola["READY"] \in Seq(Pid)
        BY DEF Colas
      <2>3. cola["READY"][i] \in Pid
        BY <2>1, <2>2
      <2>4. pcb' = [pcb EXCEPT !["cp"] = cola["READY"][i]]
        BY <2>1
      <2>5. QED
        BY <1>4, <2>3, <2>4 DEF algoritmo_SRT, PcCp
<1>5. CASE CpQuita
      <2>1. PICK i \in DOMAIN cola["READY"] :
                cola' = [cola EXCEPT !["READY"] = RemoveAt(@, i)]
        BY <1>5 DEF CpQuita
      <2>2. RemoveAt(cola["READY"], i) \in Seq(Pid)
        BY QuitarUno DEF Colas
      <2>3. cola' \in [Colas -> Seq(Pid)]
        BY <2>1, <2>2
      <2>4. QED
        BY <1>5, <2>3 DEF CpQuita, PcCp
<1>6. CASE CpExec
      <2>1. pcb["cp"] \in Pid
        BY <1>6 DEF CpExec
      <2>2. lista' \in [Listas -> [Pid -> Nat]]
        BY <1>6, <2>1, AnotarTipo DEF CpExec, Listas
      <2>3. QED
        BY <1>6, <2>1, <2>2 DEF CpExec, PcCp
<1>7. CASE CpDespacha
      BY <1>7 DEF CpDespacha, PcCp
<1>8. QED
      BY <1>1, <1>2, <1>3, <1>4, <1>5, <1>6, <1>7 DEF planifCortoPlazo

LEMMA TiposRx == Tipos /\ recibirMensajeCPU => Tipos'
<1> SUFFICES ASSUME Tipos, recibirMensajeCPU
             PROVE  Tipos'
    OBVIOUS
<1> USE NadieNoEsProceso
    DEF Tipos, TypeOK, TieneProceso, Hilos, Paso, Toma, porProceso, datos,
        redCpu, redMem, afuera
<1>1. CASE RxRecibe
      <2>1. Head(respuesta) \in [op : Avisos, pcb : Pid]
            /\ Tail(respuesta) \in Seq([op : Avisos, pcb : Pid])
        BY <1>1, CabezaCola DEF RxRecibe
      <2>2. QED
        BY <1>1, <2>1 DEF RxRecibe, PcRx, Avisos
<1>2. CASE RxBlock
      <2>1. pcb["rx"] \in Pid
        BY <1>2 DEF RxBlock, Avisos
      <2>2. hilo' \in [Pid -> [1..MaxIO -> PcHilo]]
        BY <1>2, <2>1 DEF RxBlock, PcHilo
      <2>3. rafaga' \in [Pid -> Rafagas]
        BY <1>2, <2>1 DEF RxBlock
      <2>4. QED
        BY <1>2, <2>2, <2>3 DEF RxBlock, PcRx, Avisos
<1>3. CASE RxExit
      <2>1. pcb["rx"] \in Pid
        BY <1>3 DEF RxExit, Quita, Avisos
      <2>2. lista' \in [Listas -> [Pid -> Nat]]
        BY <1>3, <2>1, BorrarTipo DEF RxExit, Quita, Listas
      <2>3. QED
        BY <1>3, <2>1, <2>2 DEF RxExit, Quita, PcRx, Avisos
<1>4. CASE RxExitProcesador
      <2>1. sem' \in [Semaforos -> Nat]
        BY <1>4, PostTipo DEF RxExitProcesador, Despierta, Semaforos
      <2>2. QED
        BY <1>4, <2>1 DEF RxExitProcesador, Despierta, PcRx, Avisos
<1>5. CASE RxExitAvisa
      <2>1. pcb["rx"] \in Pid
        BY <1>5 DEF RxExitAvisa, Avisos
      <2>2. memoria' \in Seq([tipo : Pedidos, pid : Pid])
        BY <1>5, <2>1, PedirTipo DEF RxExitAvisa, Pedidos
      <2>3. QED
        BY <1>5, <2>1, <2>2 DEF RxExitAvisa, PcRx, Avisos
<1>6. CASE RxExitLista
      <2>1. pcb["rx"] \in Pid
        BY <1>6 DEF RxExitLista, Avisos
      <2>2. lista' \in [Listas -> [Pid -> Nat]]
        BY <1>6, <2>1, AnotarTipo DEF RxExitLista, Listas
      <2>3. QED
        BY <1>6, <2>1, <2>2 DEF RxExitLista, PcRx, Avisos
<1>7. CASE RxExitMulti
      <2>1. sem' \in [Semaforos -> Nat]
        BY <1>7, PostTipo DEF RxExitMulti, Despierta, Semaforos
      <2>2. QED
        BY <1>7, <2>1 DEF RxExitMulti, Despierta, PcRx, Avisos
<1>8. CASE RxInterrupt
      <2>1. pcb["rx"] \in Pid /\ UNCHANGED pcb
        BY <1>8 DEF RxInterrupt, Avisos
      <2>2. lista' \in [Listas -> [Pid -> Nat]]
        BY <1>8, <2>1, BorrarTipo DEF RxInterrupt, Listas
      <2>3. rafaga' \in [Pid -> Rafagas]
        BY <1>8, <2>1 DEF RxInterrupt
      <2>4. QED
        BY <1>8, <2>1, <2>2, <2>3 DEF RxInterrupt, PcRx, Avisos
<1>9. CASE RxIntReady
      <2>1. pcb["rx"] \in Pid
        BY <1>9 DEF RxIntReady, Agrega, Avisos
      <2>2. cola' \in [Colas -> Seq(Pid)]
        BY <1>9, <2>1, EncolarTipo DEF RxIntReady, Agrega, Colas
      <2>3. QED
        BY <1>9, <2>1, <2>2 DEF RxIntReady, Agrega, PcRx, Avisos
<1>10. CASE RxIntSem
      <2>1. sem' \in [Semaforos -> Nat]
        BY <1>10, PostTipo DEF RxIntSem, Despierta, Semaforos
      <2>2. QED
        BY <1>10, <2>1 DEF RxIntSem, Despierta, PcRx, Avisos
<1>11. CASE RxIntProcesador
      <2>1. sem' \in [Semaforos -> Nat]
        BY <1>11, PostTipo DEF RxIntProcesador, Despierta, Semaforos
      <2>2. QED
        BY <1>11, <2>1 DEF RxIntProcesador, Despierta, PcRx, Avisos
<1>12. QED
      BY <1>1, <1>2, <1>3, <1>4, <1>5, <1>6, <1>7, <1>8, <1>9, <1>10, <1>11 DEF recibirMensajeCPU

LEMMA TiposIo == Tipos /\ planifBloqueados => Tipos'
<1> SUFFICES ASSUME Tipos, planifBloqueados
             PROVE  Tipos'
    OBVIOUS
<1> USE NadieNoEsProceso
    DEF Tipos, TypeOK, TieneProceso, Hilos, Paso, Toma, porProceso, datos,
        redCpu, redMem, afuera
<1>1. CASE IoBloqueo
      <2>1. sem' \in [Semaforos -> Nat]
        BY <1>1, WaitTipo DEF IoBloqueo, Espera, Semaforos
      <2>2. QED
        BY <1>1, <2>1 DEF IoBloqueo, Espera, PcIo
<1>2. CASE IoCola
      <2>1. Head(cola["COLA_IO"]) \in Pid /\ cola' \in [Colas -> Seq(Pid)]
        BY <1>2, SacarTipo DEF IoCola, Extrae, Colas
      <2>2. QED
        BY <1>2, <2>1 DEF IoCola, Extrae, PcIo
<1>3. CASE IoTermina
      BY <1>3 DEF IoTermina, Decide, PcIo
<1>4. CASE IoMira
      BY <1>4 DEF IoMira, Decide, PcIo
<1>5. CASE IoOlvida
      BY <1>5 DEF IoOlvida, PcIo
<1>6. CASE IoSaca
      <2>1. pcb["io"] \in Pid
        BY <1>6 DEF IoSaca, Quita
      <2>2. lista' \in [Listas -> [Pid -> Nat]]
        BY <1>6, <2>1, BorrarTipo DEF IoSaca, Quita, Listas
      <2>3. QED
        BY <1>6, <2>1, <2>2 DEF IoSaca, Quita, PcIo
<1>7. CASE IoReady
      <2>1. pcb["io"] \in Pid
        BY <1>7 DEF IoReady, Agrega
      <2>2. cola' \in [Colas -> Seq(Pid)]
        BY <1>7, <2>1, EncolarTipo DEF IoReady, Agrega, Colas
      <2>3. QED
        BY <1>7, <2>1, <2>2 DEF IoReady, Agrega, PcIo
<1>8. CASE IoAvisa
      BY <1>8 DEF IoAvisa, enviarInterruptCPU, PcIo
<1>9. CASE IoPost
      <2>1. sem' \in [Semaforos -> Nat]
        BY <1>9, PostTipo DEF IoPost, Despierta, Semaforos
      <2>2. QED
        BY <1>9, <2>1 DEF IoPost, Despierta, PcIo
<1>10. CASE IoSacaSusp
      <2>1. pcb["io"] \in Pid
        BY <1>10 DEF IoSacaSusp, Quita
      <2>2. lista' \in [Listas -> [Pid -> Nat]]
        BY <1>10, <2>1, BorrarTipo DEF IoSacaSusp, Quita, Listas
      <2>3. QED
        BY <1>10, <2>1, <2>2 DEF IoSacaSusp, Quita, PcIo
<1>11. CASE IoSuspReady
      <2>1. pcb["io"] \in Pid
        BY <1>11 DEF IoSuspReady, Agrega
      <2>2. cola' \in [Colas -> Seq(Pid)]
        BY <1>11, <2>1, EncolarTipo DEF IoSuspReady, Agrega, Colas
      <2>3. QED
        BY <1>11, <2>1, <2>2 DEF IoSuspReady, Agrega, PcIo
<1>12. CASE IoPostLp
      <2>1. sem' \in [Semaforos -> Nat]
        BY <1>12, PostTipo DEF IoPostLp, Despierta, Semaforos
      <2>2. QED
        BY <1>12, <2>1 DEF IoPostLp, Despierta, PcIo
<1>13. QED
      BY <1>1, <1>2, <1>3, <1>4, <1>5, <1>6, <1>7, <1>8, <1>9, <1>10, <1>11, <1>12 DEF planifBloqueados

LEMMA TiposCpu == Tipos /\ iniciarDispatch => Tipos'
<1> SUFFICES ASSUME Tipos, iniciarDispatch
             PROVE  Tipos'
    OBVIOUS
<1> USE NadieNoEsProceso
    DEF Tipos, TypeOK, TieneProceso, Hilos, Paso, Toma, porProceso, datos,
        redCpu, redMem, afuera
<1>1. CASE CpuRecibe
      BY <1>1, CabezaCola DEF CpuRecibe, PcCpu
<1>2. CASE CpuIO
      <2>1. pcb["cpu"] \in Pid /\ nIO' \in [Pid -> 0..MaxIO]
        BY <1>2, MaxIONatural DEF CpuIO, CpuDevuelve
      <2>2. QED
        BY <1>2, <2>1 DEF CpuIO, CpuDevuelve, PcCpu, Avisos
<1>3. CASE CpuExit
      BY <1>3 DEF CpuExit, CpuDevuelve, PcCpu, Avisos
<1>4. CASE CpuInterrupt
      BY <1>4 DEF CpuInterrupt, CpuDevuelve, PcCpu, Avisos
<1>5. CASE CpuLimpia
      BY <1>5 DEF CpuLimpia, PcCpu
<1>6. QED
      BY <1>1, <1>2, <1>3, <1>4, <1>5 DEF iniciarDispatch

LEMMA TiposHilo ==
    ASSUME Tipos, NEW p \in Pid, NEW n \in 1..MaxIO, hiloSuspendedor(p, n)
    PROVE  Tipos'
<1> USE DEF Tipos, TypeOK, TieneProceso, datos, redCpu, redMem, afuera
<1>1. CASE HiloExec(p, n)
      <2>1. lista' \in [Listas -> [Pid -> Nat]]
        BY <1>1, BorrarTipo DEF HiloExec, Listas
      <2>2. hilo' \in [Pid -> [1..MaxIO -> PcHilo]]
        BY <1>1, HiloTipo DEF HiloExec, Avanza, PcHilo
      <2>3. QED
        BY <1>1, <2>1, <2>2 DEF HiloExec, Avanza
<1>2. CASE HiloProcesador(p, n)
      <2>1. sem' \in [Semaforos -> Nat]
        BY <1>2, PostTipo DEF HiloProcesador, Semaforos
      <2>2. hilo' \in [Pid -> [1..MaxIO -> PcHilo]]
        BY <1>2, HiloTipo DEF HiloProcesador, Avanza, PcHilo
      <2>3. QED
        BY <1>2, <2>1, <2>2 DEF HiloProcesador, Avanza
<1>3. CASE HiloBlock(p, n)
      <2>1. lista' \in [Listas -> [Pid -> Nat]]
        BY <1>3, AnotarTipo DEF HiloBlock, Listas
      <2>2. hilo' \in [Pid -> [1..MaxIO -> PcHilo]]
        BY <1>3, HiloTipo DEF HiloBlock, Avanza, PcHilo
      <2>3. QED
        BY <1>3, <2>1, <2>2 DEF HiloBlock, Avanza
<1>4. CASE HiloCola(p, n)
      <2>1. cola' \in [Colas -> Seq(Pid)]
        BY <1>4, EncolarTipo DEF HiloCola, Colas
      <2>2. hilo' \in [Pid -> [1..MaxIO -> PcHilo]]
        BY <1>4, HiloTipo DEF HiloCola, Avanza, PcHilo
      <2>3. QED
        BY <1>4, <2>1, <2>2 DEF HiloCola, Avanza
<1>5. CASE HiloBloqueo(p, n)
      <2>1. sem' \in [Semaforos -> Nat]
        BY <1>5, PostTipo DEF HiloBloqueo, Semaforos
      <2>2. hilo' \in [Pid -> [1..MaxIO -> PcHilo]]
        BY <1>5, HiloTipo DEF HiloBloqueo, Avanza, PcHilo
      <2>3. QED
        BY <1>5, <2>1, <2>2 DEF HiloBloqueo, Avanza
<1>6. CASE HiloVence(p, n)
      <2>1. hilo' \in [Pid -> [1..MaxIO -> PcHilo]]
        BY <1>6, HiloTipo DEF HiloVence, Avanza, PcHilo
      <2>2. QED
        BY <1>6, <2>1 DEF HiloVence, Avanza
<1>7. CASE HiloSaca(p, n)
      <2>1. lista' \in [Listas -> [Pid -> Nat]]
        BY <1>7, BorrarTipo DEF HiloSaca, Listas
      <2>2. hilo' \in [Pid -> [1..MaxIO -> PcHilo]]
        BY <1>7, HiloTipo DEF HiloSaca, Avanza, PcHilo
      <2>3. QED
        BY <1>7, <2>1, <2>2 DEF HiloSaca, Avanza
<1>8. CASE HiloAvisa(p, n)
      <2>1. memoria' \in Seq([tipo : Pedidos, pid : Pid])
        BY <1>8, PedirTipo DEF HiloAvisa, Pedidos
      <2>2. hilo' \in [Pid -> [1..MaxIO -> PcHilo]]
        BY <1>8, HiloTipo DEF HiloAvisa, Avanza, PcHilo
      <2>3. QED
        BY <1>8, <2>1, <2>2 DEF HiloAvisa, Avanza
<1>9. CASE HiloSusp(p, n)
      <2>1. lista' \in [Listas -> [Pid -> Nat]]
        BY <1>9, AnotarTipo DEF HiloSusp, Listas
      <2>2. hilo' \in [Pid -> [1..MaxIO -> PcHilo]]
        BY <1>9, HiloTipo DEF HiloSusp, Avanza, PcHilo
      <2>3. QED
        BY <1>9, <2>1, <2>2 DEF HiloSusp, Avanza
<1>10. CASE HiloMulti(p, n)
      <2>1. sem' \in [Semaforos -> Nat]
        BY <1>10, PostTipo DEF HiloMulti, Semaforos
      <2>2. hilo' \in [Pid -> [1..MaxIO -> PcHilo]]
        BY <1>10, HiloTipo DEF HiloMulti, Avanza, PcHilo
      <2>3. QED
        BY <1>10, <2>1, <2>2 DEF HiloMulti, Avanza
<1>11. QED
      BY <1>1, <1>2, <1>3, <1>4, <1>5, <1>6, <1>7, <1>8, <1>9, <1>10 DEF hiloSuspendedor

LEMMA TiposCrear ==
    ASSUME Tipos, NEW p \in Pid, CrearNew(p) \/ CrearPost(p)
    PROVE  Tipos'
<1> USE DEF Tipos, TypeOK, TieneProceso, PcCrear, datos, redCpu, redMem, afuera
<1>1. CASE CrearNew(p)
      BY <1>1 DEF CrearNew, Encolar, Colas
<1>2. CASE CrearPost(p)
      <2>1. sem' \in [Semaforos -> Nat]
        BY <1>2, PostTipo DEF CrearPost, Semaforos
      <2>2. QED
        BY <1>2, <2>1 DEF CrearPost
<1>3. QED
      BY <1>1, <1>2

LEMMA TiposInterrupt == Tipos /\ iniciarInterrupt => Tipos'
BY DEF Tipos, TypeOK, TieneProceso, iniciarInterrupt, porProceso, datos, redMem

LEMMA TiposMemoria == Tipos /\ conexionKernel => Tipos'
<1> SUFFICES ASSUME Tipos, conexionKernel
             PROVE  Tipos'
    OBVIOUS
<1>1. /\ Head(memoria) \in [tipo : Pedidos, pid : Pid]
      /\ Tail(memoria) \in Seq([tipo : Pedidos, pid : Pid])
      BY CabezaCola DEF conexionKernel, Tipos, TypeOK
<1>2. residente' \subseteq Pid /\ respMem' \in Nat
      BY <1>1 DEF conexionKernel, Tipos, TypeOK
<1>3. QED
      BY <1>1, <1>2 DEF conexionKernel, Tipos, TypeOK, TieneProceso, porProceso,
                        datos, redCpu

LEMMA TiposNext == Tipos /\ [Next]_vars => Tipos'
<1> SUFFICES ASSUME Tipos, [Next]_vars
             PROVE  Tipos'
    OBVIOUS
<1>1. CASE UNCHANGED vars
      BY <1>1 DEF vars, Tipos, TypeOK, TieneProceso
<1>2. CASE Next
      BY <1>2, TiposCrear, TiposLp, TiposCp, TiposRx, TiposHilo, TiposIo, TiposCpu,
         TiposInterrupt, TiposMemoria DEF Next
<1>3. QED
      BY <1>1, <1>2

\* Every variable keeps its type: in particular the process that a thread
\* puts in a list or a message is one, never the absence of one.
THEOREM TiposCorrectos == Spec => []TypeOK
<1>1. Init => Tipos
      BY TiposInit
<1>2. Tipos /\ [Next]_vars => Tipos'
      BY TiposNext
<1>3. Tipos => TypeOK
      BY DEF Tipos
<1>4. QED
      BY <1>1, <1>2, <1>3, PTL DEF Spec

-----------------------------------------------------------------------------
(* One processor.                                                          *)

Ocupado == {"exec", "procesador"}

\* The terms of the sum of ProcesadorExclusivo.
ConSem == sem["procesador"]
ConCp == Si(pc["cp"] \notin {"ready", "procesador"})
ConDispatch == Len(dispatch)
ConCpu == Si(pcb["cpu"] # Nadie)
ConRespuesta == Len(respuesta)
ConRx == Si(pc["rx"] \in PcRxProcesador)
ConHilo == Cardinality(HilosEn(Ocupado))

\* The I/O that process p executed last has no hiloSuspendedor yet.
SinHilo(p) == nIO[p] \in 1..MaxIO /\ hilo[p][nIO[p]] = "nada"

Frescos ==
    /\ \A p \in Pid, n \in 1..MaxIO : n > nIO[p] => hilo[p][n] = "nada"
    /\ \A i \in DOMAIN respuesta :
            respuesta[i].op = "BLOCK" => SinHilo(respuesta[i].pcb)
    /\ pc["rx"] = "BLOCK" => SinHilo(pcb["rx"])

\* All that is on its way through the CPU is the process last timed.
Medida ==
    /\ \A i \in DOMAIN dispatch : dispatch[i] = timeValBefore
    /\ pcb["cpu"] \in Pid => pcb["cpu"] = timeValBefore
    /\ \A i \in DOMAIN respuesta : respuesta[i].pcb = timeValBefore
    /\ MedicionPropia

Procesador == Tipos /\ ProcesadorExclusivo /\ Frescos /\ Medida

LEMMA Elemento ==
    ASSUME NEW S, NEW s \in Seq(S), NEW i \in DOMAIN s
    PROVE  s[i] \in S
OBVIOUS

-----------------------------------------------------------------------------
(* The number of threads hiloSuspendedor at given places.                  *)

LEMMA HilosFinitos == ASSUME NEW S PROVE IsFiniteSet(HilosEn(S))
<1>1. IsFiniteSet(1..MaxIO)
      BY MaxIONatural, FS_Interval
<1>2. IsFiniteSet(Pid \X (1..MaxIO))
      BY <1>1, ProcesosFinitos, FS_Product
<1>3. QED
      BY <1>2, FS_Subset DEF HilosEn

LEMMA HiloEntra ==
    ASSUME NEW S, NEW p \in Pid, NEW n \in 1..MaxIO, NEW b \in S,
           hilo \in [Pid -> [1..MaxIO -> PcHilo]], hilo[p][n] \notin S,
           hilo' = [hilo EXCEPT ![p][n] = b]
    PROVE  Cardinality(HilosEn(S)') = Cardinality(HilosEn(S)) + 1
<1>1. \A q \in Pid, m \in 1..MaxIO :
            hilo'[q][m] = IF q = p /\ m = n THEN b ELSE hilo[q][m]
      OBVIOUS
<1>2. HilosEn(S)' = HilosEn(S) \cup {<<p, n>>}
      BY <1>1 DEF HilosEn
<1>3. <<p, n>> \notin HilosEn(S)
      BY DEF HilosEn
<1>4. QED
      BY <1>2, <1>3, HilosFinitos, FS_AddElement

LEMMA HiloSale ==
    ASSUME NEW S, NEW p \in Pid, NEW n \in 1..MaxIO, NEW b, b \notin S,
           hilo \in [Pid -> [1..MaxIO -> PcHilo]], hilo[p][n] \in S,
           hilo' = [hilo EXCEPT ![p][n] = b]
    PROVE  Cardinality(HilosEn(S)') = Cardinality(HilosEn(S)) - 1
<1>1. \A q \in Pid, m \in 1..MaxIO :
            hilo'[q][m] = IF q = p /\ m = n THEN b ELSE hilo[q][m]
      OBVIOUS
<1>2. HilosEn(S)' = HilosEn(S) \ {<<p, n>>}
      BY <1>1 DEF HilosEn
<1>3. <<p, n>> \in HilosEn(S)
      BY DEF HilosEn
<1>4. QED
      BY <1>2, <1>3, HilosFinitos, FS_RemoveElement

LEMMA HiloQueda ==
    ASSUME NEW S, NEW p \in Pid, NEW n \in 1..MaxIO, NEW b,
           hilo \in [Pid -> [1..MaxIO -> PcHilo]], hilo[p][n] \in S <=> b \in S,
           hilo' = [hilo EXCEPT ![p][n] = b]
    PROVE  HilosEn(S)' = HilosEn(S)
<1>1. \A q \in Pid, m \in 1..MaxIO :
            hilo'[q][m] = IF q = p /\ m = n THEN b ELSE hilo[q][m]
      OBVIOUS
<1>2. QED
      BY <1>1 DEF HilosEn

-----------------------------------------------------------------------------
(* The terms of the sum.                                                   *)

LEMMA Suma ==
    /\ ProcesadorExclusivo <=> ConSem + ConCp + ConDispatch + ConCpu + ConRespuesta
                                    + ConRx + ConHilo = 1
    /\ ProcesadorExclusivo' <=> ConSem' + ConCp' + ConDispatch' + ConCpu'
                                    + ConRespuesta' + ConRx' + ConHilo' = 1
BY DEF ProcesadorExclusivo, ConSem, ConCp, ConDispatch, ConCpu, ConRespuesta,
       ConRx, ConHilo, Ocupado

LEMMA Naturales ==
    ASSUME Procesador
    PROVE  /\ ConSem \in Nat /\ ConCp \in {0, 1} /\ ConDispatch \in Nat
           /\ ConCpu \in {0, 1} /\ ConRespuesta \in Nat /\ ConRx \in {0, 1}
           /\ ConHilo \in Nat
<1>1. ConHilo \in Nat
      BY HilosFinitos, FS_CardinalityType DEF ConHilo
<1>2. ConSem \in Nat /\ ConDispatch \in Nat /\ ConRespuesta \in Nat
      BY DEF Procesador, Tipos, TypeOK, Semaforos, ConSem, ConDispatch, ConRespuesta
<1>3. ConCp \in {0, 1} /\ ConCpu \in {0, 1} /\ ConRx \in {0, 1}
      BY DEF ConCp, ConCpu, ConRx, Si
<1>4. QED
      BY <1>1, <1>2, <1>3

\* With the process at one place, it is at no other.
LEMMA UnoSolo ==
    ASSUME Procesador
    PROVE  /\ pc["cp"] = "despacha" =>
                 /\ Len(dispatch) = 0 /\ pcb["cpu"] = Nadie /\ Len(respuesta) = 0
                 /\ pc["rx"] \notin PcRxProcesador
           /\ pcb["cpu"] \in Pid =>
                 Len(respuesta) = 0 /\ pc["rx"] \notin PcRxProcesador
           /\ pc["rx"] \in PcRxProcesador => Len(respuesta) = 0
<1>1. ConSem + ConCp + ConDispatch + ConCpu + ConRespuesta + ConRx + ConHilo = 1
      BY Suma DEF Procesador
<1>2. /\ ConCp = 1 => ConDispatch = 0 /\ ConCpu = 0 /\ ConRespuesta = 0 /\ ConRx = 0
      /\ ConCpu = 1 => ConRespuesta = 0 /\ ConRx = 0
      /\ ConRx = 1 => ConRespuesta = 0
      BY <1>1, Naturales
<1>3. /\ pc["cp"] = "despacha" => ConCp = 1
      /\ ConCpu = IF pcb["cpu"] = Nadie THEN 0 ELSE 1
      /\ ConRx = IF pc["rx"] \in PcRxProcesador THEN 1 ELSE 0
      BY DEF ConCp, ConCpu, ConRx, Si
<1>4. QED
      BY <1>2, <1>3, NadieNoEsProceso DEF ConDispatch, ConRespuesta

\* A step that leaves alone everything the three invariants speak of.
LEMMA Ajeno ==
    ASSUME Procesador, UNCHANGED <<dispatch, respuesta, nIO, hilo, timeValBefore>>,
           sem'["procesador"] = sem["procesador"], pcb'["cpu"] = pcb["cpu"],
           pc'["cp"] \in {"ready", "procesador"} <=> pc["cp"] \in {"ready", "procesador"},
           pc'["rx"] \in PcRxProcesador <=> pc["rx"] \in PcRxProcesador,
           \/ pc'["rx"] \notin Avisos
           \/ pc'["rx"] = pc["rx"] /\ pcb'["rx"] = pcb["rx"]
    PROVE  ProcesadorExclusivo' /\ Frescos' /\ Medida'
<1>1. ProcesadorExclusivo'
      BY DEF Procesador, ProcesadorExclusivo, Si, HilosEn
<1>2. Frescos'
      BY DEF Procesador, Frescos, SinHilo, Avisos
<1>3. Medida'
      BY DEF Procesador, Medida, MedicionPropia
<1>4. QED
      BY <1>1, <1>2, <1>3

-----------------------------------------------------------------------------
(* The threads.                                                            *)

LEMMA ProcesadorLp ==
    ASSUME Procesador, planifLargoPlazo
    PROVE  ProcesadorExclusivo' /\ Frescos' /\ Medida'
<1> USE DEF Paso, Toma, porProceso, datos, redCpu, Procesador, Tipos, TypeOK, Hilos,
            Semaforos
<1>1. CASE LpPlanif \/ LpMulti
      BY <1>1, Ajeno DEF LpPlanif, LpMulti, Espera, Wait
<1>2. CASE LpElige \/ LpMide
      BY <1>2, Ajeno DEF LpElige, LpMide, Decide
<1>3. CASE LpSacaNew \/ LpSacaSusp
      BY <1>3, Ajeno DEF LpSacaNew, LpSacaSusp, LpSaca
<1>4. CASE LpRespNew \/ LpRespSusp
      BY <1>4, Ajeno DEF LpRespNew, LpRespSusp, LpRespuesta
<1>5. CASE LpReady \/ LpReadyAvisa
      BY <1>5, Ajeno DEF LpReady, LpReadyAvisa, Agrega
<1>6. CASE LpAvisa
      BY <1>6, Ajeno DEF LpAvisa, enviarInterruptCPU
<1>7. CASE LpPost
      BY <1>7, Ajeno DEF LpPost, Despierta, Post
<1>8. QED
      BY <1>1, <1>2, <1>3, <1>4, <1>5, <1>6, <1>7 DEF planifLargoPlazo

LEMMA ProcesadorIo ==
    ASSUME Procesador, planifBloqueados
    PROVE  ProcesadorExclusivo' /\ Frescos' /\ Medida'
<1> USE DEF Paso, Toma, porProceso, datos, redCpu, Procesador, Tipos, TypeOK, Hilos,
            Semaforos
<1>1. CASE IoBloqueo
      BY <1>1, Ajeno DEF IoBloqueo, Espera, Wait
<1>2. CASE IoCola
      BY <1>2, Ajeno DEF IoCola, Extrae
<1>3. CASE IoTermina \/ IoMira
      BY <1>3, Ajeno DEF IoTermina, IoMira, Decide
<1>4. CASE IoOlvida
      BY <1>4, Ajeno DEF IoOlvida
<1>5. CASE IoSaca \/ IoSacaSusp
      BY <1>5, Ajeno DEF IoSaca, IoSacaSusp, Quita
<1>6. CASE IoReady \/ IoSuspReady
      BY <1>6, Ajeno DEF IoReady, IoSuspReady, Agrega
<1>7. CASE IoAvisa
      BY <1>7, Ajeno DEF IoAvisa, enviarInterruptCPU
<1>8. CASE IoPost \/ IoPostLp
      BY <1>8, Ajeno DEF IoPost, IoPostLp, Despierta, Post
<1>9. QED
      BY <1>1, <1>2, <1>3, <1>4, <1>5, <1>6, <1>7, <1>8 DEF planifBloqueados

LEMMA ProcesadorCp ==
    ASSUME Procesador, planifCortoPlazo
    PROVE  ProcesadorExclusivo' /\ Frescos' /\ Medida'
<1> USE DEF Paso, Toma, porProceso, datos, redCpu
<1>1. CASE CpReady
      BY <1>1, Ajeno DEF CpReady, Espera, Wait, Procesador, Tipos, TypeOK, Hilos, Semaforos
<1>2. CASE CpProcesador
      <2>1. /\ ConSem' = ConSem - 1 /\ ConCp = 0 /\ ConCp' = 1
            /\ UNCHANGED <<ConDispatch, ConCpu, ConRespuesta, ConRx, ConHilo>>
        BY <1>2 DEF CpProcesador, Espera, Wait, Procesador, Tipos, TypeOK, Hilos,
           Semaforos, Si, ConSem, ConCp, ConDispatch, ConCpu, ConRespuesta, ConRx,
           ConHilo, HilosEn
      <2>2. Frescos' /\ Medida'
        BY <1>2 DEF CpProcesador, Espera, Procesador, Tipos, TypeOK, Hilos, Frescos,
           SinHilo, Medida, MedicionPropia
      <2>3. QED
        BY <2>1, <2>2, Suma, Naturales DEF Procesador
<1>3. CASE algoritmo_FIFO \/ algoritmo_SRT
      BY <1>3, Ajeno DEF algoritmo_FIFO, Extrae, algoritmo_SRT, Procesador, Tipos,
         TypeOK, Hilos
<1>4. CASE CpQuita \/ CpExec
      BY <1>4, Ajeno DEF CpQuita, CpExec, Procesador, Tipos, TypeOK, Hilos
<1>5. CASE CpDespacha
      <2>1. pcb["cp"] \in Pid /\ dispatch \in Seq(Pid)
        BY <1>5 DEF CpDespacha, Procesador, Tipos, TypeOK, TieneProceso
      <2>2. /\ Len(dispatch') = Len(dispatch) + 1
            /\ \A i \in DOMAIN dispatch' : i \in DOMAIN dispatch \/ dispatch'[i] = pcb["cp"]
        BY <1>5, <2>1 DEF CpDespacha
      <2>3. /\ ConCp = 1 /\ ConCp' = 0 /\ ConDispatch' = ConDispatch + 1
            /\ UNCHANGED <<ConSem, ConCpu, ConRespuesta, ConRx, ConHilo>>
        BY <1>5, <2>2 DEF CpDespacha, Procesador, Tipos, TypeOK, Hilos, Si,
           ConSem, ConCp, ConDispatch, ConCpu, ConRespuesta, ConRx, ConHilo, HilosEn
      <2>4. Frescos'
        BY <1>5 DEF CpDespacha, Procesador, Tipos, TypeOK, Hilos, Frescos, SinHilo
      <2>5. Medida'
        BY <1>5, <2>1, <2>2, UnoSolo, NadieNoEsProceso, SMTT(30)
        DEF CpDespacha, Procesador, Tipos, TypeOK, Hilos, Medida, MedicionPropia, PcRxProcesador
      <2>6. QED
        BY <2>3, <2>4, <2>5, Suma, Naturales DEF Procesador
<1>6. QED
      BY <1>1, <1>2, <1>3, <1>4, <1>5 DEF planifCortoPlazo

LEMMA ProcesadorRx ==
    ASSUME Procesador, recibirMensajeCPU
    PROVE  ProcesadorExclusivo' /\ Frescos' /\ Medida'
<1> USE DEF Paso, Toma, porProceso, datos, redCpu
<1>1. CASE RxRecibe
      <2>1. /\ Head(respuesta) = respuesta[1] /\ 1 \in DOMAIN respuesta
            /\ Len(respuesta') = Len(respuesta) - 1
            /\ \A i \in DOMAIN respuesta' :
                    i + 1 \in DOMAIN respuesta /\ respuesta'[i] = respuesta[i + 1]
        BY <1>1 DEF RxRecibe, Procesador, Tipos, TypeOK
      <2>2. respuesta[1] \in [op : Avisos, pcb : Pid]
        BY <2>1, Elemento DEF Procesador, Tipos, TypeOK
      <2>3. /\ ConRx = 0 /\ ConRx' = 1 /\ ConRespuesta' = ConRespuesta - 1
            /\ UNCHANGED <<ConSem, ConCp, ConDispatch, ConCpu, ConHilo>>
        BY <1>1, <2>1, <2>2 DEF RxRecibe, Procesador, Tipos, TypeOK, Hilos, Si,
           ConSem, ConCp, ConDispatch, ConCpu, ConRespuesta, ConRx, ConHilo, HilosEn,
           PcRxProcesador, Avisos
      <2>4. /\ pc'["rx"] = respuesta[1].op /\ pcb'["rx"] = respuesta[1].pcb
            /\ pc["rx"] = "recibe" /\ pcb'["cpu"] = pcb["cpu"]
        BY <1>1, <2>1 DEF RxRecibe, Procesador, Tipos, TypeOK, Hilos
      <2>5. Frescos'
        <3>1. \A i \in DOMAIN respuesta' :
                 respuesta'[i].op = "BLOCK" => SinHilo(respuesta'[i].pcb)
          BY <2>1 DEF Procesador, Frescos
        <3>2. pc'["rx"] = "BLOCK" => SinHilo(pcb'["rx"])
          BY <2>1, <2>4 DEF Procesador, Frescos
        <3>3. QED
          BY <1>1, <3>1, <3>2 DEF RxRecibe, Procesador, Frescos, SinHilo
      <2>6. Medida'
        <3>1. /\ \A i \in DOMAIN respuesta' : respuesta'[i].pcb = timeValBefore
              /\ pcb'["rx"] = timeValBefore
          BY <2>1, <2>4 DEF Procesador, Medida
        <3>2. QED
          BY <1>1, <2>4, <3>1 DEF RxRecibe, Procesador, Medida, MedicionPropia
      <2>7. QED
        BY <2>3, <2>5, <2>6, Suma, Naturales DEF Procesador
<1>2. CASE RxBlock
      <2>1. /\ pcb["rx"] \in Pid /\ SinHilo(pcb["rx"]) /\ Len(respuesta) = 0
            /\ pc["rx"] \in PcRxProcesador
        BY <1>2, UnoSolo DEF RxBlock, Procesador, Frescos, Tipos, TieneProceso, Avisos,
           PcRxProcesador
      <2>2. Cardinality(HilosEn(Ocupado)') = Cardinality(HilosEn(Ocupado)) + 1
        BY <1>2, <2>1, HiloEntra DEF RxBlock, SinHilo, Ocupado, Procesador, Tipos, TypeOK
      <2>3. /\ ConRx = 1 /\ ConRx' = 0 /\ ConHilo' = ConHilo + 1
            /\ UNCHANGED <<ConSem, ConCp, ConDispatch, ConCpu, ConRespuesta>>
        BY <1>2, <2>1, <2>2 DEF RxBlock, Procesador, Tipos, TypeOK, Hilos, Si,
           ConSem, ConCp, ConDispatch, ConCpu, ConRespuesta, ConRx, ConHilo,
           PcRxProcesador, Avisos
      <2>4. \A q \in Pid, m \in 1..MaxIO :
                hilo'[q][m] = IF q = pcb["rx"] /\ m = nIO[q] THEN "exec" ELSE hilo[q][m]
        BY <1>2, <2>1 DEF RxBlock, SinHilo, Procesador, Tipos, TypeOK
      <2>5. Frescos'
        BY <1>2, <2>1, <2>4, MaxIONatural DEF RxBlock, Procesador, Tipos, TypeOK, Hilos, Frescos, SinHilo
      <2>6. Medida'
        BY <1>2 DEF RxBlock, Procesador, Tipos, TypeOK, Hilos, Medida, MedicionPropia, Avisos
      <2>7. QED
        BY <2>3, <2>5, <2>6, Suma, Naturales DEF Procesador
<1>3. CASE RxExit
      BY <1>3, Ajeno DEF RxExit, Quita, Procesador, Tipos, TypeOK, Hilos,
         PcRxProcesador, Avisos
<1>4. CASE RxExitProcesador \/ RxIntProcesador
      <2>1. /\ ConRx = 1 /\ ConRx' = 0 /\ ConSem' = ConSem + 1
            /\ UNCHANGED <<ConCp, ConDispatch, ConCpu, ConRespuesta, ConHilo>>
        BY <1>4 DEF RxExitProcesador, RxIntProcesador, Despierta, Post,
           Procesador, Tipos, TypeOK, Hilos, Semaforos, Si, ConSem, ConCp, ConDispatch,
           ConCpu, ConRespuesta, ConRx, ConHilo, HilosEn, PcRxProcesador, Avisos
      <2>2. pc'["rx"] # "BLOCK" /\ UNCHANGED <<nIO, hilo, respuesta>>
        BY <1>4 DEF RxExitProcesador, RxIntProcesador, Despierta, Paso, Procesador, Tipos,
           TypeOK, Hilos, porProceso, datos, redCpu, redMem, afuera
      <2>3. Frescos'
        BY <2>2 DEF Procesador, Frescos, SinHilo
      <2>4. Medida'
        BY <1>4 DEF RxExitProcesador, RxIntProcesador, Despierta, Procesador, Tipos,
           TypeOK, Hilos, Medida, MedicionPropia, Avisos
      <2>5. QED
        BY <2>1, <2>3, <2>4, Suma, Naturales DEF Procesador
<1>5. CASE RxExitAvisa
      BY <1>5, Ajeno DEF RxExitAvisa, Procesador, Tipos, TypeOK, Hilos, PcRxProcesador, Avisos
<1>6. CASE RxExitLista
      BY <1>6, Ajeno DEF RxExitLista, Procesador, Tipos, TypeOK, Hilos, PcRxProcesador, Avisos
<1>7. CASE RxExitMulti \/ RxIntSem
      BY <1>7, Ajeno DEF RxExitMulti, RxIntSem, Despierta, Post, Procesador, Tipos, TypeOK,
         Hilos, Semaforos, PcRxProcesador, Avisos
<1>8. CASE RxInterrupt
      BY <1>8, Ajeno DEF RxInterrupt, Procesador, Tipos, TypeOK, Hilos, PcRxProcesador, Avisos
<1>9. CASE RxIntReady
      BY <1>9, Ajeno DEF RxIntReady, Agrega, Procesador, Tipos, TypeOK, Hilos,
         PcRxProcesador, Avisos
<1>10. QED
      BY <1>1, <1>2, <1>3, <1>4, <1>5, <1>6, <1>7, <1>8, <1>9 DEF recibirMensajeCPU

\* A hiloSuspendedor touches the sum only when it posts sem_procesador.
LEMMA ProcesadorHilo ==
    ASSUME Procesador, NEW p \in Pid, NEW n \in 1..MaxIO, hiloSuspendedor(p, n)
    PROVE  ProcesadorExclusivo' /\ Frescos' /\ Medida'
<1>1. hilo \in [Pid -> [1..MaxIO -> PcHilo]] /\ sem \in [Semaforos -> Nat]
      BY DEF Procesador, Tipos, TypeOK
<1>2. PICK a \in PcHilo \ {"nada"}, b \in PcHilo \ {"nada"} : Avanza(p, n, a, b)
      BY DEF hiloSuspendedor, HiloExec, HiloProcesador, HiloBlock, HiloCola,
         HiloBloqueo, HiloVence, HiloSaca, HiloAvisa, HiloSusp, HiloMulti, PcHilo
<1>3. \A q \in Pid, m \in 1..MaxIO :
            hilo[q][m] = "nada" => hilo'[q][m] = "nada"
      BY <1>1, <1>2 DEF Avanza
<1>4. UNCHANGED <<pc, pcb, datos, redCpu>>
      BY <1>2 DEF Avanza
<1>5. Frescos' /\ Medida'
      <2>1. \A q \in Pid : SinHilo(q) => SinHilo(q)'
        BY <1>3, <1>4 DEF SinHilo, datos
      <2>2. \A i \in DOMAIN respuesta : respuesta[i].pcb \in Pid
        <3>1. \A i \in DOMAIN respuesta : respuesta[i] \in [op : Avisos, pcb : Pid]
          BY Elemento DEF Procesador, Tipos, TypeOK
        <3>2. QED
          BY <3>1
      <2>3. pc["rx"] = "BLOCK" => pcb["rx"] \in Pid
        BY DEF Procesador, Tipos, TieneProceso, Avisos
      <2>4. Frescos'
        BY <1>3, <1>4, <2>1, <2>2, <2>3 DEF datos, redCpu, Procesador, Frescos
      <2>5. Medida'
        BY <1>4 DEF datos, redCpu, Procesador, Medida, MedicionPropia
      <2>6. QED
        BY <2>4, <2>5
<1>6. UNCHANGED <<ConCp, ConDispatch, ConCpu, ConRespuesta, ConRx>>
      BY <1>4 DEF redCpu, ConCp, ConDispatch, ConCpu, ConRespuesta, ConRx
<1>7. CASE HiloProcesador(p, n)
      <2>1. Cardinality(HilosEn(Ocupado)') = Cardinality(HilosEn(Ocupado)) - 1
        <3>1. /\ hilo[p][n] \in Ocupado /\ "block" \notin Ocupado
              /\ hilo' = [hilo EXCEPT ![p][n] = "block"]
          BY <1>7 DEF HiloProcesador, Avanza, Ocupado
        <3>2. QED
          BY <1>1, <3>1, HiloSale
      <2>2. ConSem' = ConSem + 1
        BY <1>1, <1>7 DEF HiloProcesador, Post, ConSem, Semaforos
      <2>3. QED
        BY <1>5, <1>6, <2>1, <2>2, Suma, Naturales DEF ConHilo, Procesador
<1>8. CASE ~HiloProcesador(p, n)
      <2>1. ConSem' = ConSem
        BY <1>1, <1>8 DEF hiloSuspendedor, HiloExec, HiloBlock, HiloCola, HiloBloqueo,
           HiloVence, HiloSaca, HiloAvisa, HiloSusp, HiloMulti, Post, ConSem, Semaforos
      <2>2. PICK c : /\ hilo[p][n] \in Ocupado <=> c \in Ocupado
                     /\ hilo' = [hilo EXCEPT ![p][n] = c]
        BY <1>8 DEF hiloSuspendedor, HiloExec, HiloBlock, HiloCola, HiloBloqueo,
           HiloVence, HiloSaca, HiloAvisa, HiloSusp, HiloMulti, Avanza, Ocupado
      <2>3. HilosEn(Ocupado)' = HilosEn(Ocupado)
        BY <1>1, <2>2, HiloQueda
      <2>4. QED
        BY <1>5, <1>6, <2>1, <2>3, Suma, Naturales DEF ConHilo, Procesador
<1>9. QED
      BY <1>7, <1>8

\* The CPU gives the process back: its answer is alone in the socket.
LEMMA Devuelve ==
    ASSUME Procesador, NEW op \in Avisos, NEW b, CpuDevuelve(op, b)
    PROVE  /\ pcb["cpu"] \in Pid /\ hilo' = hilo
           /\ respuesta' = <<[op |-> op, pcb |-> pcb["cpu"]]>>
           /\ pc'["rx"] # "BLOCK"
           /\ ProcesadorExclusivo' /\ Medida'
<1> USE DEF Paso, Toma, porProceso, datos, redCpu
<1>1. pcb["cpu"] \in Pid /\ Len(respuesta) = 0 /\ pc["rx"] \notin PcRxProcesador
      BY UnoSolo DEF CpuDevuelve, Procesador, Tipos, TieneProceso
<1>2. respuesta' = <<[op |-> op, pcb |-> pcb["cpu"]]>>
      BY <1>1 DEF CpuDevuelve, Procesador, Tipos, TypeOK
<1>3. /\ ConCpu = 1 /\ ConCpu' = 0 /\ ConRespuesta = 0 /\ ConRespuesta' = 1
      /\ UNCHANGED <<ConSem, ConCp, ConDispatch, ConRx, ConHilo>>
      BY <1>1, <1>2, NadieNoEsProceso DEF CpuDevuelve, Procesador, Tipos, TypeOK,
         Hilos, Si, ConSem, ConCp, ConDispatch, ConCpu, ConRespuesta, ConRx, ConHilo, HilosEn
<1>4. Medida'
      BY <1>1, <1>2, NadieNoEsProceso DEF CpuDevuelve, Procesador, Tipos, TypeOK,
         Hilos, Medida, MedicionPropia, PcRxProcesador
<1>5. pc'["rx"] # "BLOCK"
      BY <1>1 DEF CpuDevuelve, Procesador, Tipos, TypeOK, Hilos, PcRxProcesador, Avisos
<1>6. hilo' = hilo
      BY DEF CpuDevuelve
<1>7. QED
      BY <1>1, <1>2, <1>3, <1>4, <1>5, <1>6, Suma, Naturales DEF Procesador

LEMMA ProcesadorCpu ==
    ASSUME Procesador, iniciarDispatch
    PROVE  ProcesadorExclusivo' /\ Frescos' /\ Medida'
<1> USE DEF Paso, Toma, porProceso, datos, redCpu
<1>1. CASE CpuRecibe
      <2>1. /\ Head(dispatch) = dispatch[1] /\ 1 \in DOMAIN dispatch
            /\ dispatch[1] \in Pid
            /\ Len(dispatch') = Len(dispatch) - 1
            /\ \A i \in DOMAIN dispatch' :
                    i + 1 \in DOMAIN dispatch /\ dispatch'[i] = dispatch[i + 1]
        BY <1>1, Elemento DEF CpuRecibe, Procesador, Tipos, TypeOK
      <2>2. pcb["cpu"] = Nadie
        BY <1>1 DEF CpuRecibe, Procesador, Tipos, TypeOK, TieneProceso, Hilos
      <2>3. /\ ConCpu = 0 /\ ConCpu' = 1 /\ ConDispatch' = ConDispatch - 1
            /\ UNCHANGED <<ConSem, ConCp, ConRespuesta, ConRx, ConHilo>>
        BY <1>1, <2>1, <2>2, NadieNoEsProceso DEF CpuRecibe, Procesador, Tipos, TypeOK,
           Hilos, Si, ConSem, ConCp, ConDispatch, ConCpu, ConRespuesta, ConRx, ConHilo, HilosEn
      <2>4. Frescos'
        BY <1>1 DEF CpuRecibe, Procesador, Tipos, TypeOK, Hilos, Frescos, SinHilo
      <2>5. Medida'
        BY <1>1, <2>1 DEF CpuRecibe, Procesador, Tipos, TypeOK, Hilos, Medida, MedicionPropia
      <2>6. QED
        BY <2>3, <2>4, <2>5, Suma, Naturales DEF Procesador
<1>2. CASE CpuIO
      <2>1. CpuDevuelve("BLOCK", "libre")
        BY <1>2 DEF CpuIO
      <2>2. /\ pcb["cpu"] \in Pid /\ hilo' = hilo /\ pc'["rx"] # "BLOCK"
            /\ respuesta' = <<[op |-> "BLOCK", pcb |-> pcb["cpu"]]>>
            /\ ProcesadorExclusivo' /\ Medida'
        BY <2>1, Devuelve DEF Avisos
      <2>3. /\ nIO[pcb["cpu"]] \in 0..MaxIO /\ nIO[pcb["cpu"]] < MaxIO
            /\ nIO' = [nIO EXCEPT ![pcb["cpu"]] = nIO[pcb["cpu"]] + 1]
            /\ nIO \in [Pid -> 0..MaxIO]
        BY <1>2, <2>2 DEF CpuIO, Procesador, Tipos, TypeOK
      <2>4. nIO'[pcb["cpu"]] = nIO[pcb["cpu"]] + 1 /\ nIO'[pcb["cpu"]] \in 1..MaxIO
        BY <2>2, <2>3, MaxIONatural
      <2>5. PICK p \in Pid : p = pcb["cpu"] /\ SinHilo(p)'
        <3>1. hilo[pcb["cpu"]][nIO[pcb["cpu"]] + 1] = "nada"
          BY <2>2, <2>3, <2>4, MaxIONatural DEF Procesador, Frescos
        <3>2. PICK p \in Pid : p = pcb["cpu"]
          BY <2>2
        <3>3. nIO'[p] \in 1..MaxIO /\ hilo'[p][nIO'[p]] = "nada"
          BY <2>2, <2>4, <3>1, <3>2
        <3>4. QED
          BY <3>2, <3>3 DEF SinHilo
      <2>6. \A q \in Pid, n \in 1..MaxIO : n > nIO'[q] => hilo'[q][n] = "nada"
        <3> SUFFICES ASSUME NEW q \in Pid, NEW n \in 1..MaxIO, n > nIO'[q]
                     PROVE  n > nIO[q]
          BY <2>2 DEF Procesador, Frescos
        <3>1. QED
          BY <2>3, <2>4
      <2>7. \A i \in DOMAIN respuesta' : respuesta'[i].pcb = p
        BY <2>2, <2>5
      <2>8. Frescos'
        <3>1. (\A i \in DOMAIN respuesta : SinHilo(respuesta[i].pcb))'
          BY <2>5, <2>7
        <3>2. QED
          BY <2>2, <2>6, <3>1 DEF Frescos
      <2>9. QED
        BY <2>2, <2>8
<1>3. ASSUME NEW op \in Avisos \ {"BLOCK"}, NEW b, CpuDevuelve(op, b), UNCHANGED nIO
      PROVE  ProcesadorExclusivo' /\ Frescos' /\ Medida'
      <2>1. \A i \in DOMAIN respuesta' : respuesta'[i].op # "BLOCK"
        BY <1>3, Devuelve
      <2>2. Frescos'
        BY <1>3, <2>1, Devuelve DEF Procesador, Frescos
      <2>3. QED
        BY <1>3, <2>2, Devuelve
<1>4. CASE CpuExit
      BY <1>3, <1>4 DEF CpuExit, Avisos
<1>5. CASE CpuInterrupt
      BY <1>3, <1>5 DEF CpuInterrupt, Avisos
<1>6. CASE CpuLimpia
      BY <1>6, Ajeno DEF CpuLimpia, Procesador, Tipos, TypeOK, Hilos
<1>7. QED
      BY <1>1, <1>2, <1>4, <1>5, <1>6 DEF iniciarDispatch

-----------------------------------------------------------------------------
(* The theorems.                                                           *)

LEMMA ProcesadorInit == Init => Procesador
<1> SUFFICES ASSUME Init
             PROVE  Procesador
    OBVIOUS
<1>1. Tipos
      BY TiposInit
<1>2. HilosEn(Ocupado) = {}
      BY DEF Init, HilosEn, Ocupado
<1>3. ConHilo = 0
      BY <1>2, FS_EmptySet DEF ConHilo
<1>4. /\ ConSem = 1 /\ ConCp = 0 /\ ConDispatch = 0 /\ ConCpu = 0
      /\ ConRespuesta = 0 /\ ConRx = 0
      BY DEF Init, Semaforos, Hilos, Si, ConSem, ConCp, ConDispatch, ConCpu,
         ConRespuesta, ConRx, PcRxProcesador, Avisos
<1>5. Frescos /\ Medida
      BY NadieNoEsProceso DEF Init, Frescos, Medida, MedicionPropia, Hilos, Avisos
<1>6. QED
      BY <1>1, <1>3, <1>4, <1>5, Suma DEF Procesador

LEMMA ProcesadorNext == Procesador /\ [Next]_vars => Procesador'
<1> SUFFICES ASSUME Procesador, [Next]_vars
             PROVE  Procesador'
    OBVIOUS
<1>1. Tipos'
      BY TiposNext DEF Procesador
<1>2. CASE UNCHANGED vars
      BY <1>1, <1>2, Ajeno DEF vars, Procesador
<1>3. ASSUME NEW p \in Pid, CrearNew(p) \/ CrearPost(p)
      PROVE  ProcesadorExclusivo' /\ Frescos' /\ Medida'
      BY <1>3, Ajeno DEF CrearNew, CrearPost, Post, datos, redCpu, Procesador, Tipos,
         TypeOK, Semaforos
<1>4. CASE iniciarInterrupt
      BY <1>1, <1>4, Ajeno DEF iniciarInterrupt, porProceso, datos, Procesador
<1>5. CASE conexionKernel
      BY <1>1, <1>5, Ajeno DEF conexionKernel, porProceso, datos, redCpu, Procesador
<1>6. QED
      BY <1>1, <1>2, <1>3, <1>4, <1>5, ProcesadorLp, ProcesadorCp, ProcesadorRx,
         ProcesadorHilo, ProcesadorIo, ProcesadorCpu DEF Next, Procesador

\* The processor is never given to two processes, nor sem_procesador posted
\* twice for one, by whichever of recibirMensajeCPU and hiloSuspendedor posts it.
THEOREM UnSoloProcesador == Spec => []ProcesadorExclusivo
<1>1. Init => Procesador
      BY ProcesadorInit
<1>2. Procesador /\ [Next]_vars => Procesador'
      BY ProcesadorNext
<1>3. Procesador => ProcesadorExclusivo
      BY DEF Procesador
<1>4. QED
      BY <1>1, <1>2, <1>3, PTL DEF Spec

\* The burst that recibirMensajeCPU measures from the unlocked timeValBefore is
\* always that of the process that came back.
THEOREM MedicionDelProceso == Spec => []MedicionPropia
<1>1. Init => Procesador
      BY ProcesadorInit
<1>2. Procesador /\ [Next]_vars => Procesador'
      BY ProcesadorNext
<1>3. Procesador => MedicionPropia
      BY DEF Procesador, Medida
<1>4. QED
      BY <1>1, <1>2, <1>3, PTL DEF Spec

=============================================================================
