------------------------------- MODULE Kernel -------------------------------
(***************************************************************************)
(* The Kernel process: its four long-lived threads, the thread that is     *)
(* created for each console and the one created for each I/O, the lists    *)
(* and semaphores they share, and the sockets to the CPU and the memory.   *)
(*                                                                         *)
(* A step is what a thread does between two points where another thread    *)
(* can see the difference: one critical section, one semaphore operation,  *)
(* one unlocked read, one message.  Each list is protected by a mutex of   *)
(* its own, so a critical section is one step.                             *)
(*                                                                         *)
(* The CPU and the memory appear only as the Kernel sees them: the CPU     *)
(* returns the process it was given with one of three codes, the memory    *)
(* serves one request at a time, in the order in which they were sent.     *)
(***************************************************************************)
EXTENDS Integers, SequencesExt, FiniteSets

CONSTANTS
    Pid,                      \* processes the consoles submit
    Nadie,                    \* "no process"
    MaxIO,                    \* bound: I/O instructions of one program
    GRADO_MULTIPROGRAMACION,  \* the Kernel's configuration
    ALGORITMO,
    Rafagas,                  \* estimated remaining bursts told apart
    ESTIMACION_INICIAL

ASSUME ProcesosFinitos == IsFiniteSet(Pid)
ASSUME NadieNoEsProceso == Nadie \notin Pid
ASSUME MaxIONatural == MaxIO \in Nat
ASSUME GradoPositivo == GRADO_MULTIPROGRAMACION \in Nat \ {0}
ASSUME AlgoritmoConocido == ALGORITMO \in {"FIFO", "SRT"}
ASSUME RafagasEnteras == Rafagas \subseteq Int /\ ESTIMACION_INICIAL \in Rafagas

VARIABLES
    cola,           \* the lists used as queues
    lista,          \* the lists searched by process id: how often each id is in
    sem,            \* the five semaphores
    crear,          \* where the thread crearPCB of each process stands
    hilo,           \* hiloSuspendedor, one for each I/O of each process
    pc,             \* where each of the other threads stands
    pcb,            \* the process it has at hand
    nIO,            \* I/O instructions the process has executed
    rafaga,         \* estimacion_actual - ejecutados_total of its PCB
    timeValBefore,  \* the process whose dispatch was last timed
    dispatch,       \* socketCpuDispatch, towards the CPU
    respuesta,      \* socketCpuDispatch, towards the Kernel
    interrupt,      \* messages in socketCpuInterrupt
    memoria,        \* socketMemoriaSwap, towards the memory
    respMem,        \* answers in socketMemoriaSwap
    interrupciones, \* the CPU's flag
    residente       \* the processes the memory holds loaded

vars == <<cola, lista, sem, crear, hilo, pc, pcb, nIO, rafaga,
          timeValBefore, dispatch, respuesta, interrupt, memoria, respMem,
          interrupciones, residente>>

\* What most actions leave alone, for UNCHANGED.
porProceso == <<crear, hilo>>
datos == <<nIO, rafaga, timeValBefore>>
redCpu == <<dispatch, respuesta, interrupt>>
redMem == <<memoria, respMem>>
afuera == <<interrupciones, residente>>

Colas == {"NEW", "READY", "READY_SUSPENDED", "COLA_IO"}
Listas == {"EXEC", "BLOCKED", "BLOCKED_SUSPENDED", "EXIT"}
Semaforos == {"planif_largo_plazo", "contador_multiprogramacion", "ready",
              "procesador", "bloqueo"}

\* planifLargoPlazo, planifCortoPlazo, recibirMensajeCPU, planifBloqueados,
\* and the CPU's dispatch thread.
Hilos == {"lp", "cp", "rx", "io", "cpu"}

Avisos == {"BLOCK", "EXIT", "INTERRUPT"}
Pedidos == {"PASAR_A_READY", "SUSPENDER", "PASAR_A_EXIT"}

\* Where a thread may stand; the name says what it does next.
PcCrear == {"new", "post", "fin"}
PcLp == {"planif", "multi", "elige", "susp", "new", "respSusp", "respNew",
         "mide", "ready", "readyAvisa", "avisa", "post"}
PcCp == {"ready", "procesador", "elige", "quita", "exec", "despacha"}
PcRx == {"recibe", "exitProcesador", "exitAvisa", "exitLista", "exitMulti",
         "intReady", "intSem", "intProcesador"} \cup Avisos
PcIo == {"bloqueo", "cola", "duerme", "saca", "ready", "avisa", "post",
         "mira", "sacaSusp", "suspReady", "postLp"}
PcHilo == {"nada", "exec", "procesador", "block", "cola", "bloqueo", "duerme",
           "saca", "avisa", "susp", "multi", "fin"}
PcCpu == {"libre", "ejecuta", "limpia"}

-----------------------------------------------------------------------------
(* Lists, semaphores and sockets.                                          *)

Encolar(c, p) == cola' = [cola EXCEPT ![c] = Append(@, p)]
SacarPrimero(c) == cola' = [cola EXCEPT ![c] = Tail(@)]

\* list_remove_by_condition by id: the first match goes, none is no error.
Anotar(l, p) == lista' = [lista EXCEPT ![l][p] = @ + 1]
Borrar(l, p) == lista' = [lista EXCEPT ![l][p] = IF @ > 0 THEN @ - 1 ELSE 0]
Esta(l, p) == lista[l][p] > 0

\* Variant: a wait that does not block (sem_trywait, result ignored).
WaitSinBloquear(s) == sem' = [sem EXCEPT ![s] = @ - 1]

Wait(s) == sem[s] > 0 /\ sem' = [sem EXCEPT ![s] = @ - 1]
Post(s) == sem' = [sem EXCEPT ![s] = @ + 1]

Pedir(t, p) == memoria' = Append(memoria, [tipo |-> t, pid |-> p])

-----------------------------------------------------------------------------
(* The steps a long-lived thread t is made of, from a to b.                *)

Paso(t, a, b) == pc[t] = a /\ pc' = [pc EXCEPT ![t] = b]
Toma(t, p) == pcb' = [pcb EXCEPT ![t] = p]

Espera(t, a, s, b) ==
    /\ Paso(t, a, b) /\ Wait(s)
    /\ UNCHANGED <<cola, lista, porProceso, pcb, datos, redCpu, redMem, afuera>>

Despierta(t, a, s, b) ==
    /\ Paso(t, a, b) /\ Post(s)
    /\ UNCHANGED <<cola, lista, porProceso, pcb, datos, redCpu, redMem, afuera>>

\* Decides on what it has read, and does nothing else.
Decide(t, a, b) ==
    /\ Paso(t, a, b)
    /\ UNCHANGED <<cola, lista, sem, porProceso, pcb, datos, redCpu, redMem, afuera>>

\* list_remove(LISTA, 0)
Extrae(t, a, c, b) ==
    /\ Paso(t, a, b)
    /\ cola[c] # <<>>
    /\ Toma(t, Head(cola[c]))
    /\ SacarPrimero(c)
    /\ UNCHANGED <<lista, sem, porProceso, datos, redCpu, redMem, afuera>>

\* pasar_a_ready, pasar_a_susp_ready
Agrega(t, a, c, b) ==
    /\ Paso(t, a, b)
    /\ Encolar(c, pcb[t])
    /\ Toma(t, Nadie)
    /\ UNCHANGED <<lista, sem, porProceso, datos, redCpu, redMem, afuera>>

Quita(t, a, l, b) ==
    /\ Paso(t, a, b)
    /\ Borrar(l, pcb[t])
    /\ UNCHANGED <<cola, sem, porProceso, pcb, datos, redCpu, redMem, afuera>>

enviarInterruptCPU(t, a, b) ==
    /\ Paso(t, a, b)
    /\ interrupt' = interrupt + 1
    /\ UNCHANGED <<cola, lista, sem, porProceso, pcb, datos, dispatch,
                   respuesta, redMem, afuera>>

-----------------------------------------------------------------------------
Init ==
    /\ cola = [c \in Colas |-> <<>>]
    /\ lista = [l \in Listas |-> [p \in Pid |-> 0]]
    /\ sem = [s \in Semaforos |->
                IF s = "contador_multiprogramacion" THEN GRADO_MULTIPROGRAMACION
                ELSE IF s = "procesador" THEN 1 ELSE 0]
    /\ crear = [p \in Pid |-> "new"]
    /\ hilo = [p \in Pid |-> [n \in 1..MaxIO |-> "nada"]]
    /\ pc = [lp |-> "planif", cp |-> "ready", rx |-> "recibe", io |-> "bloqueo",
             cpu |-> "libre"]
    /\ pcb = [t \in Hilos |-> Nadie]
    /\ nIO = [p \in Pid |-> 0]
    /\ rafaga = [p \in Pid |-> ESTIMACION_INICIAL]
    /\ timeValBefore = Nadie
    /\ dispatch = <<>> /\ respuesta = <<>> /\ interrupt = 0
    /\ memoria = <<>> /\ respMem = 0
    /\ interrupciones = FALSE
    /\ residente = {}

-----------------------------------------------------------------------------
(* crearPCB: a console's program becomes a process in NEW.                 *)

CrearNew(p) ==
    /\ crear[p] = "new"
    /\ Encolar("NEW", p)
    /\ crear' = [crear EXCEPT ![p] = "post"]
    /\ UNCHANGED <<lista, sem, hilo, pc, pcb, datos, redCpu, redMem, afuera>>

CrearPost(p) ==
    /\ crear[p] = "post"
    /\ Post("planif_largo_plazo")
    /\ crear' = [crear EXCEPT ![p] = "fin"]
    /\ UNCHANGED <<cola, lista, hilo, pc, pcb, datos, redCpu, redMem, afuera>>

-----------------------------------------------------------------------------
(* planifLargoPlazo: NEW or READY_SUSPENDED to READY, one at a time.       *)

LpPlanif == Espera("lp", "planif", "planif_largo_plazo", "multi")
LpMulti == Espera("lp", "multi", "contador_multiprogramacion", "elige")

\* list_is_empty(LISTA_READY_SUSPENDED) is read without the mutex.
LpElige ==
    Decide("lp", "elige", IF cola["READY_SUSPENDED"] # <<>> THEN "susp" ELSE "new")

\* The removal from the list and the request to the memory that follows it.
LpSaca(a, c, b) ==
    /\ Paso("lp", a, b)
    /\ cola[c] # <<>>
    /\ Toma("lp", Head(cola[c]))
    /\ SacarPrimero(c)
    /\ Pedir("PASAR_A_READY", Head(cola[c]))
    /\ UNCHANGED <<lista, sem, porProceso, datos, redCpu, respMem, afuera>>

LpSacaNew == LpSaca("new", "NEW", "respNew")
LpSacaSusp == LpSaca("susp", "READY_SUSPENDED", "respSusp")

\* Variant: the answer is not waited for.
LpSinEsperar(a, b) ==
    Paso("lp", a, b)
        /\ UNCHANGED <<cola, lista, sem, porProceso, pcb, datos, redCpu, redMem, afuera>>

LpRespuesta(a, b) ==
    /\ Paso("lp", a, b)
    /\ respMem > 0
    /\ respMem' = respMem - 1
    /\ UNCHANGED <<cola, lista, sem, porProceso, pcb, datos, redCpu, memoria, afuera>>

LpRespNew == LpRespuesta("respNew", "mide")
LpRespSusp ==
    LpRespuesta("respSusp", IF ALGORITMO = "SRT" THEN "readyAvisa" ELSE "ready")

\* size = list_size(LISTA_EXEC), used after the next critical section.
LpMide ==
    Decide("lp", "mide",
           IF ALGORITMO = "SRT" /\ \E p \in Pid : Esta("EXEC", p)
           THEN "readyAvisa" ELSE "ready")

LpReady == Agrega("lp", "ready", "READY", "post")
LpReadyAvisa == Agrega("lp", "readyAvisa", "READY", "avisa")
LpAvisa == enviarInterruptCPU("lp", "avisa", "post")
LpPost == Despierta("lp", "post", "ready", "planif")

planifLargoPlazo ==
    \/ LpPlanif \/ LpMulti \/ LpElige \/ LpSacaNew \/ LpSacaSusp \/ LpRespNew
    \/ LpRespSusp \/ LpMide \/ LpReady \/ LpReadyAvisa \/ LpAvisa \/ LpPost

-----------------------------------------------------------------------------
(* planifCortoPlazo: READY to EXEC when the processor is free.             *)

CpReady == Espera("cp", "ready", "ready", "procesador")

\* Variant: dispatches without waiting for the processor.
CpSinProcesador == Decide("cp", "procesador", "elige")

CpProcesador == Espera("cp", "procesador", "procesador", "elige")

\* Variant: list_get where list_remove is meant.
algoritmo_FIFO_SinSacar ==
    /\ ALGORITMO = "FIFO"
    /\ Paso("cp", "elige", "exec")
    /\ cola["READY"] # <<>>
    /\ Toma("cp", Head(cola["READY"]))
    /\ UNCHANGED <<cola, lista, sem, porProceso, datos, redCpu, redMem, afuera>>

algoritmo_FIFO ==
    /\ ALGORITMO = "FIFO"
    /\ Extrae("cp", "elige", "READY", "exec")

\* Variant: the comparison keeps the last of the shortest.
eleccion_SRT_Ultimo(s, i) ==
    \A j \in DOMAIN s :
        rafaga[s[i]] < rafaga[s[j]] \/ (rafaga[s[i]] = rafaga[s[j]] /\ i >= j)

\* list_get_minimum keeps the first of the shortest.
eleccion_SRT(s, i) ==
    \A j \in DOMAIN s :
        rafaga[s[i]] < rafaga[s[j]] \/ (rafaga[s[i]] = rafaga[s[j]] /\ i <= j)

algoritmo_SRT ==
    /\ ALGORITMO = "SRT"
    /\ Paso("cp", "elige", "quita")
    /\ \E i \in DOMAIN cola["READY"] :
            eleccion_SRT(cola["READY"], i) /\ Toma("cp", cola["READY"][i])
    /\ UNCHANGED <<cola, lista, sem, porProceso, datos, redCpu, redMem, afuera>>

\* The first PCB with the id of p.
EsElPrimero(s, p, i) == s[i] = p /\ \A j \in 1..(i - 1) : s[j] # p

CpQuita ==
    /\ Paso("cp", "quita", "exec")
    /\ \E i \in DOMAIN cola["READY"] :
            /\ EsElPrimero(cola["READY"], pcb["cp"], i)
            /\ cola' = [cola EXCEPT !["READY"] = RemoveAt(@, i)]
    /\ UNCHANGED <<lista, sem, porProceso, pcb, datos, redCpu, redMem, afuera>>

CpExec ==
    /\ Paso("cp", "exec", "despacha")
    /\ Anotar("EXEC", pcb["cp"])
    /\ UNCHANGED <<cola, sem, porProceso, pcb, datos, redCpu, redMem, afuera>>

\* Variant: the start of the burst is not taken.
CpDespachaSinHora ==
    /\ Paso("cp", "despacha", "ready")
    /\ dispatch' = Append(dispatch, pcb["cp"])
    /\ Toma("cp", Nadie)
    /\ UNCHANGED <<cola, lista, sem, porProceso, datos, respuesta,
                   interrupt, redMem, afuera>>

CpDespacha ==
    /\ Paso("cp", "despacha", "ready")
    /\ timeValBefore' = pcb["cp"]
    /\ dispatch' = Append(dispatch, pcb["cp"])
    /\ Toma("cp", Nadie)
    /\ UNCHANGED <<cola, lista, sem, porProceso, nIO, rafaga, respuesta,
                   interrupt, redMem, afuera>>

planifCortoPlazo ==
    \/ CpReady \/ CpProcesador \/ algoritmo_FIFO \/ algoritmo_SRT \/ CpQuita
    \/ CpExec \/ CpDespacha

-----------------------------------------------------------------------------
(* recibirMensajeCPU: what the CPU returns.  The time since timeValBefore  *)
(* is charged to the process that came back.                               *)

RxRecibe ==
    /\ respuesta # <<>>
    /\ Paso("rx", "recibe", Head(respuesta).op)
    /\ Toma("rx", Head(respuesta).pcb)
    /\ respuesta' = Tail(respuesta)
    /\ UNCHANGED <<cola, lista, sem, porProceso, datos, dispatch,
                   interrupt, redMem, afuera>>

\* Variant: the processor is given back here and again by hiloSuspendedor.
RxBlockPostea ==
    /\ Paso("rx", "BLOCK", "recibe")
    /\ \E r \in Rafagas : rafaga' = [rafaga EXCEPT ![pcb["rx"]] = r]
    /\ hilo' = [hilo EXCEPT ![pcb["rx"]][nIO[pcb["rx"]]] = "exec"]
    /\ Toma("rx", Nadie)
    /\ Post("procesador")
    /\ UNCHANGED <<cola, lista, crear, nIO, timeValBefore, redCpu,
                   redMem, afuera>>

\* A new burst begins: the estimate is the exponential mean, any value.
RxBlock ==
    /\ Paso("rx", "BLOCK", "recibe")
    /\ \E r \in Rafagas : rafaga' = [rafaga EXCEPT ![pcb["rx"]] = r]
    /\ hilo' = [hilo EXCEPT ![pcb["rx"]][nIO[pcb["rx"]]] = "exec"]
    /\ Toma("rx", Nadie)
    /\ UNCHANGED <<cola, lista, sem, crear, nIO, timeValBefore, redCpu,
                   redMem, afuera>>

\* Variant: the process stays in LISTA_EXEC.
RxExitSinQuitar == Decide("rx", "EXIT", "exitProcesador")

RxExit == Quita("rx", "EXIT", "EXEC", "exitProcesador")
RxExitProcesador == Despierta("rx", "exitProcesador", "procesador", "exitAvisa")

\* Variant: the memory is not told.
RxExitSinAviso == Decide("rx", "exitAvisa", "exitLista")

\* The answer to the console, which nobody in the Kernel waits on, and then
\* the message to the memory.
RxExitAvisa ==
    /\ Paso("rx", "exitAvisa", "exitLista")
    /\ Pedir("PASAR_A_EXIT", pcb["rx"])
    /\ UNCHANGED <<cola, lista, sem, porProceso, pcb, datos, redCpu,
                   respMem, afuera>>

RxExitLista ==
    /\ Paso("rx", "exitLista", "exitMulti")
    /\ Anotar("EXIT", pcb["rx"])
    /\ Toma("rx", Nadie)
    /\ UNCHANGED <<cola, sem, porProceso, datos, redCpu, redMem, afuera>>

\* Variant: the place of the process is not given back.
RxExitSinCupo == Decide("rx", "exitMulti", "recibe")

RxExitMulti == Despierta("rx", "exitMulti", "contador_multiprogramacion", "recibe")

\* What it executed is taken from what it had left.
RxInterrupt ==
    /\ Paso("rx", "INTERRUPT", "intReady")
    /\ \E r \in {r \in Rafagas : r <= rafaga[pcb["rx"]]} :
            rafaga' = [rafaga EXCEPT ![pcb["rx"]] = r]
    /\ Borrar("EXEC", pcb["rx"])
    /\ UNCHANGED <<cola, sem, porProceso, pcb, nIO, timeValBefore,
                   redCpu, redMem, afuera>>

RxIntReady == Agrega("rx", "intReady", "READY", "intSem")
RxIntSem == Despierta("rx", "intSem", "ready", "intProcesador")
RxIntProcesador == Despierta("rx", "intProcesador", "procesador", "recibe")

recibirMensajeCPU ==
    \/ RxRecibe \/ RxBlock \/ RxExit \/ RxExitProcesador \/ RxExitAvisa
    \/ RxExitLista \/ RxExitMulti \/ RxInterrupt \/ RxIntReady \/ RxIntSem
    \/ RxIntProcesador

-----------------------------------------------------------------------------
(* hiloSuspendedor: takes the process to BLOCKED and, when it is still     *)
(* there after tiempoMaximoBloqueado, to BLOCKED_SUSPENDED.                *)

Avanza(p, n, a, b) ==
    /\ hilo[p][n] = a
    /\ hilo' = [hilo EXCEPT ![p][n] = b]
    /\ UNCHANGED <<crear, pc, pcb, datos, redCpu, respMem, afuera>>

HiloExec(p, n) ==
    Avanza(p, n, "exec", "procesador") /\ Borrar("EXEC", p)
        /\ UNCHANGED <<cola, sem, memoria>>
HiloProcesador(p, n) ==
    Avanza(p, n, "procesador", "block") /\ Post("procesador")
        /\ UNCHANGED <<cola, lista, memoria>>
HiloBlock(p, n) ==
    Avanza(p, n, "block", "cola") /\ Anotar("BLOCKED", p)
        /\ UNCHANGED <<cola, sem, memoria>>
HiloCola(p, n) ==
    Avanza(p, n, "cola", "bloqueo") /\ Encolar("COLA_IO", p)
        /\ UNCHANGED <<lista, sem, memoria>>

\* Variant: the I/O thread is not woken.
HiloSinBloqueo(p, n) ==
    Avanza(p, n, "bloqueo", "duerme") /\ UNCHANGED <<cola, lista, sem, memoria>>

HiloBloqueo(p, n) ==
    Avanza(p, n, "bloqueo", "duerme") /\ Post("bloqueo")
        /\ UNCHANGED <<cola, lista, memoria>>

\* The sleep ends at any time; LISTA_BLOCKED is then read without its mutex.
HiloVence(p, n) ==
    Avanza(p, n, "duerme", IF Esta("BLOCKED", p) THEN "saca" ELSE "fin")
        /\ UNCHANGED <<cola, lista, sem, memoria>>
HiloSaca(p, n) ==
    Avanza(p, n, "saca", "avisa") /\ Borrar("BLOCKED", p)
        /\ UNCHANGED <<cola, sem, memoria>>
HiloAvisa(p, n) ==
    Avanza(p, n, "avisa", "susp") /\ Pedir("SUSPENDER", p)
        /\ UNCHANGED <<cola, lista, sem>>
HiloSusp(p, n) ==
    Avanza(p, n, "susp", "multi") /\ Anotar("BLOCKED_SUSPENDED", p)
        /\ UNCHANGED <<cola, sem, memoria>>
HiloMulti(p, n) ==
    Avanza(p, n, "multi", "fin") /\ Post("contador_multiprogramacion")
        /\ UNCHANGED <<cola, lista, memoria>>

hiloSuspendedor(p, n) ==
    \/ HiloExec(p, n) \/ HiloProcesador(p, n) \/ HiloBlock(p, n)
    \/ HiloCola(p, n) \/ HiloBloqueo(p, n) \/ HiloVence(p, n) \/ HiloSaca(p, n)
    \/ HiloAvisa(p, n) \/ HiloSusp(p, n) \/ HiloMulti(p, n)

-----------------------------------------------------------------------------
(* planifBloqueados: serves the I/O queue, one process at a time.          *)

IoBloqueo == Espera("io", "bloqueo", "bloqueo", "cola")
IoCola == Extrae("io", "cola", "COLA_IO", "duerme")

\* The sleep ends at any time.  Both lists are searched without their
\* mutexes, one after the other; a process found in neither is forgotten.
IoTermina ==
    Decide("io", "duerme", IF Esta("BLOCKED", pcb["io"]) THEN "saca" ELSE "mira")
IoMira ==
    Decide("io", "mira", "sacaSusp") /\ Esta("BLOCKED_SUSPENDED", pcb["io"])
IoOlvida ==
    /\ Paso("io", "mira", "bloqueo")
    /\ ~Esta("BLOCKED_SUSPENDED", pcb["io"])
    /\ Toma("io", Nadie)
    /\ UNCHANGED <<cola, lista, sem, porProceso, datos, redCpu, redMem, afuera>>

IoSaca == Quita("io", "saca", "BLOCKED", "ready")
IoReady ==
    Agrega("io", "ready", "READY", IF ALGORITMO = "SRT" THEN "avisa" ELSE "post")
IoAvisa == enviarInterruptCPU("io", "avisa", "post")
IoPost == Despierta("io", "post", "ready", "bloqueo")

IoSacaSusp == Quita("io", "sacaSusp", "BLOCKED_SUSPENDED", "suspReady")
IoSuspReady == Agrega("io", "suspReady", "READY_SUSPENDED", "postLp")

\* Variant: the same semaphore for both queues.
IoPostReady == Despierta("io", "postLp", "ready", "bloqueo")

IoPostLp == Despierta("io", "postLp", "planif_largo_plazo", "bloqueo")

planifBloqueados ==
    \/ IoBloqueo \/ IoCola \/ IoTermina \/ IoMira \/ IoOlvida \/ IoSaca
    \/ IoReady \/ IoAvisa \/ IoPost \/ IoSacaSusp \/ IoSuspReady \/ IoPostLp

-----------------------------------------------------------------------------
(* The CPU.  A program is some instructions that do not leave the CPU, at  *)
(* most MaxIO I/O instructions among them, and EXIT at its end.  The flag  *)
(* is looked at after an instruction that leaves the process in the CPU.   *)

CpuRecibe ==
    /\ dispatch # <<>>
    /\ Paso("cpu", "libre", "ejecuta")
    /\ Toma("cpu", Head(dispatch))
    /\ dispatch' = Tail(dispatch)
    /\ UNCHANGED <<cola, lista, sem, porProceso, datos, respuesta,
                   interrupt, redMem, afuera>>

CpuDevuelve(op, b) ==
    /\ Paso("cpu", "ejecuta", b)
    /\ Toma("cpu", Nadie)
    /\ respuesta' = Append(respuesta, [op |-> op, pcb |-> pcb["cpu"]])
    /\ UNCHANGED <<cola, lista, sem, porProceso, rafaga, timeValBefore,
                   dispatch, interrupt, redMem, afuera>>

CpuIO ==
    /\ CpuDevuelve("BLOCK", "libre")
    /\ nIO[pcb["cpu"]] < MaxIO
    /\ nIO' = [nIO EXCEPT ![pcb["cpu"]] = @ + 1]
CpuExit == CpuDevuelve("EXIT", "libre") /\ UNCHANGED nIO
CpuInterrupt ==
    interrupciones /\ CpuDevuelve("INTERRUPT", "limpia") /\ UNCHANGED nIO

\* interrupciones = false comes after the process was sent back.
CpuLimpia ==
    /\ Paso("cpu", "limpia", "libre")
    /\ interrupciones' = FALSE
    /\ UNCHANGED <<cola, lista, sem, porProceso, pcb, datos, redCpu,
                   redMem, residente>>

iniciarInterrupt ==
    /\ interrupt > 0
    /\ interrupt' = interrupt - 1
    /\ interrupciones' = TRUE
    /\ UNCHANGED <<cola, lista, sem, porProceso, pc, pcb, datos, dispatch,
                   respuesta, redMem, residente>>

iniciarDispatch ==
    CpuRecibe \/ CpuIO \/ CpuExit \/ CpuInterrupt \/ CpuLimpia

-----------------------------------------------------------------------------
(* The memory's thread for the Kernel: one request after the other; only   *)
(* PASAR_A_READY is answered.                                              *)

conexionKernel ==
    /\ memoria # <<>>
    /\ memoria' = Tail(memoria)
    /\ LET m == Head(memoria)
       IN  IF m.tipo = "PASAR_A_READY"
           THEN residente' = residente \cup {m.pid} /\ respMem' = respMem + 1
           ELSE residente' = residente \ {m.pid} /\ UNCHANGED respMem
    /\ UNCHANGED <<cola, lista, sem, porProceso, pc, pcb, datos, redCpu,
                   interrupciones>>

-----------------------------------------------------------------------------
Next ==
    \/ \E p \in Pid : CrearNew(p) \/ CrearPost(p)
    \/ planifLargoPlazo
    \/ planifCortoPlazo
    \/ recibirMensajeCPU
    \/ \E p \in Pid, n \in 1..MaxIO : hiloSuspendedor(p, n)
    \/ planifBloqueados
    \/ iniciarDispatch
    \/ iniciarInterrupt
    \/ conexionKernel

Spec == Init /\ [][Next]_vars

\* Threads that can run do run, sleeps end, the other two processes answer,
\* and a program reaches its next I/O or its EXIT.  Consoles may never come.
Justicia ==
    /\ \A p \in Pid : WF_vars(CrearPost(p))
    /\ WF_vars(planifLargoPlazo)
    /\ WF_vars(planifCortoPlazo)
    /\ WF_vars(recibirMensajeCPU)
    /\ \A p \in Pid, n \in 1..MaxIO : WF_vars(hiloSuspendedor(p, n))
    /\ WF_vars(planifBloqueados)
    /\ WF_vars(iniciarDispatch)
    /\ WF_vars(iniciarInterrupt)
    /\ WF_vars(conexionKernel)

SpecJusta == Spec /\ Justicia

=============================================================================
