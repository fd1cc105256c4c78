-------------------------- MODULE KernelPropiedades --------------------------
(***************************************************************************)
(* What must hold of the Kernel.                                           *)
(***************************************************************************)
EXTENDS Kernel

Indices(s, p) == {i \in DOMAIN s : s[i] = p}
Si(b) == IF b THEN 1 ELSE 0

\* hiloSuspendedor has the process to itself until it is in COLA_BLOQUEO_IO.
PcInicioHilo == {"exec", "procesador", "block", "cola"}

\* The process is in one of recibirMensajeCPU's three handlers and the
\* processor is not free yet.
PcRxProcesador == Avisos \cup {"exitProcesador", "intReady", "intSem",
                               "intProcesador"}

EnRespuesta(p) == \E i \in DOMAIN respuesta : respuesta[i].pcb = p

HilosEn(pcs) == {h \in Pid \X (1..MaxIO) : hilo[h[1]][h[2]] \in pcs}

-----------------------------------------------------------------------------
TypeOK ==
    /\ cola \in [Colas -> Seq(Pid)]
    /\ lista \in [Listas -> [Pid -> Nat]]
    /\ sem \in [Semaforos -> Nat]
    /\ crear \in [Pid -> PcCrear]
    /\ hilo \in [Pid -> [1..MaxIO -> PcHilo]]
    /\ pc \in [Hilos -> PcLp \cup PcCp \cup PcRx \cup PcIo \cup PcCpu]
    /\ pc["lp"] \in PcLp /\ pc["cp"] \in PcCp /\ pc["rx"] \in PcRx
    /\ pc["io"] \in PcIo /\ pc["cpu"] \in PcCpu
    /\ pcb \in [Hilos -> Pid \cup {Nadie}]
    /\ nIO \in [Pid -> 0..MaxIO]
    /\ rafaga \in [Pid -> Rafagas]
    /\ timeValBefore \in Pid \cup {Nadie}
    /\ dispatch \in Seq(Pid)
    /\ respuesta \in Seq([op : Avisos, pcb : Pid])
    /\ interrupt \in Nat
    /\ memoria \in Seq([tipo : Pedidos, pid : Pid])
    /\ respMem \in Nat
    /\ interrupciones \in BOOLEAN
    /\ residente \subseteq Pid

-----------------------------------------------------------------------------
(* One process, one place.                                                 *)

\* Every place that holds process p: a thread's variable, a position of a
\* queue or of a socket, a new hiloSuspendedor, the list EXIT.
LugaresHilos(p) ==
    {<<t, 0>> : t \in {u \in {"lp", "cpu", "rx", "io"} : pcb[u] = p}}
    \cup (IF crear[p] = "new" THEN {<<"crear", 0>>} ELSE {})
    \cup (IF pcb["cp"] = p /\ pc["cp"] # "quita" THEN {<<"cp", 0>>} ELSE {})
LugaresColas(p) == UNION {{<<c, i>> : i \in Indices(cola[c], p)} : c \in Colas}
LugaresRed(p) ==
    {<<"dispatch", i>> : i \in Indices(dispatch, p)}
    \cup {<<"respuesta", i>> :
            i \in {j \in DOMAIN respuesta : respuesta[j].pcb = p}}
LugaresListas(p) ==
    {<<"hilo", n>> : n \in {m \in 1..MaxIO : hilo[p][m] \in PcInicioHilo}}
    \cup {<<"EXIT", i>> : i \in 1..lista["EXIT"][p]}

Lugares(p) == LugaresHilos(p) \cup LugaresColas(p) \cup LugaresRed(p) \cup LugaresListas(p)

\* No two threads work on the same process and none waits in two queues, or
\* twice in one: also when the I/O thread and a hiloSuspendedor, which decide
\* what happens to a blocked process on unlocked reads (Kernel.c:353, 398 and
\* 409), both act on it.
UnSoloLugar == \A p \in Pid : \A a, b \in Lugares(p) : a = b

\* A process the Kernel took in and no longer has anywhere.
Perdido(p) == crear[p] # "new" /\ Lugares(p) = {}

-----------------------------------------------------------------------------
(* Semaphores and what they count.                                         *)

\* Whoever was let through a semaphore to take a process from a list finds
\* one: list_remove(LISTA, 0) never gives the NULL that Kernel.c:152, 180,
\* 216 and 386 would dereference.  LISTA_NEW and LISTA_READY_SUSPENDED share
\* one semaphore and are told apart by an unlocked read (Kernel.c:141).
SinPCBNulo ==
    /\ pc["lp"] = "new" => cola["NEW"] # <<>>
    /\ pc["lp"] = "susp" => cola["READY_SUSPENDED"] # <<>>
    /\ pc["cp"] = "elige" => cola["READY"] # <<>>
    /\ pc["io"] = "cola" => cola["COLA_IO"] # <<>>

\* sem_procesador is up exactly when no process is between planifCortoPlazo's
\* sem_wait and the sem_post of whoever gets it back, which is a different
\* thread in each of the three cases (Kernel.c:300, 322 and 343), and there
\* is never a second one on its way.
ProcesadorExclusivo ==
    sem["procesador"]
        + Si(pc["cp"] \notin {"ready", "procesador"})
        + Len(dispatch) + Si(pcb["cpu"] # Nadie) + Len(respuesta)
        + Si(pc["rx"] \in PcRxProcesador)
        + Cardinality(HilosEn({"exec", "procesador"})) = 1

\* LISTA_EXEC, whose size the long-term scheduler reads to decide whether to
\* interrupt (Kernel.c:158), holds the process that was given to the CPU,
\* once, until the thread that gets it back takes it out.
EnCpu(p) ==
    \/ pc["cp"] = "despacha" /\ pcb["cp"] = p
    \/ Indices(dispatch, p) # {} \/ pcb["cpu"] = p \/ EnRespuesta(p)
    \/ pcb["rx"] = p /\ pc["rx"] \in Avisos
    \/ \E n \in 1..MaxIO : hilo[p][n] = "exec"
ExecCoherente == \A p \in Pid : lista["EXEC"][p] = Si(EnCpu(p))

\* A process that takes one of the GRADO_MULTIPROGRAMACION places: from the
\* moment the long-term scheduler picks it until it exits or its suspension.
Ocupa(p) ==
    \/ p \in {pcb["lp"], pcb["cp"], pcb["cpu"], pcb["rx"]}
    \/ Indices(cola["READY"], p) # {} \/ Indices(dispatch, p) # {}
    \/ EnRespuesta(p)
    \/ \E n \in 1..MaxIO : hilo[p][n] \in PcInicioHilo
    \/ pcb["io"] = p /\ pc["io"] = "ready"
    \/ Esta("BLOCKED", p) /\ (pcb["io"] = p \/ Indices(cola["COLA_IO"], p) # {})

\* No place is ever lost: each is free, or taken by a process, or about to be
\* given back by a thread that is on its way to sem_post, whichever of the I/O
\* thread and the hiloSuspendedor wins the process (Kernel.c:312 and 365).
CuposNoSePierden ==
    sem["contador_multiprogramacion"]
        + Si(pc["lp"] \in {"elige", "new", "susp"})
        + Cardinality({p \in Pid : Ocupa(p)})
        + Si(pc["rx"] = "exitMulti")
        + Cardinality(HilosEn({"avisa", "susp", "multi"}))
    >= GRADO_MULTIPROGRAMACION

-----------------------------------------------------------------------------
(* Scheduling.                                                             *)

\* algoritmo_SRT takes the mutex twice (Kernel.c:245 and 253): when it removes
\* the process it chose, that process is still in READY and nothing ahead of
\* it is as short, although other threads may have added to the list.
EleccionSRT ==
    pc["cp"] = "quita" =>
        \E i \in DOMAIN cola["READY"] :
            /\ cola["READY"][i] = pcb["cp"]
            /\ \A j \in 1..(i - 1) : rafaga[cola["READY"][j]] > rafaga[pcb["cp"]]

\* timeValBefore is one global written by planifCortoPlazo and read by
\* recibirMensajeCPU, without a lock (Kernel.c:220 and 283): the burst that is
\* measured is always that of the process that came back.
MedicionPropia == pc["rx"] \in Avisos => timeValBefore = pcb["rx"]

\* Three threads write to the memory's socket (Kernel.c:52, 182, 308 and 362):
\* once a process is in EXIT and the memory has served what was sent about
\* it, it is not loaded, whatever a late hiloSuspendedor sends.
ExitLibera ==
    \A p \in Pid :
        Esta("EXIT", p) /\ (\A i \in DOMAIN memoria : memoria[i].pid # p)
            => p \notin residente

\* What the memory is asked about while the CPU has the process: only a
\* SUSPENDER, which a hiloSuspendedor sends late.  PASAR_A_READY is answered
\* before its process goes to READY, and PASAR_A_EXIT is sent once the CPU gave
\* it back (Kernel.c:182 and 308), although they wait in a socket.
PedidosSinCpu ==
    \A i \in DOMAIN memoria :
        memoria[i].tipo # "SUSPENDER" => ~EnCpu(memoria[i].pid)

-----------------------------------------------------------------------------
(* Progress and the life cycle.                                            *)

\* Every process that enters the system exits, or is one that planifBloqueados
\* forgot while a hiloSuspendedor was moving it (Kernel.c:356-364), and that
\* one ends in BLOCKED_SUSPENDED; nothing else can keep a process forever.
Progreso ==
    \A p \in Pid :
        crear[p] # "new" ~>
            Esta("EXIT", p) \/ (Perdido(p) /\ Esta("BLOCKED_SUSPENDED", p))

\* The state of p in the life cycle.  LISTA_BLOCKED and LISTA_BLOCKED_SUSPENDED
\* do not decide it: between two of their critical sections they may show the
\* process in both or in neither.
EstadoDe(p) ==
    CASE crear[p] = "new" -> "FUERA"
      [] Indices(cola["NEW"], p) # {}
         \/ (pcb["lp"] = p /\ pc["lp"] = "respNew") -> "NEW"
      [] Indices(cola["READY"], p) # {}
         \/ (pcb["lp"] = p /\ pc["lp"] \in {"mide", "ready", "readyAvisa"}) -> "READY"
      [] (pcb["cp"] = p /\ pc["cp"] # "quita") \/ pcb["cpu"] = p \/ EnRespuesta(p)
         \/ Indices(dispatch, p) # {}
         \/ (pcb["rx"] = p /\ pc["rx"] \in Avisos \cup {"intReady"}) -> "EXEC"
      [] Indices(cola["READY_SUSPENDED"], p) # {}
         \/ (pcb["lp"] = p /\ pc["lp"] = "respSusp") -> "READY_SUSPENDED"
      [] Esta("EXIT", p)
         \/ (pcb["rx"] = p /\ pc["rx"] \in {"exitProcesador", "exitAvisa", "exitLista"})
            -> "EXIT"
      [] OTHER -> "BLOCKED"

CV == INSTANCE CicloVida WITH estado <- [p \in Pid |-> EstadoDe(p)]

\* The Kernel implements the life cycle: a process moves only along its arrows
\* and enters EXEC only when no process is there.
ImplementaCicloVida == CV!CVSpec

-----------------------------------------------------------------------------
(* What the source says and the code does not do; each is violated.        *)

\* "es lo mismo que el grado de multiprogramacion del kernel"
\* (estructuras.c:118), of the processes that fit in memory: the memory never
\* holds more processes loaded than the Kernel's degree.
CabenEnMemoria == Cardinality(residente) <= GRADO_MULTIPROGRAMACION

\* Every test program ends in EXIT (Consola/instrucciones/SUSPE_1): a process
\* that enters the system exits.
TodoTermina == \A p \in Pid : crear[p] # "new" ~> Esta("EXIT", p)

=============================================================================
