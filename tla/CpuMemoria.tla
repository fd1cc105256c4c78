----------------------------- MODULE CpuMemoria -----------------------------
(***************************************************************************)
(* The CPU over MemoriaSwap.  What is external to each of them is the      *)
(* other: a message and its answer are steps that both take, so the thread *)
(* conexionCPU serves what the dispatch thread asks, and the frames that   *)
(* it translates and that the TLB keeps are those the memory answered.     *)
(*                                                                         *)
(* The Kernel gives the CPU any process that is ready, interrupts it, and  *)
(* asks the memory about those the CPU does not have; a late SUSPENDER may *)
(* be about the one it has.                                                *)
(***************************************************************************)
EXTENDS Memoria

CONSTANTS ENTRADAS_TLB, MaxInterrupciones

ASSUME EntradasDeLaTLB == ENTRADAS_TLB \subseteq Nat \ {0}

VARIABLES size, algoritmo, entradas, pcDispatch, pcb, op, operandos, marcos,
          interrupciones, recibidas, devueltas

NumerosDePagina == UNION {PagAUsar(p) : p \in Pid}

C == INSTANCE Cpu WITH NumerosDeMarco <- Frames

cpuVars == <<size, algoritmo, entradas, pcDispatch, pcb, op, operandos, marcos,
             interrupciones, recibidas, devueltas>>
sistema == <<vars, cpuVars>>

SistemaInit == Init /\ C!CpuInit

-----------------------------------------------------------------------------
(* What the CPU does alone.                                                *)

Recibe(p) == carga[p] = "listo" /\ C!Recibe(p)

\* A program uses pages of its own.
Instrucciones ==
    \/ C!NoOp \/ C!Devuelve
    \/ \E n \in PagAUsar(pcb) :
        \/ C!Read(n) \/ C!Write(n)
        \/ Copia /\ \E m \in PagAUsar(pcb) : C!Copy(n, m)

SoloCpu ==
    /\ \/ \E p \in Pid : Recibe(p)
       \/ pcb \in Pid /\ Instrucciones
       \/ \E f \in Frames : C!Acierta(f)
       \/ C!Falla \/ C!Sigue \/ C!Desaloja \/ C!Baja \/ C!Limpia
       \/ C!iniciarInterrupt
    /\ UNCHANGED vars

-----------------------------------------------------------------------------
(* What they do together.                                                  *)

\* The first request changes nothing in the memory; its answer brings the
\* second one, segundoPasoTraduccionDireccion.
PideTraduccion == C!SegundoLlamado /\ CpuPide(pcb, C!Pagina)

RespondeTraduccion ==
    /\ PasoCpu("accede", "libre") /\ C!Traduce(frame)
    /\ pid' = Nadie
    /\ UNCHANGED <<tablas, memoria, posicionClock, mutexes, pagina, frame, vieja,
                   vuelta, giro, destino, kernel, externo>>

\* The access goes with the frames that were translated, not with pages.
PideAcceso ==
    /\ C!Accede /\ PasoCpu("libre", "accede")
    /\ pid' = pcb /\ pagina' = Last(operandos) /\ frame' = Last(marcos)
    /\ destino' = IF op = "COPY"
                  THEN [pagina |-> operandos[1], frame |-> marcos[1]]
                  ELSE SinDestino
    /\ UNCHANGED <<tablas, memoria, posicionClock, mutexes, vieja, vuelta, giro,
                   kernel, externo>>

RespondeAcceso == Marca /\ C!Respuesta

-----------------------------------------------------------------------------
(* What the memory does alone.                                             *)

Busqueda ==
    \/ BuscaPagina \/ TraduceEnRam \/ TraduceAusente \/ UsaPagina \/ LeeFrame
    \/ HayFrameLibre \/ NoHayFrameLibre \/ TomaFrames
    \/ GiraVictima \/ GiraSigue \/ FinVuelta
    \/ BuscaVieja \/ Carga \/ ActualizaTablas \/ ActualizaFrames

Acceso ==
    /\ pcDispatch = "acceso"
    /\ \/ op = "READ" /\ accesoMemoriaRead
       \/ op = "WRITE" /\ \E v \in Valores \ {Blanco} : accesoMemoriaWrite(v)
       \/ op = "COPY" /\ accesoMemoriaCopy

PedidosKernel ==
    \/ \E p \in Pid \ {pcb} :
        PidePasarAReady(p) \/ PideSuspender(p) \/ PidePasarAExit(p)
    \/ \E p \in Pid : PideSuspenderTarde(p)

SoloMemoria ==
    /\ Busqueda \/ Acceso \/ conexionKernel \/ PedidosKernel
    /\ UNCHANGED cpuVars

-----------------------------------------------------------------------------
SistemaNext ==
    \/ SoloCpu \/ SoloMemoria
    \/ PideTraduccion \/ RespondeTraduccion \/ PideAcceso \/ RespondeAcceso

Sistema == SistemaInit /\ [][SistemaNext]_sistema

=============================================================================
