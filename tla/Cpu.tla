-------------------------------- MODULE Cpu --------------------------------
(***************************************************************************)
(* The CPU process (CPU.c, MMU.c): the dispatch thread, which runs the     *)
(* instruction cycle of one process at a time, and the interrupt thread,   *)
(* which raises a flag.  They share the flag and no lock.                  *)
(*                                                                         *)
(* An address is its page: the offset goes through unchanged.  Which       *)
(* instruction comes next is any, so the model runs every program that     *)
(* ends in EXIT; one without it runs off the list and is left out.         *)
(*                                                                         *)
(* External: the Kernel sends processes and interrupts, the memory answers *)
(* a translation with a frame, any of them, and an access.  That it never  *)
(* answers -1 holds until a SUSPENDER comes late (module Memoria).         *)
(***************************************************************************)
EXTENDS TLB

CONSTANTS Pid, Nadie,
          MaxInterrupciones   \* bound: interrupts the Kernel sends

ASSUME NadieNoEsProceso == Nadie \notin Pid

VARIABLES
    pcDispatch,      \* where the dispatch thread stands
    pcb,             \* the process it runs
    op,              \* its instruction
    operandos,       \* the pages to translate, in the order of the code
    marcos,          \* their frames, so far
    interrupciones,
    recibidas,       \* interrupts received
    devueltas        \* processes sent back with INTERRUPT_INTERRUPCION

ciclo == <<op, operandos, marcos>>
cuentas == <<recibidas, devueltas>>
cpuVars == <<tlb, pcDispatch, pcb, ciclo, interrupciones, cuentas>>

SinMarcos == op' = "" /\ operandos' = <<>> /\ marcos' = <<>>

CpuInit ==
    /\ iniciar_TLB
    /\ pcDispatch = "libre" /\ pcb = Nadie
    /\ op = "" /\ operandos = <<>> /\ marcos = <<>>
    /\ interrupciones = FALSE /\ recibidas = 0 /\ devueltas = 0

PasoDispatch(a, b) == pcDispatch = a /\ pcDispatch' = b

-----------------------------------------------------------------------------
(* iniciarDispatch and the instruction cycle.                              *)

Recibe(p) ==
    /\ PasoDispatch("libre", "fetch") /\ pcb' = p
    /\ UNCHANGED <<tlb, ciclo, interrupciones, cuentas>>

Instruccion(o, paginas, b) ==
    /\ PasoDispatch("fetch", b)
    /\ op' = o /\ operandos' = paginas /\ marcos' = <<>>
    /\ UNCHANGED <<tlb, pcb, interrupciones, cuentas>>

NoOp == Instruccion("NO_OP", <<>>, "revisa")
Read(n) == Instruccion("READ", <<n>>, "traduce")
Write(n) == Instruccion("WRITE", <<n>>, "traduce")

\* COPY parametro1 parametro2: the page of parametro2, the destination, is
\* translated in the decode, that of parametro1 in the execution.
Copy(origen, dest) == Instruccion("COPY", <<dest, origen>>, "traduce")

\* Variant: the entries stay.
FinSinLimpiar ==
    /\ PasoDispatch("fetch", "libre") /\ pcb' = Nadie /\ SinMarcos
    /\ UNCHANGED <<tlb, interrupciones, cuentas>>

\* IO and EXIT: the process is sent back and then the TLB emptied.
Devuelve ==
    /\ PasoDispatch("fetch", "limpia") /\ pcb' = Nadie /\ SinMarcos
    /\ UNCHANGED <<tlb, interrupciones, cuentas>>

-----------------------------------------------------------------------------
(* calcularDireccionFisica and the MMU.                                    *)

Falta == Len(marcos) < Len(operandos)
Pagina == operandos[Len(marcos) + 1]

Acierta(f) ==
    /\ PasoDispatch("traduce", "traduce") /\ Falta
    /\ buscar_en_TLB(Pagina, f)
    /\ marcos' = Append(marcos, f)
    /\ UNCHANGED <<pcb, op, operandos, interrupciones, cuentas>>

\* primer_llamado: the number of the second-level table.
Falla ==
    /\ PasoDispatch("traduce", "primer_llamado") /\ Falta
    /\ buscar_en_vano(Pagina)
    /\ UNCHANGED <<pcb, ciclo, interrupciones, cuentas>>

SegundoLlamado ==
    /\ PasoDispatch("primer_llamado", "segundo_llamado")
    /\ UNCHANGED <<tlb, pcb, ciclo, interrupciones, cuentas>>

Traduce(f) ==
    /\ PasoDispatch("segundo_llamado", "traduce")
    /\ actualizar_TLB(Pagina, f)
    /\ marcos' = Append(marcos, f)
    /\ UNCHANGED <<pcb, op, operandos, interrupciones, cuentas>>

-----------------------------------------------------------------------------
(* The access, and the check of the flag.                                  *)

\* Variant: one page translated is enough.
AccedeAntes ==
    /\ PasoDispatch("traduce", "acceso") /\ marcos # <<>>
    /\ UNCHANGED <<tlb, pcb, ciclo, interrupciones, cuentas>>

Accede ==
    /\ PasoDispatch("traduce", "acceso") /\ ~Falta
    /\ UNCHANGED <<tlb, pcb, ciclo, interrupciones, cuentas>>

Respuesta ==
    /\ PasoDispatch("acceso", "revisa")
    /\ UNCHANGED <<tlb, pcb, ciclo, interrupciones, cuentas>>

\* Variant: the flag is looked at only after an access.
SigueSinMirar == op = "NO_OP" \/ ~interrupciones

SinInterrupcion == ~interrupciones

Sigue ==
    /\ PasoDispatch("revisa", "fetch") /\ SinInterrupcion /\ SinMarcos
    /\ UNCHANGED <<tlb, pcb, interrupciones, cuentas>>

Desaloja ==
    /\ PasoDispatch("revisa", "baja") /\ interrupciones
    /\ pcb' = Nadie /\ SinMarcos /\ devueltas' = devueltas + 1
    /\ UNCHANGED <<tlb, interrupciones, recibidas>>

\* Variant: the flag stays up.
NoBaja ==
    /\ PasoDispatch("baja", "limpia")
    /\ UNCHANGED <<tlb, pcb, ciclo, interrupciones, cuentas>>

\* The flag is lowered after the process was sent.
Baja ==
    /\ PasoDispatch("baja", "limpia") /\ interrupciones' = FALSE
    /\ UNCHANGED <<tlb, pcb, ciclo, cuentas>>

Limpia ==
    /\ PasoDispatch("limpia", "libre") /\ limpiar_entradas_TLB
    /\ UNCHANGED <<pcb, ciclo, interrupciones, cuentas>>

iniciarInterrupt ==
    /\ recibidas < MaxInterrupciones /\ recibidas' = recibidas + 1
    /\ interrupciones' = TRUE
    /\ UNCHANGED <<tlb, pcDispatch, pcb, ciclo, devueltas>>

-----------------------------------------------------------------------------
Fetch ==
    \/ NoOp \/ Devuelve
    \/ \E n \in NumerosDePagina :
        Read(n) \/ Write(n) \/ \E m \in NumerosDePagina : Copy(n, m)

Traduccion ==
    \/ Falla \/ SegundoLlamado
    \/ \E f \in NumerosDeMarco : Acierta(f) \/ Traduce(f)

cicloInstruccion ==
    \/ Fetch \/ Traduccion \/ Accede \/ Respuesta \/ Sigue \/ Desaloja
    \/ Baja \/ Limpia

CpuNext == (\E p \in Pid : Recibe(p)) \/ cicloInstruccion \/ iniciarInterrupt

CpuSpec == CpuInit /\ [][CpuNext]_cpuVars

\* The dispatch thread runs and the memory answers.
CpuJusta == CpuSpec /\ WF_cpuVars(cicloInstruccion)

=============================================================================
