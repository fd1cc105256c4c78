------------------------------ MODULE Memoria ------------------------------
(***************************************************************************)
(* MemoriaSwap: the threads conexionCPU and conexionKernel over the page   *)
(* tables, the table of frames, the bytes of the memory and the swap files *)
(* (peticiones.c, gestionMemoria.c, algoritmosReemplazo.c, estructuras.c,  *)
(* utils.c, Swap.c).                                                       *)
(*                                                                         *)
(* Every list of tables is shared and the rows of the second-level tables  *)
(* are looked up by page number only.  Page numbers start at 0 in each     *)
(* process, so a search gives the row of the first process that has one.   *)
(*                                                                         *)
(* A thread that asks for a mutex while it holds another is a step that    *)
(* waits; that happens with mutexLista2N and mutexListaFrames, whose       *)
(* holders are variables.  What is done under the other mutexes is atomic. *)
(*                                                                         *)
(* A page, in memory or in swap, is one value.  Delays, answers and the    *)
(* checks of offsets are left out.                                         *)
(*                                                                         *)
(* The requests are those that Kernel.c and CPU.c make.  The Kernel's      *)
(* hiloSuspendedor decides on an unlocked read, so its SUSPENDER may come  *)
(* late, for a process that is ready, running or suspended already.        *)
(***************************************************************************)
EXTENDS Integers, Sequences, FiniteSets, FiniteSetsExt, SequencesExt

CONSTANTS
    Pid, Nadie,
    Paginas,             \* pages of each process: its size in pages
    ENTRADAS_POR_TABLA,
    CANT_FRAMES,         \* cantidadFramesTotal
    MARCOS_POR_PROCESO,
    ALGORITMO,           \* "CLOCK" or "CLOCK-M"
    MaxSuspensiones,     \* bound: SUSPENDERs that the Kernel sends
    MaxTardes,           \* bound: those of them that come late
    Copia,               \* whether programs have COPY instructions
    Valores, Blanco      \* what a page may hold; Blanco is a page of '*'

ASSUME ProcesosFinitos == IsFiniteSet(Pid)
ASSUME NadieNoEsProceso == Nadie \notin Pid
ASSUME TamaniosPositivos == Paginas \in [Pid -> Nat \ {0}]
ASSUME EntradasPositivas == ENTRADAS_POR_TABLA \in Nat \ {0}
ASSUME FramesPositivos == CANT_FRAMES \in Nat \ {0}
ASSUME MarcosPositivos == MARCOS_POR_PROCESO \in Nat \ {0}
ASSUME AlgoritmoDeReemplazo == ALGORITMO \in {"CLOCK", "CLOCK-M"}
ASSUME CotasNaturales == MaxSuspensiones \in Nat /\ MaxTardes \in Nat
ASSUME CopiaEsOpcion == Copia \in BOOLEAN
ASSUME BlancoEsValor == Blanco \in Valores

VARIABLES
    orden,          \* listaTodasTablas2N: <<process, number of the table>>
    fila,           \* fila[p][n]: row n of the second-level tables of p
    marco,          \* tablaDeFrames: owner and page of each frame
    ram, swap,      \* memoriaPrincipal by frames; the file of each process
    posicionClock,
    mutexLista2N, mutexListaFrames,
    pcCpu, pid, pagina,           \* conexionCPU: the request it serves
    frame,                        \* and the frame it found
    vieja,                        \* pagVIEJA: the process and the row
    vuelta, giro,                 \* CLOCK-M: the pass and its step
    destino,                      \* COPY: the first operand, translated
    pcKer, pidKer, paginaKer, aLiberar,  \* conexionKernel
    carga,          \* what the Kernel has asked for each process
    suspensiones,   \* SUSPENDERs received
    tardes,         \* those that came late
    caida,          \* the program was killed
    ultimo          \* what each program wrote last in each of its pages

-----------------------------------------------------------------------------
(* Tables.                                                                 *)

Frames == 0..(CANT_FRAMES - 1)
SinFrame == -1
SinPagina == -1
SinDestino == [pagina |-> SinPagina, frame |-> SinFrame]

\* calcularCantTablasSegundoNivelParaUnProceso
CantTablas(p) == (Paginas[p] + ENTRADAS_POR_TABLA - 1) \div ENTRADAS_POR_TABLA
Filas(p) == 0..(CantTablas(p) * ENTRADAS_POR_TABLA - 1)
PagAUsar(p) == 0..(Paginas[p] - 1)

\* crearTablasParaUnProceso: a PAG_A_USAR has no frame, a PAG_INUTIL has -1
\* in every field.
FilaNueva(p, n) ==
    IF n \in PagAUsar(p)
    THEN [nroFrame |-> SinFrame, presencia |-> 0, uso |-> 0, modificado |-> 0]
    ELSE [nroFrame |-> SinFrame, presencia |-> -1, uso |-> -1, modificado |-> -1]

\* posicionSwap of a row: the page number, or -1 for a PAG_INUTIL.
posicionSwap(p, n) == IF n \in PagAUsar(p) THEN n ELSE -1

Tabla(n) == n \div ENTRADAS_POR_TABLA
Ultima == orden[Len(orden)]

\* The first row with number n in listaTodasTablas2N.  A search that finds
\* none stops at the last row of the last table.
Indices(n) == {i \in DOMAIN orden : orden[i][2] = Tabla(n)}
FilaDeNumero(n) ==
    IF Indices(n) # {} THEN <<orden[Min(Indices(n))][1], n>>
    ELSE <<Ultima[1], (Ultima[2] + 1) * ENTRADAS_POR_TABLA - 1>>

\* The rows of table i that have frame f; the tables where there is one; the
\* first row of all.
ConFrame(i, f) ==
    {n \in Filas(orden[i][1]) :
        Tabla(n) = orden[i][2] /\ fila[orden[i][1]][n].nroFrame = f}
Usuarias(f) == {i \in DOMAIN orden : ConFrame(i, f) # {}}
FilaDeFrame(f) ==
    LET i == Min(Usuarias(f)) IN <<orden[i][1], Min(ConFrame(i, f))>>

Libre(f) == marco[f].idProceso = Nadie /\ marco[f].nroPagina = SinPagina
Vacio == [idProceso |-> Nadie, nroPagina |-> SinPagina]

tablas == <<orden, fila>>
memoria == <<marco, ram, swap>>
mutexes == <<mutexLista2N, mutexListaFrames>>
cpu == <<pcCpu, pid, pagina, frame, vieja, vuelta, giro, destino>>
kernel == <<pcKer, pidKer, paginaKer, aLiberar>>
pedidas == <<suspensiones, tardes>>
externo == <<carga, pedidas, caida, ultimo>>
vars == <<tablas, memoria, posicionClock, mutexes, cpu, kernel, externo>>

\* The least of a set, which a search in order finds first.
EsMenor(n, S) == n \in S /\ \A m \in S : n <= m

\* write_pid_completo: the file of a new process.
write_pid_completo(p) == [n \in PagAUsar(p) |-> Blanco]

Init ==
    /\ orden = <<>>
    /\ fila = [p \in Pid |-> [n \in Filas(p) |-> FilaNueva(p, n)]]
    /\ marco = [f \in Frames |-> Vacio] /\ ram = [f \in Frames |-> Blanco]
    /\ swap = [p \in Pid |-> write_pid_completo(p)]
    /\ posicionClock = 0
    /\ mutexLista2N = "libre" /\ mutexListaFrames = "libre"
    /\ pcCpu = "libre" /\ pid = Nadie /\ pagina = 0 /\ frame = SinFrame
    /\ vieja = <<Nadie, 0>> /\ vuelta = 0 /\ giro = 0
    /\ destino = SinDestino
    /\ pcKer = "libre" /\ pidKer = Nadie /\ paginaKer = 0 /\ aLiberar = <<>>
    /\ carga = [p \in Pid |-> "nuevo"] /\ suspensiones = 0 /\ tardes = 0 /\ caida = FALSE
    /\ ultimo = [p \in Pid |-> [n \in PagAUsar(p) |-> Blanco]]

-----------------------------------------------------------------------------
(* conexionCPU: the translation of a page.                                 *)

Libre2N == mutexLista2N = "libre"
LibreFrames == mutexListaFrames = "libre"
PasoCpu(a, b) == ~caida /\ pcCpu = a /\ pcCpu' = b

\* The CPU runs a process that the Kernel made ready, whose program uses a
\* page of its own.  Nothing here asks whether it has been suspended.
CpuPide(p, n) ==
    /\ PasoCpu("libre", "traduce")
    /\ carga[p] = "listo" /\ n \in PagAUsar(p)
    /\ pid' = p /\ pagina' = n
    /\ UNCHANGED <<tablas, memoria, posicionClock, mutexes, frame, vieja, vuelta,
                   giro, destino, kernel, externo>>

\* The CPU keeps the first operand of a COPY, translated, and asks for the
\* second.
CpuPideOrigen(n) ==
    /\ Copia /\ PasoCpu("accede", "traduce")
    /\ destino.pagina = SinPagina /\ n \in PagAUsar(pid) \ {pagina}
    /\ destino' = [pagina |-> pagina, frame |-> frame] /\ pagina' = n
    /\ UNCHANGED <<tablas, memoria, posicionClock, mutexes, pid, frame, vieja,
                   vuelta, giro, kernel, externo>>

\* Variant: any row of a page will do.
EnRamUtil(p, n) == fila[p][n].presencia # -1

EnRam(p, n) == fila[p][n].presencia = 1 /\ fila[p][n].nroFrame # SinFrame

BuscaPagina ==
    /\ PasoCpu("traduce", "mira") /\ Libre2N
    /\ UNCHANGED <<tablas, memoria, posicionClock, mutexes, pid, pagina, frame,
                   vieja, vuelta, giro, destino, kernel, externo>>

\* The row is looked at without a lock (peticiones.c:391).
Mira(b) ==
    /\ PasoCpu("mira", b)
    /\ UNCHANGED <<tablas, memoria, posicionClock, mutexes, pid, pagina, frame,
                   vieja, vuelta, giro, destino, kernel, externo>>
TraduceEnRam == Mira("usa") /\ EnRam(pid, pagina)
TraduceAusente == Mira("busca") /\ ~EnRam(pid, pagina)

\* Its bit of use is set and, with CLOCK-M, its modified bit cleared.
Usada(r) ==
    [r EXCEPT !.uso = 1,
              !.modificado = IF ALGORITMO = "CLOCK-M" THEN 0 ELSE r.modificado]

UsaPagina ==
    /\ PasoCpu("usa", "lee") /\ Libre2N
    /\ fila' = [fila EXCEPT ![pid][pagina] = Usada(@)]
    /\ UNCHANGED <<orden, memoria, posicionClock, mutexes, pid, pagina, frame,
                   vieja, vuelta, giro, destino, kernel, externo>>

\* The answer is read without a lock, and is -1 if suspender has been there
\* since Mira.
LeeFrame ==
    /\ PasoCpu("lee", "accede") /\ frame' = fila[pid][pagina].nroFrame
    /\ UNCHANGED <<tablas, memoria, posicionClock, mutexes, pid, pagina, vieja,
                   vuelta, giro, destino, kernel, externo>>

\* Variant: the frame may be reserved for another process.
FramesLibresDeTodos(p) == {f \in Frames : marco[f].nroPagina = SinPagina}

FramesLibresDe(p) ==
    {f \in Frames : marco[f].idProceso = p /\ marco[f].nroPagina = SinPagina}

HayFrameLibre ==
    /\ PasoCpu("busca", "vieja") /\ LibreFrames
    /\ \E f \in Frames : EsMenor(f, FramesLibresDe(pid)) /\ frame' = f
    /\ UNCHANGED <<tablas, memoria, posicionClock, mutexes, pid, pagina, vieja,
                   vuelta, giro, destino, kernel, externo>>

\* Both algorithms go back to 0 from the last position before they start.
NoHayFrameLibre ==
    /\ PasoCpu("busca", "reloj") /\ LibreFrames /\ FramesLibresDe(pid) = {}
    /\ posicionClock' = IF posicionClock >= CANT_FRAMES - 1 THEN 0 ELSE posicionClock
    /\ vuelta' = 1
    /\ UNCHANGED <<tablas, memoria, mutexes, pid, pagina, frame, vieja, giro,
                   destino, kernel, externo>>

-----------------------------------------------------------------------------
(* CLOCK and CLOCK-M.  The search holds mutexListaFrames and takes         *)
(* mutexLista2N to see the bits of each page.                              *)

\* Variant: the position does not go back to 0.
incrementarSinVolver == posicionClock' = posicionClock + 1

incrementarPosicionClock ==
    posicionClock' = IF posicionClock >= CANT_FRAMES - 1 THEN 0 ELSE posicionClock + 1

\* CLOCK-M passes four times; after that it loops without doing anything.
TomaFrames ==
    /\ PasoCpu("reloj", "gira") /\ LibreFrames
    /\ ALGORITMO = "CLOCK-M" => vuelta <= 4
    /\ mutexListaFrames' = "cpu" /\ giro' = 0
    /\ UNCHANGED <<tablas, memoria, posicionClock, mutexLista2N, pid, pagina,
                   frame, vieja, vuelta, destino, kernel, externo>>

NroPagina == marco[posicionClock].nroPagina
\* Variant: the search takes the frames of every process.
PropioDeTodos == TRUE

Propio == marco[posicionClock].idProceso = pid
\* buscarBitDeUsoDePagina and buscarBitModificado: -1 when no row has the
\* number of the page.
Bit(n, campo) ==
    IF Indices(n) = {} THEN -1 ELSE fila[FilaDeNumero(n)[1]][n][campo]

\* Variant: the bit of use is not cleared.
SinUsoOlvidado(n) == fila' = fila

\* cambiarBitDeUsoDePagina
SinUso(n) ==
    fila' = IF Indices(n) = {} THEN fila
            ELSE [fila EXCEPT ![FilaDeNumero(n)[1]][n].uso = 0]

\* vuelta1y3 looks for (0, 0), vuelta2y4 for (0, 1); CLOCK for 0.
EsVictima ==
    /\ Bit(NroPagina, "uso") = 0
    /\ ALGORITMO = "CLOCK-M" =>
            Bit(NroPagina, "modificado") = IF vuelta \in {1, 3} THEN 0 ELSE 1
LimpiaUso == ALGORITMO = "CLOCK" \/ vuelta \in {2, 4}
Gira == ALGORITMO = "CLOCK-M" => giro < CANT_FRAMES

GiraVictima ==
    /\ PasoCpu("gira", "vieja") /\ Gira
    /\ Propio /\ Libre2N /\ EsVictima
    /\ frame' = posicionClock /\ mutexListaFrames' = "libre"
    /\ incrementarPosicionClock
    /\ UNCHANGED <<tablas, memoria, mutexLista2N, pid, pagina, vieja, vuelta,
                   giro, destino, kernel, externo>>

GiraSigue ==
    /\ PasoCpu("gira", "gira") /\ Gira
    /\ ~Propio \/ (Libre2N /\ ~EsVictima)
    /\ IF Propio /\ LimpiaUso THEN SinUso(NroPagina) ELSE UNCHANGED fila
    /\ giro' = IF ALGORITMO = "CLOCK-M" THEN giro + 1 ELSE giro
    /\ incrementarPosicionClock
    /\ UNCHANGED <<orden, memoria, mutexes, pid, pagina, frame, vieja, vuelta,
                   destino, kernel, externo>>

FinVuelta ==
    /\ PasoCpu("gira", "reloj") /\ ~Gira
    /\ mutexListaFrames' = "libre" /\ vuelta' = vuelta + 1
    /\ UNCHANGED <<tablas, memoria, posicionClock, mutexLista2N, pid, pagina,
                   frame, vieja, giro, destino, kernel, externo>>

-----------------------------------------------------------------------------
(* The page goes to its frame: reemplazarEnRam.                            *)

\* pagVIEJA is searched by the number of the page in the frame.  A frame with
\* no page gives the last row of all.
BuscaVieja ==
    /\ PasoCpu("vieja", "carga") /\ Libre2N /\ LibreFrames
    /\ vieja' = FilaDeNumero(marco[frame].nroPagina)
    /\ UNCHANGED <<tablas, memoria, posicionClock, mutexes, pid, pagina, frame,
                   vuelta, giro, destino, kernel, externo>>

\* Variant: the old page is not written to swap.
GuardaNunca == FALSE

GuardaVieja == ALGORITMO = "CLOCK" \/ fila[vieja[1]][vieja[2]].modificado = 1

\* A row of the file of a process, and the file with a page written.  A
\* position outside of the file is of no page.
read_in_swap(p, n) == swap[p][n]

\* Variant: the offset is that of the page before.
write_frame_corrido(p, posicion, v) ==
    IF posicion - 1 \in PagAUsar(p) THEN [swap EXCEPT ![p][posicion - 1] = v] ELSE swap

write_frame(p, posicion, v) ==
    IF posicion \in PagAUsar(p) THEN [swap EXCEPT ![p][posicion] = v] ELSE swap

\* The old page goes to the file of the process that asks, whoever has it.
\* To write outside of the file is undefined: the program may be killed
\* (SIGSEGV, SIGBUS) or write to bytes that are no page's.
Carga ==
    LET posicion == posicionSwap(vieja[1], vieja[2])
        fuera == GuardaVieja /\ posicion \notin PagAUsar(pid)
    IN  /\ PasoCpu("carga", "tablas")
        /\ ram' = [ram EXCEPT ![frame] = read_in_swap(pid, pagina)]
        /\ swap' = IF GuardaVieja THEN write_frame(pid, posicion, ram[frame]) ELSE swap
        /\ caida' \in IF fuera THEN BOOLEAN ELSE {FALSE}
        /\ UNCHANGED <<tablas, marco, posicionClock, mutexes, pid, pagina, frame,
                       vieja, vuelta, giro, destino, kernel, carga, pedidas, ultimo>>

\* The new row is filled, then cambiarBitDePresencia empties the first row
\* with the number of the old one, then CLOCK-M clears its modified bit.
Nueva ==
    [fila EXCEPT ![pid][pagina] =
        [nroFrame |-> frame, presencia |-> 1, uso |-> 1, modificado |-> 0]]

\* Variant: cambiarBitDePresencia is not called.
ConPresencia(filas, n) == filas

SinPresencia(filas, n) ==
    [filas EXCEPT ![FilaDeNumero(n)[1]][n] =
        [@ EXCEPT !.presencia = 0, !.nroFrame = SinFrame]]
SinModificar(filas, r) ==
    IF ALGORITMO = "CLOCK-M" THEN [filas EXCEPT ![r[1]][r[2]].modificado = 0]
    ELSE filas

ActualizaTablas ==
    /\ PasoCpu("tablas", "marco") /\ Libre2N
    /\ fila' = SinModificar(SinPresencia(Nueva, vieja[2]), vieja)
    /\ UNCHANGED <<orden, memoria, posicionClock, mutexes, pid, pagina, frame,
                   vieja, vuelta, giro, destino, kernel, externo>>

ActualizaFrames ==
    /\ PasoCpu("marco", "accede") /\ LibreFrames
    /\ marco' = [marco EXCEPT ![frame] = [idProceso |-> pid, nroPagina |-> pagina]]
    /\ UNCHANGED <<tablas, ram, swap, posicionClock, mutexes, pid, pagina, frame,
                   vieja, vuelta, giro, destino, kernel, externo>>

-----------------------------------------------------------------------------
(* conexionCPU: the access.                                                *)

\* Frame -1 is outside of memoriaPrincipal: to use it is undefined, and may
\* kill the program or touch bytes that are no page's.
Toca(fs) == caida' \in IF fs \subseteq Frames THEN {FALSE} ELSE BOOLEAN
EscribeRam(f, v) == ram' = IF f \in Frames THEN [ram EXCEPT ![f] = v] ELSE ram

\* The value read is the one in the frame.
accesoMemoriaRead ==
    /\ PasoCpu("accede", "leida") /\ destino = SinDestino
    /\ Toca({frame})
    /\ UNCHANGED <<tablas, memoria, posicionClock, mutexes, pid, pagina, frame,
                   vieja, vuelta, giro, destino, kernel, carga, pedidas, ultimo>>

accesoMemoriaWrite(v) ==
    /\ PasoCpu("accede", "escrita") /\ destino = SinDestino
    /\ Toca({frame}) /\ EscribeRam(frame, v)
    /\ ultimo' = [ultimo EXCEPT ![pid][pagina] = v]
    /\ UNCHANGED <<tablas, marco, swap, posicionClock, mutexes, pid, pagina, frame,
                   vieja, vuelta, giro, destino, kernel, carga, pedidas>>

\* What is read at -1 may be anything.
accesoMemoriaCopy ==
    /\ PasoCpu("accede", "copiada") /\ destino # SinDestino
    /\ Toca({frame, destino.frame})
    /\ \E v \in IF frame \in Frames THEN {ram[frame]} ELSE Valores :
            EscribeRam(destino.frame, v)
    /\ ultimo' = [ultimo EXCEPT ![pid][destino.pagina] = ultimo[pid][pagina]]
    /\ UNCHANGED <<tablas, marco, swap, posicionClock, mutexes, pid, pagina, frame,
                   vieja, vuelta, giro, destino, kernel, carga, pedidas>>

\* The bits of the first row that has the frame.  A COPY goes on to the
\* next table and does not set the bit of use.
MarcaCopia(f) ==
    LET marcadas == {<<orden[i][1], Min(ConFrame(i, f))>> : i \in Usuarias(f)} IN
    [p \in Pid |-> [n \in Filas(p) |->
        IF <<p, n>> \in marcadas
        THEN [fila[p][n] EXCEPT !.modificado = 1] ELSE fila[p][n]]]

Marcada(r, modifica) ==
    [r EXCEPT !.uso = 1, !.modificado = IF modifica THEN 1 ELSE r.modificado]

MarcaBits(f, modifica) ==
    LET r == FilaDeFrame(f) IN
    IF Usuarias(f) = {} THEN fila
    ELSE [fila EXCEPT ![r[1]][r[2]] = Marcada(@, modifica)]

Marca ==
    /\ pcCpu' = "libre" /\ Libre2N /\ ~caida
    /\ \/ pcCpu = "leida" /\ fila' = MarcaBits(frame, FALSE)
       \/ pcCpu = "escrita" /\ fila' = MarcaBits(frame, ALGORITMO = "CLOCK-M")
       \/ pcCpu = "copiada" /\ fila' = IF ALGORITMO = "CLOCK-M"
                                       THEN MarcaCopia(destino.frame) ELSE fila
    /\ destino' = SinDestino /\ pid' = Nadie
    /\ UNCHANGED <<orden, memoria, posicionClock, mutexes, pagina, frame, vieja,
                   vuelta, giro, kernel, externo>>

conexionCPU ==
    \/ BuscaPagina \/ TraduceEnRam \/ TraduceAusente \/ UsaPagina \/ LeeFrame
    \/ HayFrameLibre \/ NoHayFrameLibre
    \/ TomaFrames \/ GiraVictima \/ GiraSigue \/ FinVuelta
    \/ BuscaVieja \/ Carga \/ ActualizaTablas \/ ActualizaFrames \/ Marca
    \/ accesoMemoriaRead \/ accesoMemoriaCopy
    \/ \E v \in Valores \ {Blanco} : accesoMemoriaWrite(v)

-----------------------------------------------------------------------------
(* conexionKernel.                                                         *)

PasoKer(a, b) == ~caida /\ pcKer = a /\ pcKer' = b

\* A request of the Kernel, for a process in one of the states "de".
Pide(p, de, a, pc) ==
    /\ PasoKer("libre", pc) /\ carga[p] \in de
    /\ carga' = [carga EXCEPT ![p] = a] /\ pidKer' = p
    /\ paginaKer' = 0 /\ aLiberar' = <<>>
    /\ UNCHANGED <<tablas, memoria, posicionClock, mutexes, cpu, caida, ultimo>>

TablasDe(p) == {i \in DOMAIN orden : orden[i][1] = p}

\* planifLargoPlazo loads a new process or brings back a suspended one.  Once
\* a SUSPENDER came late, LISTA_BLOCKED_SUSPENDED may have a note of a process
\* that was never out, which is then loaded again.  The CPU does not run it.
Tarde == tardes > 0
Fuera == IF Tarde THEN {"nuevo", "suspendido", "listo"} ELSE {"nuevo", "suspendido"}
PidePasarAReady(p) ==
    /\ pid # p /\ UNCHANGED pedidas
    /\ Pide(p, Fuera, "entra", IF TablasDe(p) = {} THEN "crea" ELSE "asigna")

Cuenta == suspensiones < MaxSuspensiones /\ suspensiones' = suspensiones + 1

\* hiloSuspendedor on time: the process stays blocked.
PideSuspender(p) ==
    /\ pid # p /\ Cuenta /\ UNCHANGED tardes
    /\ Pide(p, {"listo"}, "suspendido", "suspende")

\* Late: planifBloqueados found the process in LISTA_BLOCKED too, and takes it
\* to READY.  When the message comes it may be anywhere from there.
PideSuspenderTarde(p) ==
    /\ Cuenta /\ tardes < MaxTardes /\ tardes' = tardes + 1
    /\ Pide(p, {"listo", "suspendido", "fin"}, carga[p], "suspende")

\* recibirMensajeCPU, with the process that the CPU gave back.
PidePasarAExit(p) ==
    /\ pid # p /\ UNCHANGED pedidas
    /\ Pide(p, {"listo"}, "fin", "exit")

\* crearTablasParaUnProceso adds its tables one at a time.
CreaTabla ==
    LET k == Cardinality(TablasDe(pidKer)) IN
    /\ PasoKer("crea", IF k + 1 = CantTablas(pidKer) THEN "asigna" ELSE "crea")
    /\ Libre2N
    /\ orden' = Append(orden, <<pidKer, k>>)
    /\ UNCHANGED <<fila, memoria, posicionClock, mutexes, cpu, pidKer, paginaKer,
                   aLiberar, externo>>

\* Variant: one frame more.
UnoMas ==
    {f \in Frames : Libre(f)
        /\ Cardinality({g \in Frames : Libre(g) /\ g < f}) <= MARCOS_POR_PROCESO}

\* The first MARCOS_POR_PROCESO free frames.
ALosQueToca ==
    {f \in Frames : Libre(f)
        /\ Cardinality({g \in Frames : Libre(g) /\ g < f}) < MARCOS_POR_PROCESO}

AsignaFrames ==
    /\ PasoKer("asigna", "libre") /\ LibreFrames
    /\ marco' = [f \in Frames |->
            IF f \in ALosQueToca THEN [marco[f] EXCEPT !.idProceso = pidKer] ELSE marco[f]]
    /\ carga' = [carga EXCEPT ![pidKer] = "listo"]
    /\ pidKer' = Nadie
    /\ UNCHANGED <<tablas, ram, swap, posicionClock, mutexes, cpu, paginaKer,
                   aLiberar, pedidas, caida, ultimo>>

\* suspender and pasarAExit hold mutexLista2N over all the pages.
Toma2N(a, b) ==
    /\ PasoKer(a, b) /\ Libre2N
    /\ mutexLista2N' = "kernel"
    /\ UNCHANGED <<tablas, memoria, posicionClock, mutexListaFrames, cpu, pidKer,
                   paginaKer, aLiberar, externo>>

ASuspender(p) == {n \in PagAUsar(p) : fila[p][n].presencia = 1}
\* The frame of a page is searched by the number of the page, whoever owns it.
FramesDeNumero(n) == {f \in Frames : marco[f].nroPagina = n}
Bajada(r) == [r EXCEPT !.presencia = 0, !.uso = 0, !.modificado = 0]

\* The frame is copied to swap once mutexListaFrames is free again.
SuspendePagina ==
    /\ PasoKer("paginas", "copia") /\ LibreFrames
    /\ \E n \in PagAUsar(pidKer), f \in Frames :
        /\ EsMenor(n, ASuspender(pidKer)) /\ EsMenor(f, FramesDeNumero(n))
        /\ fila' = [fila EXCEPT ![pidKer][n] = Bajada(@)]
        /\ aLiberar' = Append(aLiberar, f) /\ paginaKer' = n
    /\ UNCHANGED <<orden, memoria, posicionClock, mutexes, cpu, pidKer, externo>>

CopiaPagina ==
    /\ PasoKer("copia", "paginas")
    /\ swap' = write_frame(pidKer, paginaKer, ram[Last(aLiberar)])
    /\ fila' = [fila EXCEPT ![pidKer][paginaKer].nroFrame = SinFrame]
    /\ UNCHANGED <<orden, marco, ram, posicionClock, mutexes, cpu, pidKer,
                   paginaKer, aLiberar, externo>>

SuspendeSinFrame ==
    /\ PasoKer("paginas", "paginas") /\ LibreFrames
    /\ \E n \in PagAUsar(pidKer) :
        /\ EsMenor(n, ASuspender(pidKer)) /\ FramesDeNumero(n) = {}
        /\ fila' = [fila EXCEPT ![pidKer][n] = Bajada(@)]
    /\ UNCHANGED <<orden, memoria, posicionClock, mutexes, cpu, pidKer,
                   paginaKer, aLiberar, externo>>

FinSuspender ==
    /\ PasoKer("paginas", "libera") /\ ASuspender(pidKer) = {}
    /\ mutexLista2N' = "libre"
    /\ UNCHANGED <<tablas, memoria, posicionClock, mutexListaFrames, cpu, pidKer,
                   paginaKer, aLiberar, externo>>

liberarFrame_Tabla(f) ==
    /\ LibreFrames
    /\ marco' = [g \in Frames |-> IF g = f THEN Vacio ELSE marco[g]]
    /\ ram' = [g \in Frames |-> IF g = f THEN Blanco ELSE ram[g]]

LiberaSuspendido ==
    /\ PasoKer("libera", "libera") /\ aLiberar # <<>>
    /\ liberarFrame_Tabla(Head(aLiberar)) /\ aLiberar' = Tail(aLiberar)
    /\ UNCHANGED <<tablas, swap, posicionClock, mutexes, cpu, pidKer, paginaKer,
                   externo>>

Suspendido ==
    /\ PasoKer("libera", "libre") /\ aLiberar = <<>>
    /\ pidKer' = Nadie
    /\ UNCHANGED <<tablas, memoria, posicionClock, mutexes, cpu, paginaKer,
                   aLiberar, externo>>

LiberaPagina ==
    /\ PasoKer("salida", "salida") /\ paginaKer \in PagAUsar(pidKer)
    /\ liberarFrame_Tabla(fila[pidKer][paginaKer].nroFrame)
    /\ fila' = [fila EXCEPT ![pidKer][paginaKer] =
                    [Bajada(@) EXCEPT !.nroFrame = SinFrame]]
    /\ paginaKer' = paginaKer + 1
    /\ UNCHANGED <<orden, swap, posicionClock, mutexes, cpu, pidKer, aLiberar, externo>>

FinExit ==
    /\ PasoKer("salida", "libre") /\ paginaKer \notin PagAUsar(pidKer)
    /\ mutexLista2N' = "libre" /\ pidKer' = Nadie
    /\ UNCHANGED <<tablas, memoria, posicionClock, mutexListaFrames, cpu,
                   paginaKer, aLiberar, externo>>

suspender ==
    \/ Toma2N("suspende", "paginas") \/ SuspendePagina \/ CopiaPagina
    \/ SuspendeSinFrame \/ FinSuspender \/ LiberaSuspendido \/ Suspendido
pasarAExit == Toma2N("exit", "salida") \/ LiberaPagina \/ FinExit
conexionKernel == CreaTabla \/ AsignaFrames \/ suspender \/ pasarAExit

-----------------------------------------------------------------------------
Pedidos ==
    \/ \E p \in Pid : PidePasarAReady(p) \/ PidePasarAExit(p)
    \/ \E p \in Pid : PideSuspender(p) \/ PideSuspenderTarde(p)
    \/ \E p \in Pid : \E n \in PagAUsar(p) : CpuPide(p, n)
    \/ \E p \in Pid : pid = p /\ \E n \in PagAUsar(p) : CpuPideOrigen(n)

Next == conexionCPU \/ conexionKernel \/ Pedidos

Spec == Init /\ [][Next]_vars
SpecJusta == Spec /\ WF_vars(conexionCPU) /\ WF_vars(conexionKernel)

=============================================================================
