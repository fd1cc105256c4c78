# A formal model of kiss-tp-so-2022

The repository is a small operating system made of four programs that talk over
sockets: consoles submit programs, a **Kernel** schedules them, a **CPU** runs
them and a **MemoriaSwap** gives them paged memory with swap. This directory
holds TLA+ modules translated from its source, TLC configurations that check
them on small instances, and TLAPS proofs of what holds on every instance.

Definitions keep the names of the source, so the modules are in Spanish; paths
below are relative to `src/`.

## 1. The system

| Component | State | Operations | Talks to |
|---|---|---|---|
| Consola (`Consola/src/Consola.c`) | none | sends "size\nprogram", waits for one `EXIT_PCB` | Kernel |
| Kernel, admission (`consolaMultihilo`, `crearPCB`) | `args_pcb` on a stack, `ID_PROXIMO`, `LISTA_SOCKETS` | one detached thread for each console | Consola |
| Kernel, scheduling (`Kernel.c`, `Utils.c`) | eight lists, five semaphores, one mutex for each list, `timeValBefore` | four threads (`planifLargoPlazo`, `planifCortoPlazo`, `recibirMensajeCPU`, `planifBloqueados`) and one `hiloSuspendedor` for each I/O | CPU by two sockets, memory by one |
| CPU (`CPU.c`) | the process, `interrupciones` | instruction cycle, interrupt thread | Kernel, memory |
| TLB (`tlb.c`) and MMU (`MMU.c`) | size, algorithm, the list of entries, newest first | search, update, clear; two-step translation | memory |
| MemoriaSwap, for the Kernel (`peticiones.c`) | page tables, frames | `pasarAReady`, `suspender`, `pasarAExit` | Kernel, swap |
| MemoriaSwap, for the CPU (`peticiones.c`, `gestionMemoria.c`, `algoritmosReemplazo.c`) | the same, `posicionClock`, the bytes of the memory | two-step access, read, write, copy, CLOCK and CLOCK-M | CPU, swap |
| Swap (`Swap.c`) | one file for each process | read and write of a page, deletion | |
| psicoLibrary | none | messages, serialisation of a PCB, parser of programs | everyone |

**What is hard.** The Kernel's threads share lists, each protected by its own
mutex, and wake each other with semaphores, so every hand-over of a process is
several critical sections with room for other threads in between. Two of the
reads that decide what happens to a blocked process take no mutex. Timers
(`tiempoMaximoBloqueado`) race with the ends of I/Os and are never cancelled.
Three threads write to the memory's socket. The memory's two connection threads
share tables and frames under five mutexes taken in different orders. The TLB
caches translations that the memory may change.

**What makes each part correct.**

* Scheduling: one thread works on a process at a time; a process moves only
  along the arrows of the seven-state diagram; one process has the processor;
  a thread that a semaphore lets through finds what it was woken for; no place
  of the degree of multiprogramming is lost, and none is invented; SRT picks a
  shortest process and charges each burst to the process that ran it; every
  process exits.
* Admission: each console's program becomes one process, and the answer goes
  to the console that sent it.
* TLB: one entry for a page; FIFO and LRU remove the entry they should; a frame
  that comes from it is of the process that runs.
* CPU: the pages of an instruction are translated before it accesses them; an
  interrupt takes effect, and on one process only.
* Memory: a frame belongs to at most one process and holds at most one page;
  presence bits and frames agree; a page that is read holds what was last
  written to it, in memory or in swap; no frame leaks; replacement ends.
* Memory's threads: no deadlock, no unlocked access that matters.

## 2. The plan

1. **Kernel scheduling** (done): `Kernel`, `KernelPropiedades`, `CicloVida`,
   `MCKernel`, and the proofs `KernelProofs`, `KernelSemaforos`,
   `KernelLugares` and `KernelCiclo`.
2. **Memory** (done): `Memoria` (page tables, frames, CLOCK and CLOCK-M,
   suspension, exit and swap, both connection threads at the grain of their
   mutexes), `MemoriaPropiedades`, its abstract specification
   `MemoriaAbstracta`, `MCMemoria` and the proofs `MemoriaProofs` and
   `MemoriaFilas`.
3. **TLB and CPU** (done): `TLB`, its abstract specification `Cache`, the cycle
   with MMU and interrupts `Cpu`, `CpuPropiedades`, `MCCpu`, and the proofs
   `CpuProofs`.
4. **CPU over the memory** (done): `CpuMemoria`, which composes `Cpu` with
   `Memoria`, `CpuMemoriaPropiedades`, `MCCpuMemoria`, and the proofs
   `CpuMemoriaProofs`.
5. **Sistema**: `Kernel` and `Memoria` in one specification. Until then the
   Kernel's requests in `Memoria` are those that `Kernel.c` makes, with what
   the Kernel model shows of them (section 4).
6. **Bytes**: how values are written, read and copied in a frame, as operators.
7. Further proofs: what a suspension leaves of `Aislado`, and contents under the
   CPU of section 5 with a TLB of one entry, where no translation is out of date.

Admission (the threads of consoles before a process is added to NEW) was planned
and given up: section 9 says why.

## 3. The Kernel model

`Kernel` has one action for each step of a thread that another thread can tell
apart: one critical section, one semaphore operation, one unlocked read, one
message sent or received. Since each list has a mutex of its own and no thread
holds two, a critical section is one atomic step. What a thread does on its own
data is merged with the step after or before it. The names of the actions say
the thread and the step: `Lp...` (planifLargoPlazo with
planifMedianoPlazoSuspReady), `Cp...` (planifCortoPlazo), `Rx...`
(recibirMensajeCPU), `Io...` (planifBloqueados), `Hilo...` (hiloSuspendedor),
`Crear...` (crearPCB), `Cpu...` (the CPU's dispatch thread).

State and code:

* `cola`: the lists used as queues. `LISTA_NEW`, `LISTA_READY`,
  `LISTA_READY_SUSPENDED` and `COLA_BLOQUEO_IO` as sequences.
* `lista`: the lists that are only searched and removed from by process id,
  `LISTA_EXEC`, `LISTA_BLOCKED`, `LISTA_BLOCKED_SUSPENDED` and `LISTA_EXIT`, as
  the number of times each id is in them. A removal that finds nothing changes
  nothing, as in `list_remove_by_condition`.
* `sem`: the five semaphores. `pc` and `pcb`: where each long-lived thread
  stands and the process its variable `pcb` holds. `hilo[p][n]`: the
  `hiloSuspendedor` of the n-th I/O of p, so several may be alive at once, each
  sleeping its own `tiempoMaximoBloqueado`. `crear[p]`: the thread `crearPCB`.
* `rafaga`: `estimacion_actual - ejecutados_total`, what SRT compares. A BLOCK
  gives any new value (the exponential mean of a measured time), an INTERRUPT
  one that is no larger. Only the order matters, so `Rafagas` is a small set.
* `dispatch`, `respuesta`, `interrupt`, `memoria`, `respMem`: what is in transit
  on each socket, in order and without loss, as TCP gives it.
* `interrupciones`: the CPU's flag. The CPU returns a process with BLOCK, with
  EXIT, or, when the flag is up, with INTERRUPT, which is when the cycle checks
  it; it clears the flag after the process was sent (`CpuLimpia`).
* `residente`: the processes the memory holds loaded, changed by the three
  requests in the order in which they arrive.

What the model leaves out, and why:

* The unlocked searches of `LISTA_BLOCKED`, `LISTA_BLOCKED_SUSPENDED` and
  `LISTA_READY_SUSPENDED` (`Kernel/src/Kernel.c:141, 353, 398, 409`) are a read
  of the list before or after each critical section of another thread. That a
  search may also walk over a node being freed is undefined behaviour; the
  model does not follow a program that has crashed.
* `mutex_lista_exit` is used without `pthread_mutex_init`; as a zeroed global
  it works, and only recibirMensajeCPU takes it.
* A program does at most `MaxIO` I/Os and ends in EXIT. Instructions that stay
  in the CPU are not counted: they only let time pass.
* Time: a sleep may end at any moment after it began, which covers every value
  of `TIEMPO_MAXIMO_BLOQUEADO` and every I/O duration.

`CicloVida` is what the Kernel promises about one process: the seven states of
`ESTADOS_PCB` (`Kernel/src/headers/Kernel.h:17-25`) with the two blocked states
as one, since which of LISTA_BLOCKED and LISTA_BLOCKED_SUSPENDED a process is in
while hiloSuspendedor moves it is not decided by one step, and the arrows
between them; a process enters EXEC only when none is there.
`KernelPropiedades!EstadoDe` is the refinement mapping.

## 4. The memory model

`Memoria` has the threads `conexionCPU` and `conexionKernel` of MemoriaSwap.
A step is what a thread does between one point where it may wait for the other
and the next: a critical section of `mutexLista2N` or of `mutexListaFrames`, or
an access to the bytes of the memory and the swap. Where a thread asks for a
mutex while it holds another, the first has its holder in the state
(`mutexListaFrames` during the search for a victim, `mutexLista2N` during
`suspender` and `pasarAExit`) and the second is a guard of the step.

* `orden` is `listaTodasTablas2N`: which table of which process comes when. The
  rows are `fila[p][n]`, with the number that the code gives them (each process
  starts at 0), rows that are `PAG_INUTIL` included. `FilaDeNumero` is the
  search that the code repeats in `cambiarBitDePresencia`,
  `buscarBitDeUsoDePagina`, `buscarBitModificado`, `cambiarBitDeUsoDePagina`
  and twice in `segundoPasoTraduccionDireccion`: by number alone, and the last
  row of all where a search that fails leaves its variable there.
* `marco` is `tablaDeFrames`. `estado` is not kept: it is OCUPADO exactly when
  `nroPagina` is not -1, both being set together.
* `ram` and `swap`: one value for a page; `Blanco` is a page of '*'. A write to
  swap at `posicionSwap` -1 is before the beginning of the mapped file: the
  program may be killed (`caida`) or write to bytes that belong to no page.
* `pcCpu` and the variables after it: the request that `conexionCPU` serves,
  from the translation (`traduce`) to the access (`accede`) and its bits
  (`Marca`). The translation has the grain of the code
  (`MemoriaSwap/src/peticiones.c:374-398`): the search for the row under
  `mutexLista2N` (`BuscaPagina`), the look at its presence without a lock
  (`TraduceEnRam`, `TraduceAusente`), its bit of use under the mutex again
  (`UsaPagina`) and the read of its frame without a lock (`LeeFrame`). When the
  page is absent come `busca`, `reloj`, `gira`, `vieja`, `carga`, `tablas` and
  `marco`. CLOCK and CLOCK-M pass one frame in each step, and `vuelta` counts
  the passes of CLOCK-M.
* An access to frame -1, which a translation may answer after a suspension that
  came late, is before the beginning of `memoriaPrincipal`: like a write before
  the beginning of a file it may kill the program (`Toca`), or touch no page.
* `carga`, `ultimo`: what the Kernel has asked for each process and what each
  program wrote last in each page. `CpuPide...` is the CPU, which uses pages of
  the process only and does not know what the memory suspended; `CpuPideOrigen`
  is the second translation of a COPY, while the frame of the first is kept.

**The requests of the Kernel** are those of `Kernel.c`, with the order in which
it makes them:

| Action | Code (`Kernel/src/Kernel.c`) | Guard |
|---|---|---|
| `PidePasarAReady` | 151-156, 178-186 | a new process or a suspended one; the degree is not looked at, since the Kernel exceeds it (`kernel_grado`) |
| `PideSuspender` | 353-365, on time | a loaded process, which stays blocked until the Kernel brings it back |
| `PideSuspenderTarde` | 353-365, late | any process but a new one: `planifBloqueados` (398-403) took it to READY, and from there it may be running, blocked again or gone; it goes on as it was |
| `PidePasarAExit` | 302-312 | the process that the CPU gave back |

Once a SUSPENDER came late, a process that is noted in LISTA_BLOCKED_SUSPENDED
and never was out may be asked for again, so `PidePasarAReady` takes loaded
processes too (`Fuera`). That only a late SUSPENDER is ever about the process
that the CPU has (`pid # p` in the others) is not an assumption about the
Kernel: `PedidosSinCpu` says it of `Kernel`, the run `kernel_progreso` checks it
and the theorem `SoloSeSuspende` proves it. `suspensiones` and `tardes` count
the SUSPENDERs, and those of them that came late (`Tarde`).

`MemoriaAbstracta` is what all of this is for a program: a value for each page,
which only a write of that program changes, and one access at a time whose
answer is that value. `MemoriaPropiedades!Contenido` says where the value is:
in the frame of the row, in the file, or, between two critical sections of
`suspender`, in the frame that is about to be copied. A memory that has been
sent a late SUSPENDER promises nothing any more (`fallida`), because section 7
tells how it loses a write.

Left out: the CPU's TLB, which skips translations (the CPU translates before
each access here, and `CpuMemoria` of section 5 has the TLB); the first-level
tables, which only lead to the second; the
second unlock of `mutexLista1N` in `primerPasoTraduccionDireccion`, which is
undefined behaviour that does nothing where it is seen; `memcpy` of page-sized
buffers that are not terminated by 0.

## 5. The CPU, and the CPU over the memory

`TLB` is `tlb.c`: `size`, `algoritmo` and the list `entradas` of the C structure,
one action for each function. The dispatch thread alone uses it, so a function is
one step. `buscar_en_TLB` moves the entry to the front under LRU;
`actualizar_TLB` adds in front when there is room, and otherwise removes the last
entry (LRU) or the one at `size - 1` (FIFO) first. The size and the algorithm
are chosen in the initial state, so one run covers the configurations.

`Cache` is what that list stands for: a set of entries with one for each page,
and an order of age. A new entry replaces the oldest of a full set, and a use
makes an entry the newest under LRU only. `CpuPropiedades!Lista` maps the list to
it: the contents are the elements, and an element is newer than those behind it.

`Cpu` is `CPU.c` and `MMU.c`. `pcDispatch` says where the dispatch thread stands:

* `libre`, `fetch`: waiting for a process; about to decode an instruction.
  Which one comes next is any, so every program is there, with three limits: it
  ends in EXIT, offsets are left out (they go through a translation unchanged),
  and `NO_OP` only passes time. `Devuelve` is both IO and EXIT, that differ for
  the Kernel alone.
* `traduce`, `primer_llamado`, `segundo_llamado`: `calcularDireccionFisica` of
  the next of `operandos`, whose frame is appended to `marcos`: a hit (`Acierta`)
  or the two calls of the MMU and the update of the TLB (`Falla`,
  `SegundoLlamado`, `Traduce`). A COPY translates the page of its second
  parameter first, in the decode, and that of the first one in the execution.
* `acceso`, `revisa`: the access, and the check of `interrupciones`.
* `baja`, `limpia`: the process was sent back; the flag is lowered and then the
  TLB emptied. The interrupt thread (`iniciarInterrupt`) may raise the flag
  before, between and after these steps: they share it without a lock.

`recibidas` and `devueltas` count the interrupts and the processes sent back for
one. The Kernel (which process comes, when an interrupt does) and the memory
(which frame a translation gives) are external: any process, any moment, any
frame.

`CpuMemoria` replaces that memory by the one of section 4, and the CPU that
`Memoria` assumes by `Cpu`. A message and its receipt are one step of both:

| Step | CPU | Memory |
|---|---|---|
| `PideTraduccion` | `SegundoLlamado` | `CpuPide`: `conexionCPU` starts `segundoPasoTraduccionDireccion` |
| `RespondeTraduccion` | `Traduce(frame)` | back to waiting for a message |
| `PideAcceso` | `Accede` | the request goes with the frames of `marcos`, not with pages |
| `RespondeAcceso` | `Respuesta` | `Marca`, the bits after the access |

`SoloCpu` and `SoloMemoria` are the steps of one of them. The first call of a
translation changes nothing in the memory, and only the second is there. The
Kernel dispatches any loaded process and asks the memory what section 4 says:
about processes that the CPU does not have, but for a SUSPENDER that comes late.
A translation may then be answered with -1. `Traduce` puts it in the TLB as the
code does (`CPU/src/CPU.c:209-216`), where a hit on it is a miss
(`TLB!buscar_en_vano`).

## 6. What is checked

| Run | Instance | Shows |
|---|---|---|
| `kernel_fifo` | FIFO, 2 processes, 2 I/Os each, degree 1 | `UnSoloLugar`, `SinPCBNulo`, `CuposNoSePierden`, `ExitLibera` |
| `kernel_srt` | SRT, 2 processes, 1 I/O each, degree 2, 2 burst lengths | `TypeOK`, `ProcesadorExclusivo`, `ExecCoherente`, `EleccionSRT`, `MedicionPropia` |
| `kernel_progreso` | SRT, 2 processes, 1 I/O each, degree 1, fair | `PedidosSinCpu`, `Progreso`, `ImplementaCicloVida` |
| `kernel_grado` | FIFO, 3 processes, degree 1 | `CabenEnMemoria` is violated |
| `kernel_perdido` | FIFO, degree 1, fair | `TodoTermina` is violated |
| `memoria_uno` | CLOCK, 1 process of 3 pages, 2 frames, 2 suspensions on time, 3 values, fair | `LeeLoEscrito`, `ImplementaMemoria`, `FrameDeLaFila`, `Responde` |
| `memoria_mezcla` | CLOCK-M, processes of 2 and 1 pages, 2 frames, 1 suspension, on time or late, COPY | `TypeOK`, `DuenioEstable` |
| `memoria_modificado` | CLOCK-M, 1 process | `BitModificadoExacto` is violated |
| `memoria_presencia` | CLOCK, 2 processes | `FrameDeLaFila` is violated |
| `memoria_abrazo` | CLOCK, 2 processes, fair | `Responde` is violated |
| `cpu` | LRU and FIFO, TLBs of 1, 2 and 3 entries, 4 pages, 2 frames, 2 interrupts, fair | `CpuTypeOK`, `EntradasUnicas`, `UltimaTraduccion`, `InterrupcionUnica`, `ImplementaCache`, `Desalojo` |
| `cpu_memoria` | CLOCK, 2 processes of 2 pages with a frame each, COPY, no suspensions, LRU and FIFO, TLBs of 1 and 2 entries | `TraduccionesPropias`, `NuevaCoherente`, `Aislado`, `CupoDeMarcos`, `DuenioEstable`, `ImplementaCpu` |

**Bounds of the Kernel.** Two processes with two I/Os each are enough for a timer of the first
I/O to fire during the second, for the I/O queue to hold two processes, and,
with degree 1, for one process to wait for the place of the other; degree 2 with
SRT is needed for READY to hold two processes while an interrupt is in flight.
Three processes are needed to see the degree exceeded: the one whose place was
given back twice, and two that enter. `CHECK_DEADLOCK` is off because the system
stops when every program has exited. Symmetry over processes is used in the
safety runs only.

**Bounds of the memory.** Three pages over two frames with two entries for each
table make a process replace pages, have a second table, and leave one row that
is not used. Two written values tell a lost write from one that was never made.
`LeeLoEscrito` and `ImplementaMemoria` are checked for one process, without COPY
and with a process that does not fill its last table, because what section 7
tells breaks them otherwise. `MaxSuspensiones` is 2 there: a page that was
suspended, brought back and written is suspended again. `MaxTardes` is 0, since
all that the run checks is stated until a SUSPENDER comes late (`Tarde`): one more
request would only add states of which nothing is said, and the theorems of
section 8 allow any number of them. Late ones are where something is said of what
comes after: two processes over two frames make each replace and find the other's
rows, and with CLOCK-M and one suspension (`memoria_mezcla`) a frame may be freed
by number in the middle of a translation, a replacement or an access of the
process itself or of the other, and the process goes on.
`CHECK_DEADLOCK` is off because the system stops when every process has exited.

**Bounds of the CPU.** Four pages fill a TLB of three entries and replace one,
which is where FIFO and LRU differ after a hit; with one entry, a COPY replaces
the entry of its own first page. `MaxInterrupciones` is 2: one interrupt to send
a process back and one that comes between the sending and the lowering of the
flag, where it is lost. In `cpu_memoria` it is 0, since an interrupt is a step of
the CPU alone that `cpu` covers: what it leads to, `Limpia` and another process,
also follows an IO. Two pages and one frame for a process replace a page at each
change of page while the TLB holds both. `cpu` checks deadlock: the CPU always
has a step.

**Fairness of the Kernel** (`Kernel!SpecJusta`). Weak fairness of every thread: a thread that can run
is run by the operating system and no other thread can disable its next step
except by taking a semaphore, which each semaphore's only waiter does; sleeps
end; the CPU reaches the next I/O or EXIT of a program (it has no loops); the
memory answers. Consoles need not come: `CrearNew` has no fairness. One weak
fairness condition per thread suffices since a thread has one enabled step at a
time, except for the CPU's choice of how a program goes on, and there every
choice leads on: a program has finitely many I/Os, and an INTERRUPT uses up one
of finitely many interrupts.

**Fairness of the memory** (`Memoria!SpecJusta`). Weak fairness of each of the
two threads: each has one step to take at a time. Neither the CPU nor the
Kernel has to ask for anything, so `Responde` speaks of a request already made.

**Fairness of the CPU** (`Cpu!CpuJusta`). Weak fairness of the instruction
cycle: the dispatch thread runs and the memory answers, and at each point but
`libre` it has a step that only its own step disables, except that an interrupt
turns `Sigue` into `Desaloja`, which is a step of the cycle too. Neither
processes nor interrupts need come.

## 7. What the code does that its text does not say

* **A suspension that comes too late** (`Kernel/src/Kernel.c:353-365`). `hiloSuspendedor` looks for the process in
  LISTA_BLOCKED without the mutex. If `planifBloqueados` takes the process to
  READY before the removal, the removal finds nothing and the thread goes on:
  the memory is told to suspend a process that is ready or running, the process
  is noted in LISTA_BLOCKED_SUSPENDED, and a place of the degree is given back.
* **The degree grows** (`kernel_grado`). That place is given back again when
  the process exits, so more processes are loaded than the configured degree,
  of which `MemoriaSwap/src/estructuras.c:118` says that it is what fits.
* **A lost end of I/O** (`kernel_perdido`). If the I/O ends when
  `hiloSuspendedor` has removed the process from LISTA_BLOCKED (line 356) and
  not yet added it to LISTA_BLOCKED_SUSPENDED (line 364), `planifBloqueados`
  finds it in neither (398, 409) and forgets it. It stays suspended forever and
  its console waits forever. `Progreso` shows that this window is the only way.

The late suspension cannot lose a place of the degree (`CuposNoSePierden` is an
inequality for that reason: there may be too many, never too few) nor leave an
exited process loaded (`ExitLibera`).

Nothing in `peticiones.c` asks whether the process that is suspended is one that
runs. What a late SUSPENDER does there (`Memoria` with `MaxTardes` above 0, even
with one process; no text of the repository says otherwise, so without a run):

* **A write is lost.** `suspender` notes the frame of a page
  (`MemoriaSwap/src/peticiones.c:231-248`), copies it to swap and frees it at the
  end (249-263). What the process writes after the copy is wiped with the frame.
* **-1 is answered.** Between the look at `presencia` (line 391) and the read of
  `nroFrame` (398), `suspender` may take both. The CPU then reads or writes
  before the beginning of `memoriaPrincipal`.
* **A present page without a frame.** A page is suspended, asked for and loaded
  in the same frame before `suspender` frees it.
* **No progress.** The frames of the process are gone while it runs, and the next
  search finds none that is its own: CLOCK goes round forever
  (`MemoriaSwap/src/algoritmosReemplazo.c:26`), with `mutexListaFrames` taken. And
  the search and `suspender` take `mutexLista2N` and `mutexListaFrames` in
  opposite orders, which is a deadlock with one process.

For this reason what is said of rows, contents and progress with suspensions is
said until one comes late (`~Tarde` in `FrameDeLaFila`, `LeeLoEscrito`,
`NuevaCoherente` and `Responde`, `fallida` in `MemoriaAbstracta`). `TypeOK`,
`DuenioEstable` and what is said without suspensions do not need it.

In the memory:

* **Lost writes** (`memoria_modificado`, `MemoriaSwap/src/peticiones.c:394`).
  CLOCK-M clears the modified bit each time a page that is in memory is
  translated, so a page that was written and later read is replaced without
  being written to swap.
* **Rows of another process** (`memoria_presencia`,
  `MemoriaSwap/src/utils.c:33`). The rows are searched by page number and
  each process has a page 0. The process whose page was replaced keeps it
  marked as present and goes on using a frame that holds another page.
* **Deadlock** (`memoria_abrazo`). A search for a victim holds
  `mutexListaFrames` and waits for `mutexLista2N`; `pasarAExit` and `suspender`
  do the opposite.

Met while modelling, reachable in `Memoria` and without a run of their own:

* The search for a victim clears the bit of use of the first process that has
  a page with that number (`MemoriaSwap/src/utils.c:77`).
* When a frame had no page, the last row of all the tables is taken for the old
  page (`MemoriaSwap/src/peticiones.c:421-433`): it is marked absent, and under
  CLOCK its place in swap is written with what the frame held. If that row is
  of a page, that is if the process fills its last table, what was written in
  the page is lost (`SeLeeLoEscrito` needs the row to be of none).
* Frames reserved and never used keep the id of a process that exited
  (`MemoriaSwap/src/peticiones.c:298`), until a later process gets none.

`DuenioEstable`, `Aislado` and `CupoDeMarcos` say what is left in spite of the
searches by number: frames are not stolen, and without suspensions no process
reaches those of another. With suspensions `Aislado` is false: the frame of a
suspended process's page may be that of another process's page with the same
number, which is then freed under it.

In the CPU, reachable in `Cpu` and `CpuMemoria` and without a run of their own,
since no text of the repository says otherwise:

* **Translations that are out of date** (`CPU/src/tlb.c:43`). The memory replaces
  pages and the CPU is not told, and an entry goes only when its place is taken,
  not when its frame is translated for another page. A hit then reads or writes
  a frame that holds another page. It takes two entries under LRU, where a hit
  on such an entry makes it the newest, or, once two processes have tables, the
  rows of another process (`memoria_presencia`). `NuevaCoherente` says what is
  left: where a hit does not change the order, the newest entry is right.
  `TraduccionesPropias` says that the frame is at least of the process itself,
  since replacement is local and the TLB is emptied between processes.
* **A COPY to a page that has left** (`CPU/src/CPU.c:79, 157`). The translation of
  the origin may replace the page of the destination, whose frame the CPU has
  kept. The comment at line 153 names the parameters destination and origin;
  the code copies from the first to the second.
* **Interrupts** (`CPU/src/CPU.c:198`). The flag is lowered after the process was
  sent: an interrupt for the process that the Kernel dispatches next may be lost,
  and one that arrives while a process does IO or EXIT sends the next one back.
  `InterrupcionUnica` bounds what may come of it.
* **A TLB of no entries** (`CPU/src/tlb.c:13`). `iniciar_TLB` then leaves the
  pointer unset and the first search uses it.
* **Swap files stay** (`MemoriaSwap/src/Swap.c:193`). `delete_in_swap`, called when
  a process exits, removes a file of the current directory and not of `pathSwap`.

## 8. What is proved

`tlapm` checks these theorems for every value of the constants that their named
assumptions allow. Kernel: every set of processes, degree, algorithm, `MaxIO` and
set of burst lengths, under `ProcesosFinitos`, `NadieNoEsProceso` (the absence of
a process is not a process), `MaxIONatural`, `GradoPositivo` and
`RafagasEnteras`. Memory: every number and size of processes, tables and frames,
both algorithms, under the assumptions of `Memoria` (sizes are positive,
`ALGORITMO` is one of the two, finitely many processes). CPU: every set of pages
and frames, every number of interrupts, both algorithms, and every size of the
TLB but 0 (`TamaniosDeTLB`; in the composition `EntradasDeLaTLB`).

| Module | Theorem | Invariant it rests on |
|---|---|---|
| `KernelProofs` | `TiposCorrectos`: `Spec => []TypeOK` | `Tipos` |
| `KernelProofs` | `UnSoloProcesador`: `Spec => []ProcesadorExclusivo` | `Procesador` |
| `KernelProofs` | `MedicionDelProceso`: `Spec => []MedicionPropia` | `Procesador` |
| `KernelSemaforos` | `NingunPCBNulo`: `Spec => []SinPCBNulo` | `Procesador`, `Turnos` |
| `KernelLugares` | `UnProcesoUnLugar`: `Spec => []UnSoloLugar` | and `EnUnLugar` |
| `KernelLugares` | `EleccionVigente`: `Spec => []EleccionSRT` | and `EnUnLugar` |
| `KernelLugares` | `ExecEsElDeLaCpu`: `Spec => []ExecCoherente` | and `EnExec` |
| `KernelCiclo` | `ElKernelImplementaElCiclo`: `Spec => ImplementaCicloVida` | and `EnUnLugar` |
| `KernelCiclo` | `ElQueSaleSeLibera`: `Spec => []ExitLibera` | and `EnDespedida` |
| `KernelCiclo` | `SoloSeSuspende`: `Spec => []PedidosSinCpu` | and `EnPedidos` |
| `KernelCiclo` | `NingunCupoSePierde`: `Spec => []CuposNoSePierden` | and `EnCupos` |
| `MemoriaProofs` | `MarcosConDuenio`: `Spec => DuenioEstable` | `Duenios` |
| `MemoriaProofs` | `TiposDeLaMemoria`: `Spec => []TypeOK` | `Tipos` |
| `MemoriaProofs` | `ProcesosAislados`: without suspensions, `Spec => []Aislado` | `Tipos`, `Propiedad` |
| `MemoriaProofs` | `CupoRespetado`: without suspensions, `Spec => []CupoDeMarcos` | and `Cupo` |
| `MemoriaFilas` | `TablasConcuerdan`: `Spec => [](UnaTabla => FrameDeLaFila)` | `Tipos`, `FilasDeUno` |
| `MemoriaFilas` | `SeLeeLoEscrito`: under CLOCK, without COPY and with `UltimaFilaSobra`, `Spec => [](UnaTabla => LeeLoEscrito)` | and `LoEscrito` |
| `MemoriaFilas` | `UnaMemoriaDeValores`: under the same, with one process, `Spec => ImplementaMemoria` | and `SegunLoEscrito` |
| `CpuProofs` | `TiposDeLaCpu`: `CpuSpec => []CpuTypeOK` | `CpuInv` |
| `CpuProofs` | `TLBSinRepetidos`: `CpuSpec => []EntradasUnicas` | `CpuInv` |
| `CpuProofs` | `TLBTieneLaUltima`: `CpuSpec => []UltimaTraduccion` | `CpuInv` |
| `CpuProofs` | `UnaPorInterrupcion`: `CpuSpec => []InterrupcionUnica` | `CpuInv` |
| `CpuProofs` | `TLBEsUnaCache`: `CpuSpec => ImplementaCache` | `CpuInv` |
| `CpuMemoriaProofs` | `SistemaImplementaCpu`: with `MaxTardes = 0`, `Sistema => ImplementaCpu` | `Tipos`, `Enlace`, `Vigente`, `Atendido` |
| `CpuMemoriaProofs` | `DueniosConLaCpu`: `Sistema => DuenioEstable` | and `Duenios` |
| `CpuMemoriaProofs` | `TraduccionesDelProceso`: without suspensions, `Sistema => []TraduccionesPropias` | `Sano` |
| `CpuMemoriaProofs` | `AccesosAislados`: without suspensions, `Sistema => []Aislado` | `Sano` |
| `CpuMemoriaProofs` | `CupoConLaCpu`: without suspensions, `Sistema => []CupoDeMarcos` | `Sano` and `Cupo` |
| `CpuMemoriaProofs` | `TablasConLaCpu`: `Sistema => [](UnaTabla => FrameDeLaFila)` | `Tipos`, `Enlace`, `Vigente`, `FilasDeUno` |
| `CpuMemoriaProofs` | `LaNuevaEsCoherente`: `Sistema => []NuevaCoherente` | and `MasNueva` |

Suspensions: `TiposDeLaMemoria`, `MarcosConDuenio` and `DueniosConLaCpu` hold with
any number of SUSPENDERs, on time and late. `TablasConcuerdan`, `SeLeeLoEscrito`,
`UnaMemoriaDeValores`, `TablasConLaCpu` and `LaNuevaEsCoherente` hold with any number
of them too, and what they state is stated until the first late one (`~Tarde`,
`fallida`); `SistemaImplementaCpu` supposes that none comes late. Section 7 has what
happens otherwise. The five theorems marked "without suspensions" need that.

* **Types.** `TypeOK` is not inductive: a thread's `pcb` may be `Nadie`, and a
  thread that adds `Nadie` to a list would break it. `Tipos` adds
  `TieneProceso`: at each step where a thread uses its `pcb`, it holds a
  process.
* **One processor.** The sum of `ProcesadorExclusivo` moves by one from term to
  term as the process goes from the short-term scheduler to the CPU and back.
  The hand-over to `hiloSuspendedor` adds one to the number of such threads
  only if the thread is a new one, so `Procesador` also carries `Frescos`: the
  I/O that a process on its way from the CPU has just executed has no
  `hiloSuspendedor` yet. `Medida` says that all that is on its way through the
  CPU is the process last timed; it needs the sum, since with two processes on
  their way the second dispatch would overwrite `timeValBefore`.
* **No null PCB.** `Turnos` counts, for each semaphore, the queue it stands for:
  the length of the queue is the semaphore plus the threads that have added and
  not yet posted, plus the thread that was let through and has not yet removed
  (`Cuentas`). LISTA_NEW and LISTA_READY_SUSPENDED share one semaphore, and the
  sum says nothing of either alone; `Elegida` adds that the list that
  `planifLargoPlazo` chose on its unlocked read still has an element, because
  no other thread takes from it.
* **One process, one place.** `Lugares` counts positions (two entries of one list are
  two places), which no step can be checked against in one go. `EnUnLugar` says it
  by classes: no process is in two of them (`UnaClase`), nor twice in one
  (`SinRepetidos`). Then every step either leaves all processes in their classes
  (`Quedan`) or takes one of them to another (`Muda`). `EleccionSRT` is part of it,
  since what `algoritmo_SRT` chose is removed from LISTA_READY by its index.
  The classes of the CPU need `Procesador`: a second process on its way there would
  overwrite the first one's place.
* **LISTA_EXEC** is written twice by other threads than those that carry the
  process: `EnExec` follows from the class of the process and from where the
  thread that carries it stands.
* **The life cycle.** A process's state is a function of its class, except for the
  thread of long-term planning and the receiver, where it depends on `pc` too. So
  `Quedan` is a stutter of `CicloVida` and `Muda(p, k)` is an arrow from the state
  of one class to that of the other; an arrow to EXEC needs that nobody is there,
  which `Procesador` says while `planifCortoPlazo` chooses.
* **Exits.** `Despide`: once the receiver has sent the exit of a process, the
  memory holds no request to load it that is not followed by one to take it out
  (`Libera`). The thread that may still ask something of an exited process is
  `hiloSuspendedor`, and it only asks for a suspension.
* **What the memory is asked.** A PASAR_A_READY is sent from the variable of
  `planifLargoPlazo`, where the process stays until the answer (`Aguarda`), and
  there is one at a time (`UnaCarga`). A PASAR_A_EXIT is only for a process that
  the receiver has in hand or has put in EXIT (`SalidosDespedidos`). Since a process is in one
  class, neither is about one in a class of the CPU. Nothing of the kind holds for
  `hiloSuspendedor`. This is what `Memoria` and `CpuMemoria` take from the Kernel.
* **Places of the degree.** The sum of `Cupos` moves a place between the semaphore,
  the threads that have taken or are about to give one, and the processes that hold
  one, which their class decides (`Retiene`). A late suspension gives a place back
  that its process still holds, which only increases the sum. The step that could
  lose one is the end of an I/O of a process not found in LISTA_BLOCKED;
  `FueraDeBlocked` says that nobody puts it there meanwhile.
* **Frames keep their owner.** The only step that could take a frame with a page
  from another process is `ActualizaFrames`, which writes the owner of a frame
  chosen several steps before. `Elegido` says that meanwhile the frame is of
  the process that asked for it or has no page: `suspender` may free it, since
  it looks frames up by page number, and `pasarAReady` may then reserve it for
  another process, but no page is loaded in it, because only `conexionCPU`
  loads pages.

* **Types of the memory.** Rows are found by number and searches may find
  nothing, so that a row or a frame exists at all is a fact about what the
  thread has done before: `Tipos` adds what each thread holds at each step
  (`TiposCpu`, `TiposKernel`), for example that the frame that `conexionCPU` chose is
  one until the page is loaded in it. Of the frame of an answer it says only that it
  is one or -1.
* **Isolation without suspensions.** Rows of a loaded process point at its own
  frames (`Propiedad`), because the row that gets a frame is written after the
  owner of the frame was chosen by process, and the row that loses one, though
  it may be another process's, is not given a frame. A process that exits keeps
  rows to frames already freed until it is through, so the invariant follows
  `carga` and where `conexionKernel` stands. With suspensions it is false.
  `Cupo` adds, for the quota, that a process that gets its frames has none.
* **Rows and frames of one process.** `UnaTabla` (one process has tables, while
  others may be waiting for theirs) is a hypothesis on the state and not on the
  constants, so the theorems also speak of a system of many processes until a
  second one is created. While it holds, the searches by number find the right
  row: the tables of the process are in `orden` from 0 on (`Creadas`), which a
  search for `Tabla(n)` needs, and `conexionCPU` serves the process only while
  `conexionKernel` does not (`Ocupa`), which a late SUSPENDER ends: `FilasDeUno` says
  nothing after one. `FilasBien` says that a row has a frame
  exactly when its page is present, except between `SuspendePagina` and
  `CopiaPagina`. `Ligadas` is `FrameDeLaFila` with what makes it survive a
  replacement: `vieja` is the row of the page in `frame`, or the last of all,
  and between `ActualizaTablas` and `ActualizaFrames` no other row has `frame`.
* **Contents.** `DeVuelta` is the converse: a frame with a page is that of its
  row, or on the list of those that `suspender` frees. `Pedida`: the page asked
  for is absent until it is loaded, so that loading does not overwrite a newer
  copy. Then `Contenidos` says that each page holds what was last written, in
  its frame, in the file, or in the frame that is being copied (`Contenido`).
  The three hypotheses of `SeLeeLoEscrito` are needed: with CLOCK-M, with COPY,
  or with a process that fills its last table, TLC finds a write that is lost
  in the instance of `memoria_uno` with that one change, and so it does with a late
  SUSPENDER and without `~Tarde` (section 7 says how). They are not bounds:
  the theorem is about every size of pages, tables and frames. For
  `UnaMemoriaDeValores`, `SegunLoEscrito` says that the mapped value of each
  page is the last one written, and each step is then one of `MemoriaAbstracta`
  or changes nothing that it sees.
* **The TLB.** `CpuInv` is the invariants of the run with `Pendiente` (while the
  memory is asked for a page, the TLB has no entry for it: the search that found
  nothing and the addition are two calls, and nothing comes between) and
  `Contadas` (a flag that is up, and is not about to be lowered, is of an
  interrupt that has sent no one back). For `TLBEsUnaCache` each change of the list is a change of the set
  and of the order: the entry that `reemplazo_fifo` removes at `size - 1` is the
  oldest because the list never grows beyond `size`.
* **The CPU over the memory.** `Enlace` ties the two threads: the memory serves a
  request only while the dispatch thread waits for its answer, and it is a
  request of the process that runs. Each step of the composition is then a step
  of `Memoria`, the answer to a translation or an access with frames kept by the
  CPU. For `SistemaImplementaCpu` the answer must be a frame: `Atendido` says that,
  while no SUSPENDER comes late, `conexionKernel` serves no process that is loaded, so
  that it does not touch the row between the look at it and the read of its frame.
  `Traducidas` says that while a process runs it is loaded and every frame in
  the TLB and in `marcos` is one of its own, and that the TLB is empty when the
  next one comes. It holds because the only processes whose frames are freed are
  those that exit, and the Kernel asks for no exit of the one that runs
  (`SoloSeSuspende`).
* **The newest translation.** `Vigente` ties the thread that answers to the
  translation that waits: the page is the one the CPU asked for, so that the
  entry made of the answer is of that page. `MasNueva` says that the frame which
  is about to be answered has it, which `Ligadas` gives when the page was present
  and `ActualizaFrames` when it was not, and that nothing changes the table of
  frames from then to the next translation: `conexionKernel` does not serve the
  process, which the CPU has, until a SUSPENDER comes late. A hit may not make
  another entry the newest, hence FIFO or one entry.

Model-checked only, on the instances of section 6: `Progreso`, `Responde` and
`Desalojo`, which are liveness properties under fairness and out of the reach of
TLAPS. `Aislado`, `CupoDeMarcos` and `TraduccionesPropias` are proved without
suspensions, which is how they are checked. The runs that expect a violation
have nothing to prove.

## 9. What is not modelled

* **All programs in one specification.** `Kernel` is not composed with `CpuMemoria`:
  its states times theirs are out of TLC's reach. What `CpuMemoria` takes from it is
  `PedidosSinCpu`, proved of `Kernel`. In the rest it allows more than the Kernel
  does: a late SUSPENDER may come at any moment and for any process but a new one,
  and any number of processes may be loaded.
* **Admission** (`Kernel/src/Kernel.c:15-45, 68-109`) before a process is added to
  NEW. `consolaMultihilo` gives each thread `crearPCB` the address of a variable
  of its own stack frame, which the next connection overwrites, and appends to
  `LISTA_SOCKETS` without a lock. With one console at a time there is nothing to
  interleave; with two, the threads parse and free the same string and the
  behaviour is undefined from the first read on. The Kernel model starts where a
  process is added to NEW, with ids that differ.
* **Configuration and shutdown.** Reading configuration files and opening sockets
  is input and output. `cerrarKernel`, `cerrarCPU` and `cerrar_TLB` are reached by
  no running system.
* **psicoLibrary.** The parser of programs, the byte layout of messages and logs.
  Messages are reliable ordered channels.
* **Bytes of a page**: digits of values, offsets and `memcpy`. A page is one value.
* **Swap**: `copy` and `write_pid_completo_lista` are called by nothing, and
  `delete_in_swap` has no effect on what a later process finds, since ids are not
  used twice.
* Addresses out of range, which the memory answers with an error that the CPU
  does not look at, and programs without EXIT.
