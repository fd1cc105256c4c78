------------------------- MODULE MemoriaPropiedades -------------------------
(***************************************************************************)
(* What must hold of MemoriaSwap.                                          *)
(***************************************************************************)
EXTENDS Memoria

PcCpu == {"libre", "traduce", "mira", "usa", "lee", "busca", "reloj", "gira", "vieja", "carga",
          "tablas", "marco", "accede", "leida", "escrita", "copiada"}
\* conexionCPU loads a page in the frame it chose.
Cargando == {"vieja", "carga", "tablas", "marco"}
PcKer == {"libre", "crea", "asigna", "suspende", "paginas", "copia", "libera", "exit",
          "salida"}

Bits == {-1, 0, 1}

\* Types of the tables, the frames, the contents and both threads.  The frame
\* answered may be -1.
TypeOK ==
    /\ orden \in Seq(Pid \X Nat)
    /\ \A p \in Pid : fila[p] \in
        [Filas(p) -> [nroFrame : Frames \cup {SinFrame}, presencia : Bits,
                      uso : Bits, modificado : Bits]]
    /\ marco \in [Frames -> [idProceso : Pid \cup {Nadie}, nroPagina : Nat \cup {SinPagina}]]
    /\ ram \in [Frames -> Valores]
    /\ \A p \in Pid : swap[p] \in [PagAUsar(p) -> Valores]
    /\ posicionClock \in Frames
    /\ mutexLista2N \in {"libre", "kernel"} /\ mutexListaFrames \in {"libre", "cpu"}
    /\ pcCpu \in PcCpu /\ pcKer \in PcKer
    /\ pid \in Pid \cup {Nadie} /\ pidKer \in Pid \cup {Nadie}
    /\ pcCpu # "libre" => pid \in Pid /\ pagina \in PagAUsar(pid)
    /\ frame \in Frames \cup {SinFrame} /\ (pcCpu \in Cargando => frame \in Frames)
    /\ suspensiones \in Nat /\ tardes \in Nat /\ caida \in BOOLEAN
    /\ vuelta \in 0..5 /\ giro \in 0..CANT_FRAMES

-----------------------------------------------------------------------------
(* Contents.                                                               *)

\* A program reads what it last wrote in a page, wherever the page has been
\* since: other frames, the swap file, a suspension.  A late SUSPENDER may
\* free the frame before the access and lose the write (Kernel.c:353-362).
LeeLoEscrito ==
    pcCpu = "accede" /\ ~Tarde => ram[frame] = ultimo[pid][pagina]

\* What a page holds is in its frame, in the frame that suspender is about to
\* copy, or in the file.  Carga has written the old page to the file and its
\* row is still there.
Presente(p, n) == fila[p][n].presencia = 1
Copiando(n) == pcKer = "copia" /\ n = paginaKer
Contenido(p, n) ==
    IF Presente(p, n) /\ ~(pcCpu = "tablas" /\ n = vieja[2])
    THEN ram[fila[p][n].nroFrame]
    ELSE IF Copiando(n) THEN ram[Last(aLiberar)] ELSE swap[p][n]

PorPagina ==
    [p \in Pid |-> [n \in PagAUsar(p) |->
        IF carga[p] = "fin" THEN Blanco ELSE Contenido(p, n)]]
Servido == IF pcCpu = "libre" THEN {} ELSE {<<pid, pagina>>}
Contestado == IF pcCpu \in {"leida", "escrita", "copiada"} THEN {ram[frame]} ELSE {}

Programas == INSTANCE MemoriaAbstracta WITH
    valor <- PorPagina, pedida <- Servido, dato <- Contestado,
    salidos <- {p \in Pid : carga[p] = "fin"}, fallida <- Tarde

\* For a program, frames, tables and swap are a value for each of its pages:
\* no load, replacement or suspension changes what a page holds, at any
\* moment, also of pages that nobody asks for (Carga, suspender).  So it is
\* until a SUSPENDER comes late.
ImplementaMemoria == Programas!MemoriaSpec

\* A page whose modified bit is off is as its copy in swap, so that
\* reemplazarEnRam need not write it back (estructuras.h:24).
BitModificadoExacto ==
    \A p \in Pid : carga[p] = "listo" /\ pid # p =>
        \A n \in PagAUsar(p) :
            EnRam(p, n) /\ fila[p][n].modificado = 0 =>
                ram[fila[p][n].nroFrame] = swap[p][n]

-----------------------------------------------------------------------------
(* Tables and frames.                                                      *)

\* Page tables and table of frames agree: the frame of a page that is present
\* has that page of that process.  Between ActualizaTablas and
\* ActualizaFrames the page being loaded is the exception.  A late SUSPENDER
\* may free the frame of a page that is being loaded.
FrameDeLaFila ==
    ~Tarde => \A p \in Pid : \A n \in Filas(p) :
        /\ fila[p][n].presencia = 1
        /\ ~(pcCpu = "marco" /\ pid = p /\ pagina = n)
        => marco[fila[p][n].nroFrame] = [idProceso |-> p, nroPagina |-> n]

\* One process has tables.  Once two have, rows keep frames that hold other
\* pages (utils.c:33).
UnaTabla == \A i, j \in DOMAIN orden : orden[i][1] = orden[j][1]

\* The replacement is local and processes do not see each other's pages: the
\* rows of a loaded process point at frames that are its own, although the
\* rows are searched without looking at the process.
Aislado ==
    /\ \A p \in Pid : carga[p] = "listo" =>
        \A n \in Filas(p) : fila[p][n].nroFrame # SinFrame =>
            marco[fila[p][n].nroFrame].idProceso = p
    /\ pcCpu \in Cargando \cup {"accede"} => marco[frame].idProceso = pid

DeProceso(p) == {f \in Frames : marco[f].idProceso = p}

\* No process takes more frames than MARCOS_POR_PROCESO.
CupoDeMarcos == \A p \in Pid : Cardinality(DeProceso(p)) <= MARCOS_POR_PROCESO

\* A frame that has a page changes owner only after it has been freed,
\* although the tables of the processes get mixed.
NoCambiaDeDuenio ==
    \A f \in Frames :
        marco[f].nroPagina # SinPagina /\ marco'[f].idProceso # marco[f].idProceso
            => marco'[f] = Vacio
DuenioEstable == [][NoCambiaDeDuenio]_vars

-----------------------------------------------------------------------------
\* A translation ends: the search for a victim finds one and the CPU gets its
\* frame (algoritmosReemplazo.c:14).  A late SUSPENDER may leave the process
\* that runs without frames, and the search without end.
Responde == pcCpu = "traduce" ~> (pcCpu = "accede" \/ caida \/ Tarde)

=============================================================================
