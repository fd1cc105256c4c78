---------------------------- MODULE MemoriaProofs ----------------------------
(***************************************************************************)
(* What holds of MemoriaSwap for every set of processes, every size and    *)
(* every configuration: its types, whose each frame is, and the isolation  *)
(* of processes while none is suspended.                                   *)
(***************************************************************************)
EXTENDS MemoriaPropiedades, FiniteSetTheorems, TLAPS

TipoFila == [nroFrame : Frames \cup {SinFrame}, presencia : Bits, uso : Bits,
             modificado : Bits]

EsTabla(t) ==
    /\ t = [p \in Pid |-> t[p]]
    /\ \A p \in Pid : t[p] \in [Filas(p) -> TipoFila]

TiposMarco ==
    /\ marco \in [Frames -> [idProceso : Pid \cup {Nadie},
                             nroPagina : Nat \cup {SinPagina}]]
    /\ ram \in [Frames -> Valores]

EsArchivo(s) ==
    /\ s = [p \in Pid |-> s[p]]
    /\ \A p \in Pid : s[p] \in [PagAUsar(p) -> Valores]

TiposCpu ==
    /\ pcCpu \in PcCpu /\ pid \in Pid \cup {Nadie}
    /\ pcCpu # "libre" => pid \in Pid /\ pagina \in PagAUsar(pid)
    /\ frame \in Frames \cup {SinFrame} /\ (pcCpu \in Cargando => frame \in Frames)
    /\ posicionClock \in Frames
    /\ vuelta \in 0..5 /\ giro \in 0..CANT_FRAMES
    /\ pcCpu = "gira" /\ ALGORITMO = "CLOCK-M" => vuelta <= 4

TiposKernel ==
    /\ pcKer \in PcKer /\ pidKer \in Pid \cup {Nadie}
    /\ pcKer # "libre" => pidKer \in Pid
    /\ orden \in Seq(Pid \X Nat)
    /\ aLiberar \in Seq(Frames) /\ (pcKer = "copia" => aLiberar # <<>>)
    /\ mutexLista2N \in {"libre", "kernel"} /\ mutexListaFrames \in {"libre", "cpu"}

TiposPedidos == suspensiones \in Nat /\ tardes \in Nat /\ caida \in BOOLEAN

Tipos ==
    /\ EsTabla(fila) /\ TiposMarco /\ EsArchivo(swap) /\ TiposCpu /\ TiposKernel
    /\ TiposPedidos

LEMMA TiposDicen == Tipos => TypeOK
BY DEF Tipos, TypeOK, EsTabla, TipoFila, TiposMarco, EsArchivo, TiposCpu,
       TiposKernel, TiposPedidos

-----------------------------------------------------------------------------
(* Tables.                                                                 *)

\* A step that gives no row a frame: it keeps the one it has, or loses it.
SinFramesNuevos(t, u) ==
    /\ EsTabla(u)
    /\ \A p \in Pid : \A n \in Filas(p) :
        u[p][n].nroFrame \in {t[p][n].nroFrame, SinFrame}

DeLaFila(v, r) == v \in TipoFila /\ v.nroFrame \in {r.nroFrame, SinFrame}

LEMMA TablaEscrita ==
    ASSUME NEW t, EsTabla(t), NEW p, NEW n, NEW v,
           p \in Pid /\ n \in Filas(p) => v \in TipoFila
    PROVE  EsTabla([t EXCEPT ![p][n] = v])
BY DEF EsTabla

LEMMA Cambio ==
    ASSUME NEW t, EsTabla(t), NEW p, NEW n, NEW v,
           p \in Pid /\ n \in Filas(p) => DeLaFila(v, t[p][n])
    PROVE  SinFramesNuevos(t, [t EXCEPT ![p][n] = v])
<1> DEFINE u == [t EXCEPT ![p][n] = v]
<1>1. EsTabla(u)
      BY TablaEscrita DEF DeLaFila
<1>2. ASSUME NEW q \in Pid, NEW m \in Filas(q)
      PROVE  u[q][m].nroFrame \in {t[q][m].nroFrame, SinFrame}
  <2>1. u[q][m] = IF q = p /\ m = n THEN v ELSE t[q][m]
        BY DEF EsTabla
  <2> HIDE DEF u
  <2>2. CASE q = p /\ m = n
        BY <2>1, <2>2 DEF DeLaFila
  <2>3. CASE ~(q = p /\ m = n)
        BY <2>1, <2>3
  <2>4. QED
        BY <2>2, <2>3
<1> HIDE DEF u
<1>3. SinFramesNuevos(t, u)
      BY <1>1, <1>2 DEF SinFramesNuevos
<1>4. QED
      BY <1>3 DEF u

LEMMA MismaTabla ==
    ASSUME NEW t, EsTabla(t)
    PROVE  SinFramesNuevos(t, t)
BY DEF SinFramesNuevos

LEMMA DosCambios ==
    ASSUME NEW t, NEW u, NEW w, SinFramesNuevos(t, u), SinFramesNuevos(u, w)
    PROVE  SinFramesNuevos(t, w)
BY DEF SinFramesNuevos

LEMMA FilaTipada ==
    ASSUME NEW t, EsTabla(t), NEW p \in Pid, NEW n \in Filas(p)
    PROVE  t[p][n] \in TipoFila
BY DEF EsTabla

\* What the steps write in a row.
LEMMA FilaEscrita ==
    ASSUME NEW r \in TipoFila, NEW c
    PROVE  /\ DeLaFila([r EXCEPT !.uso = 0], r)
           /\ DeLaFila(Usada(r), r)
           /\ DeLaFila(Marcada(r, c), r)
           /\ DeLaFila([r EXCEPT !.modificado = 0], r)
           /\ DeLaFila([r EXCEPT !.modificado = 1], r)
           /\ DeLaFila([r EXCEPT !.presencia = 0, !.nroFrame = SinFrame], r)
           /\ DeLaFila([r EXCEPT !.nroFrame = SinFrame], r)
           /\ DeLaFila(Bajada(r), r)
           /\ DeLaFila([Bajada(r) EXCEPT !.nroFrame = SinFrame], r)
BY DEF DeLaFila, TipoFila, Bits, Bajada, Usada, Marcada

LEMMA TablaNueva == ASSUME Init PROVE EsTabla(fila)
<1>1. fila = [p \in Pid |-> [n \in Filas(p) |-> FilaNueva(p, n)]]
      BY DEF Init
<1>2. \A p \in Pid : \A n \in Filas(p) : FilaNueva(p, n) \in TipoFila
      BY DEF FilaNueva, TipoFila, Bits
<1>3. QED
      BY <1>1, <1>2 DEF EsTabla

LEMMA UsaTabla ==
    ASSUME EsTabla(fila), UsaPagina
    PROVE  SinFramesNuevos(fila, fila')
<1> DEFINE v == Usada(fila[pid][pagina])
<1>1. fila' = [fila EXCEPT ![pid][pagina] = v]
      BY DEF UsaPagina
<1>2. pid \in Pid /\ pagina \in Filas(pid) => DeLaFila(v, fila[pid][pagina])
      BY FilaTipada, FilaEscrita
<1> HIDE DEF v
<1>3. QED
      BY <1>1, <1>2, Cambio

LEMMA SinUsoTabla ==
    ASSUME EsTabla(fila), NEW n, SinUso(n)
    PROVE  SinFramesNuevos(fila, fila')
<1> DEFINE p == FilaDeNumero(n)[1]
           v == [fila[p][n] EXCEPT !.uso = 0]
<1>1. fila' = fila \/ fila' = [fila EXCEPT ![p][n] = v]
      BY DEF SinUso
<1>2. p \in Pid /\ n \in Filas(p) => DeLaFila(v, fila[p][n])
      BY FilaTipada, FilaEscrita
<1> HIDE DEF v, p
<1>3. SinFramesNuevos(fila, [fila EXCEPT ![p][n] = v])
      BY <1>2, Cambio
<1>4. QED
      BY <1>1, <1>3, MismaTabla

\* Only the row of the page that is loaded gets the frame.
LEMMA ActualizaTabla ==
    ASSUME EsTabla(fila), frame \in Frames, ActualizaTablas
    PROVE  EsTabla(Nueva) /\ SinFramesNuevos(Nueva, fila')
<1>1. EsTabla(Nueva)
  <2>1. [nroFrame |-> frame, presencia |-> 1, uso |-> 1, modificado |-> 0] \in TipoFila
        BY DEF TipoFila, Bits
  <2>2. QED
        BY <2>1, TablaEscrita DEF Nueva
<1>2. \A t, n : EsTabla(t) => SinFramesNuevos(t, SinPresencia(t, n))
  <2> SUFFICES ASSUME NEW t, NEW n, EsTabla(t) PROVE SinFramesNuevos(t, SinPresencia(t, n))
        OBVIOUS
  <2> DEFINE p == FilaDeNumero(n)[1]
             v == [t[p][n] EXCEPT !.presencia = 0, !.nroFrame = SinFrame]
  <2>1. SinPresencia(t, n) = [t EXCEPT ![p][n] = v]
        BY DEF SinPresencia
  <2>2. p \in Pid /\ n \in Filas(p) => DeLaFila(v, t[p][n])
        BY FilaTipada, FilaEscrita
  <2> HIDE DEF v, p
  <2>3. SinFramesNuevos(t, [t EXCEPT ![p][n] = v])
        BY <2>2, Cambio
  <2>4. QED
        BY <2>1, <2>3
<1>3. \A t, r : EsTabla(t) => SinFramesNuevos(t, SinModificar(t, r))
  <2> SUFFICES ASSUME NEW t, NEW r, EsTabla(t) PROVE SinFramesNuevos(t, SinModificar(t, r))
        OBVIOUS
  <2> DEFINE v == [t[r[1]][r[2]] EXCEPT !.modificado = 0]
  <2>1. SinModificar(t, r) = t \/ SinModificar(t, r) = [t EXCEPT ![r[1]][r[2]] = v]
        BY DEF SinModificar
  <2>2. r[1] \in Pid /\ r[2] \in Filas(r[1]) => DeLaFila(v, t[r[1]][r[2]])
        BY FilaTipada, FilaEscrita
  <2> HIDE DEF v
  <2>3. SinFramesNuevos(t, [t EXCEPT ![r[1]][r[2]] = v])
        BY <2>2, Cambio
  <2>4. QED
        BY <2>1, <2>3, MismaTabla
<1>4. SinFramesNuevos(Nueva, SinModificar(SinPresencia(Nueva, vieja[2]), vieja))
  <2> DEFINE media == SinPresencia(Nueva, vieja[2])
  <2>1. SinFramesNuevos(Nueva, media)
        BY <1>1, <1>2
  <2>2. SinFramesNuevos(media, SinModificar(media, vieja))
        BY <1>3, <2>1 DEF SinFramesNuevos
  <2> HIDE DEF media
  <2>3. SinFramesNuevos(Nueva, SinModificar(media, vieja))
        BY <2>1, <2>2, DosCambios
  <2>4. QED
        BY <2>3 DEF media
<1>5. fila' = SinModificar(SinPresencia(Nueva, vieja[2]), vieja)
      BY DEF ActualizaTablas
<1>6. QED
      BY <1>1, <1>4, <1>5

LEMMA MarcaTabla ==
    ASSUME EsTabla(fila), Marca
    PROVE  SinFramesNuevos(fila, fila')
<1>1. \A f, m : SinFramesNuevos(fila, MarcaBits(f, m))
  <2> SUFFICES ASSUME NEW f, NEW m PROVE SinFramesNuevos(fila, MarcaBits(f, m))
        OBVIOUS
  <2> DEFINE r == FilaDeFrame(f)
             v == Marcada(fila[r[1]][r[2]], m)
  <2>1. MarcaBits(f, m) = fila \/ MarcaBits(f, m) = [fila EXCEPT ![r[1]][r[2]] = v]
        BY DEF MarcaBits
  <2>2. r[1] \in Pid /\ r[2] \in Filas(r[1]) => DeLaFila(v, fila[r[1]][r[2]])
        BY FilaTipada, FilaEscrita
  <2> HIDE DEF v, r
  <2>3. SinFramesNuevos(fila, [fila EXCEPT ![r[1]][r[2]] = v])
        BY <2>2, Cambio
  <2>4. QED
        BY <2>1, <2>3, MismaTabla
<1>2. \A f : SinFramesNuevos(fila, MarcaCopia(f))
  <2> SUFFICES ASSUME NEW f PROVE SinFramesNuevos(fila, MarcaCopia(f))
        OBVIOUS
  <2> DEFINE s == {<<orden[i][1], Min(ConFrame(i, f))>> : i \in Usuarias(f)}
             fila2(p, n) == IF <<p, n>> \in s THEN [fila[p][n] EXCEPT !.modificado = 1]
                            ELSE fila[p][n]
  <2>1. MarcaCopia(f) = [p \in Pid |-> [n \in Filas(p) |-> fila2(p, n)]]
        BY DEF MarcaCopia
  <2> HIDE DEF s
  <2>2. \A p \in Pid : \A n \in Filas(p) : DeLaFila(fila2(p, n), fila[p][n])
        BY FilaTipada, FilaEscrita DEF DeLaFila
  <2> HIDE DEF fila2
  <2>3. EsTabla(MarcaCopia(f))
        BY <2>1, <2>2 DEF EsTabla, DeLaFila
  <2>4. \A p \in Pid : \A n \in Filas(p) : MarcaCopia(f)[p][n] = fila2(p, n)
        BY <2>1
  <2>5. QED
        BY <2>2, <2>3, <2>4 DEF SinFramesNuevos, DeLaFila
<1>3. fila' = fila \/ (\E f, m : fila' = MarcaBits(f, m)) \/ \E f : fila' = MarcaCopia(f)
      BY DEF Marca
<1>4. QED
      BY <1>1, <1>2, <1>3, MismaTabla

LEMMA KernelTabla ==
    ASSUME EsTabla(fila),
           SuspendePagina \/ CopiaPagina \/ SuspendeSinFrame \/ LiberaPagina
    PROVE  SinFramesNuevos(fila, fila')
<1> DEFINE v1(n) == Bajada(fila[pidKer][n])
           v2(n) == [fila[pidKer][n] EXCEPT !.nroFrame = SinFrame]
           v3(n) == [Bajada(fila[pidKer][n]) EXCEPT !.nroFrame = SinFrame]
<1>1. PICK n :
        \/ fila' = [fila EXCEPT ![pidKer][n] = v1(n)]
        \/ fila' = [fila EXCEPT ![pidKer][n] = v2(n)]
        \/ fila' = [fila EXCEPT ![pidKer][n] = v3(n)]
      BY DEF SuspendePagina, CopiaPagina, SuspendeSinFrame, LiberaPagina
<1>2. pidKer \in Pid /\ n \in Filas(pidKer) =>
        /\ DeLaFila(v1(n), fila[pidKer][n]) /\ DeLaFila(v2(n), fila[pidKer][n])
        /\ DeLaFila(v3(n), fila[pidKer][n])
      BY FilaTipada, FilaEscrita
<1> HIDE DEF v1, v2, v3
<1>3. /\ SinFramesNuevos(fila, [fila EXCEPT ![pidKer][n] = v1(n)])
      /\ SinFramesNuevos(fila, [fila EXCEPT ![pidKer][n] = v2(n)])
      /\ SinFramesNuevos(fila, [fila EXCEPT ![pidKer][n] = v3(n)])
      BY <1>2, Cambio
<1>4. QED
      BY <1>1, <1>3

-----------------------------------------------------------------------------
(* Frames and files.                                                       *)

LEMMA ArchivoEscrito ==
    ASSUME EsArchivo(swap), NEW p \in Pid, NEW n, NEW v \in Valores
    PROVE  EsArchivo(write_frame(p, n, v))
BY DEF EsArchivo, write_frame

LEMMA CargaMemoria ==
    ASSUME TiposMarco, EsArchivo(swap), TiposCpu, Carga
    PROVE  TiposMarco' /\ EsArchivo(swap')
<1>1. pid \in Pid /\ pagina \in PagAUsar(pid) /\ frame \in Frames
      BY DEF TiposCpu, Carga, PasoCpu, Cargando
<1>2. swap[pid][pagina] \in Valores /\ ram[frame] \in Valores
      BY <1>1 DEF EsArchivo, TiposMarco
<1>3. /\ ram' = [ram EXCEPT ![frame] = swap[pid][pagina]] /\ marco' = marco
      /\ \/ swap' = swap
         \/ swap' = write_frame(pid, posicionSwap(vieja[1], vieja[2]), ram[frame])
      BY DEF Carga, read_in_swap
<1>4. TiposMarco'
      BY <1>2, <1>3 DEF TiposMarco
<1>5. \A n : EsArchivo(write_frame(pid, n, ram[frame]))
      BY <1>1, <1>2, ArchivoEscrito
<1>6. QED
      BY <1>3, <1>4, <1>5

LEMMA CopiaMemoria ==
    ASSUME TiposMarco, EsArchivo(swap), TiposKernel, CopiaPagina
    PROVE  TiposMarco' /\ EsArchivo(swap')
<1>1. pidKer \in Pid /\ Last(aLiberar) \in Frames
      BY DEF TiposKernel, CopiaPagina, PasoKer, Last
<1>2. ram[Last(aLiberar)] \in Valores
      BY <1>1 DEF TiposMarco
<1>3. /\ swap' = write_frame(pidKer, paginaKer, ram[Last(aLiberar)])
      /\ marco' = marco /\ ram' = ram
      BY DEF CopiaPagina
<1>4. QED
      BY <1>1, <1>2, <1>3, ArchivoEscrito DEF TiposMarco

LEMMA LiberaMemoria ==
    ASSUME TiposMarco, NEW f, liberarFrame_Tabla(f)
    PROVE  TiposMarco'
BY BlancoEsValor DEF TiposMarco, liberarFrame_Tabla, Vacio

LEMMA ArchivoInicial == ASSUME Init PROVE TiposMarco /\ EsArchivo(swap)
BY BlancoEsValor DEF Init, TiposMarco, EsArchivo, Vacio, write_pid_completo

\* A write at frame -1 leaves the frames as they are.
LEMMA EscribeMemoria ==
    ASSUME TiposMarco, TiposCpu,
           accesoMemoriaCopy \/ \E v \in Valores \ {Blanco} : accesoMemoriaWrite(v)
    PROVE  TiposMarco' /\ swap' = swap
<1>1. frame \in Frames => ram[frame] \in Valores
      BY DEF TiposMarco
<1>2. \E f : \E v \in Valores : EscribeRam(f, v)
  <2>1. CASE accesoMemoriaCopy
        BY <1>1, <2>1 DEF accesoMemoriaCopy
  <2>2. CASE \E v \in Valores \ {Blanco} : accesoMemoriaWrite(v)
        BY <2>2 DEF accesoMemoriaWrite
  <2>3. QED
        BY <2>1, <2>2
<1>3. marco' = marco /\ swap' = swap
      BY DEF accesoMemoriaCopy, accesoMemoriaWrite
<1>4. QED
      BY <1>2, <1>3 DEF TiposMarco, EscribeRam

LEMMA ActualizaMarco ==
    ASSUME TiposMarco, TiposCpu, ActualizaFrames
    PROVE  TiposMarco'
<1>1. pid \in Pid /\ pagina \in Nat
      BY TamaniosPositivos DEF TiposCpu, ActualizaFrames, PasoCpu, PagAUsar
<1>2. QED
      BY <1>1 DEF TiposMarco, ActualizaFrames

LEMMA AsignaMarco ==
    ASSUME TiposMarco, TiposKernel, AsignaFrames
    PROVE  TiposMarco'
<1>1. pidKer \in Pid
      BY DEF TiposKernel, AsignaFrames, PasoKer
<1>2. QED
      BY <1>1 DEF TiposMarco, AsignaFrames

-----------------------------------------------------------------------------
(* conexionCPU.                                                            *)

LEMMA FramesNaturales == Frames \subseteq Nat /\ 0 \in Frames /\ SinFrame \notin Frames
BY FramesPositivos DEF Frames, SinFrame

LEMMA AvanzaClock ==
    ASSUME TiposCpu, incrementarPosicionClock
    PROVE  posicionClock' \in Frames
BY FramesPositivos DEF TiposCpu, incrementarPosicionClock, Frames

LEMMA RelojCpu ==
    ASSUME TiposCpu,
           NoHayFrameLibre \/ TomaFrames \/ GiraVictima \/ GiraSigue \/ FinVuelta
    PROVE  TiposCpu'
<1>1. CASE NoHayFrameLibre
      BY <1>1, FramesNaturales DEF TiposCpu, NoHayFrameLibre, PasoCpu, PcCpu, Cargando
<1>2. CASE TomaFrames
      BY <1>2, FramesPositivos DEF TiposCpu, TomaFrames, PasoCpu, PcCpu, Cargando
<1>3. CASE GiraVictima
      BY <1>3, AvanzaClock DEF TiposCpu, GiraVictima, PasoCpu, PcCpu, Cargando
<1>4. CASE GiraSigue
  <2>1. giro' \in 0..CANT_FRAMES
        BY <1>4, FramesPositivos DEF GiraSigue, Gira, TiposCpu
  <2>2. QED
        BY <1>4, <2>1, AvanzaClock DEF TiposCpu, GiraSigue, PasoCpu, PcCpu, Cargando
<1>5. CASE FinVuelta
      BY <1>5 DEF TiposCpu, FinVuelta, Gira, PasoCpu, PcCpu, Cargando
<1>6. QED
      BY <1>1, <1>2, <1>3, <1>4, <1>5

\* The tables of a process have a row for each of its pages.
LEMMA PaginaConFila ==
    ASSUME NEW p \in Pid, NEW n \in PagAUsar(p)
    PROVE  n \in Filas(p)
<1> DEFINE k == Paginas[p]
           e == ENTRADAS_POR_TABLA
<1>1. k \in Nat /\ e \in Nat /\ e > 0
      BY TamaniosPositivos, EntradasPositivas
<1>2. ((k + e - 1) \div e) * e >= k /\ ((k + e - 1) \div e) \in Nat
      BY <1>1, SMTT(30)
<1>3. QED
      BY <1>1, <1>2 DEF PagAUsar, Filas, CantTablas

LEMMA FrameLeido ==
    ASSUME EsTabla(fila), TiposCpu, LeeFrame
    PROVE  frame' \in Frames \cup {SinFrame}
<1>1. pid \in Pid /\ pagina \in PagAUsar(pid)
      BY DEF TiposCpu, LeeFrame, PasoCpu
<1>2. pagina \in Filas(pid)
      BY <1>1, PaginaConFila
<1>3. fila[pid][pagina].nroFrame \in Frames \cup {SinFrame}
      BY <1>1, <1>2, FilaTipada DEF TipoFila
<1>4. QED
      BY <1>3 DEF LeeFrame

LEMMA RestoCpu ==
    ASSUME EsTabla(fila), TiposCpu,
           \/ BuscaPagina \/ TraduceEnRam \/ TraduceAusente \/ UsaPagina
           \/ LeeFrame \/ HayFrameLibre \/ BuscaVieja
           \/ Carga \/ ActualizaTablas \/ ActualizaFrames \/ Marca
           \/ accesoMemoriaRead \/ accesoMemoriaCopy
           \/ \E v \in Valores \ {Blanco} : accesoMemoriaWrite(v)
    PROVE  TiposCpu'
<1> USE DEF TiposCpu, PasoCpu, PcCpu, Cargando
<1>1. CASE LeeFrame
  <2>1. frame' \in Frames \cup {SinFrame}
        BY <1>1, FrameLeido
  <2>2. QED
        BY <1>1, <2>1 DEF LeeFrame
<1>2. CASE BuscaPagina \/ TraduceEnRam \/ TraduceAusente \/ UsaPagina
      BY <1>2 DEF BuscaPagina, Mira, TraduceEnRam, TraduceAusente, UsaPagina
<1>3. CASE HayFrameLibre
      BY <1>3 DEF HayFrameLibre
<1>4. CASE BuscaVieja \/ Carga
      BY <1>4 DEF BuscaVieja, Carga
<1>5. CASE ActualizaTablas \/ ActualizaFrames
      BY <1>5 DEF ActualizaTablas, ActualizaFrames
<1>6. CASE Marca
      BY <1>6 DEF Marca
<1>7. CASE \/ accesoMemoriaRead \/ accesoMemoriaCopy
           \/ \E v \in Valores \ {Blanco} : accesoMemoriaWrite(v)
      BY <1>7 DEF accesoMemoriaRead, accesoMemoriaCopy, accesoMemoriaWrite
<1>8. QED
      BY <1>1, <1>2, <1>3, <1>4, <1>5, <1>6, <1>7

LEMMA CpuDejaAlKernel ==
    ASSUME TiposKernel, conexionCPU
    PROVE  TiposKernel'
<1>1. UNCHANGED <<orden, kernel, mutexLista2N>>
      BY DEF conexionCPU, BuscaPagina, Mira, TraduceEnRam, TraduceAusente,
             UsaPagina, LeeFrame, HayFrameLibre, NoHayFrameLibre,
             TomaFrames, GiraVictima, GiraSigue, FinVuelta, BuscaVieja, Carga,
             ActualizaTablas, ActualizaFrames, Marca, accesoMemoriaRead,
             accesoMemoriaCopy, accesoMemoriaWrite, tablas, mutexes
<1>2. mutexListaFrames' \in {mutexListaFrames, "libre", "cpu"}
      BY DEF conexionCPU, BuscaPagina, Mira, TraduceEnRam, TraduceAusente,
             UsaPagina, LeeFrame, HayFrameLibre, NoHayFrameLibre,
             TomaFrames, GiraVictima, GiraSigue, FinVuelta, BuscaVieja, Carga,
             ActualizaTablas, ActualizaFrames, Marca, accesoMemoriaRead,
             accesoMemoriaCopy, accesoMemoriaWrite, mutexes
<1>3. QED
      BY <1>1, <1>2 DEF TiposKernel, kernel

LEMMA TiposConexionCPU ==
    ASSUME Tipos, conexionCPU
    PROVE  Tipos'
<1> USE DEF Tipos
<1>1. TiposKernel'
      BY CpuDejaAlKernel
<1>2. TiposCpu'
      BY RelojCpu, RestoCpu DEF conexionCPU
<1>3. EsTabla(fila')
  <2>1. CASE UsaPagina
        BY <2>1, UsaTabla DEF SinFramesNuevos
  <2>2. CASE GiraSigue
        BY <2>2, SinUsoTabla DEF GiraSigue, SinFramesNuevos
  <2>3. CASE ActualizaTablas
        BY <2>3, ActualizaTabla DEF TiposCpu, ActualizaTablas, PasoCpu, Cargando,
                                    SinFramesNuevos
  <2>4. CASE Marca
        BY <2>4, MarcaTabla DEF SinFramesNuevos
  <2>5. CASE ~(UsaPagina \/ GiraSigue \/ ActualizaTablas \/ Marca)
    <3>1. fila' = fila
          BY <2>5 DEF conexionCPU, BuscaPagina, Mira, TraduceEnRam, TraduceAusente,
             LeeFrame, HayFrameLibre, NoHayFrameLibre,
             TomaFrames, GiraVictima, FinVuelta, BuscaVieja, Carga, ActualizaFrames,
             accesoMemoriaRead, accesoMemoriaCopy, accesoMemoriaWrite, tablas
    <3>2. QED
          BY <3>1
  <2>6. QED
        BY <2>1, <2>2, <2>3, <2>4, <2>5
<1>4. TiposMarco' /\ EsArchivo(swap')
  <2>1. CASE Carga
        BY <2>1, CargaMemoria
  <2>2. CASE accesoMemoriaCopy \/ \E v \in Valores \ {Blanco} : accesoMemoriaWrite(v)
        BY <2>2, EscribeMemoria
  <2>3. CASE ActualizaFrames
        BY <2>3, ActualizaMarco DEF ActualizaFrames
  <2>4. CASE ~(Carga \/ accesoMemoriaCopy \/ ActualizaFrames
               \/ \E v \in Valores \ {Blanco} : accesoMemoriaWrite(v))
    <3>1. UNCHANGED <<marco, ram, swap>>
          BY <2>4 DEF conexionCPU, BuscaPagina, Mira, TraduceEnRam, TraduceAusente,
             UsaPagina, LeeFrame, HayFrameLibre,
             NoHayFrameLibre, TomaFrames, GiraVictima, GiraSigue, FinVuelta, BuscaVieja,
             ActualizaTablas, Marca, accesoMemoriaRead, memoria
    <3>2. QED
          BY <3>1 DEF TiposMarco
  <2>5. QED
        BY <2>1, <2>2, <2>3, <2>4
<1>5. TiposPedidos'
  <2>1. UNCHANGED pedidas /\ caida' \in BOOLEAN
        BY DEF conexionCPU, BuscaPagina, Mira, TraduceEnRam, TraduceAusente,
             UsaPagina, LeeFrame, HayFrameLibre, NoHayFrameLibre,
             TomaFrames, GiraVictima, GiraSigue, FinVuelta, BuscaVieja, Carga,
             ActualizaTablas, ActualizaFrames, Marca, accesoMemoriaRead,
             accesoMemoriaCopy, accesoMemoriaWrite, Toca, externo, TiposPedidos
  <2>2. QED
        BY <2>1 DEF TiposPedidos, pedidas
<1>6. QED
      BY <1>1, <1>2, <1>3, <1>4, <1>5

-----------------------------------------------------------------------------
(* conexionKernel.                                                         *)

LEMMA CreaOrden ==
    ASSUME TiposKernel, CreaTabla
    PROVE  TiposKernel'
<1> DEFINE k == Cardinality(TablasDe(pidKer))
<1>1. k \in Nat
  <2>1. Len(orden) \in Nat
        BY DEF TiposKernel
  <2>2. IsFiniteSet(DOMAIN orden)
        BY <2>1, FS_Interval DEF TiposKernel
  <2>3. TablasDe(pidKer) \subseteq DOMAIN orden
        BY DEF TablasDe
  <2>4. QED
        BY <2>2, <2>3, FS_Subset, FS_CardinalityType
<1> HIDE DEF k
<1>2. orden' = Append(orden, <<pidKer, k>>) /\ pcKer' \in {"crea", "asigna"}
      BY DEF CreaTabla, PasoKer, k
<1>3. pidKer \in Pid /\ UNCHANGED <<pidKer, aLiberar, mutexes>>
      BY DEF TiposKernel, CreaTabla, PasoKer
<1>4. QED
      BY <1>1, <1>2, <1>3 DEF TiposKernel, PcKer, mutexes

LEMMA PasosKernel ==
    ASSUME TiposKernel, conexionKernel
    PROVE  TiposKernel'
<1>1. CASE CreaTabla
      BY <1>1, CreaOrden
<1>2. CASE AsignaFrames \/ FinExit \/ Suspendido \/ FinSuspender
      BY <1>2 DEF TiposKernel, AsignaFrames, FinExit, Suspendido, FinSuspender,
                  PasoKer, PcKer, tablas, mutexes
<1>3. CASE Toma2N("suspende", "paginas") \/ Toma2N("exit", "salida")
      BY <1>3 DEF TiposKernel, Toma2N, PasoKer, PcKer, tablas
<1>4. CASE SuspendePagina
      BY <1>4 DEF TiposKernel, SuspendePagina, PasoKer, PcKer, mutexes
<1>5. CASE CopiaPagina \/ SuspendeSinFrame
      BY <1>5 DEF TiposKernel, CopiaPagina, SuspendeSinFrame, PasoKer, PcKer, mutexes
<1>6. CASE LiberaSuspendido \/ LiberaPagina
  <2>1. /\ pcKer' = pcKer /\ pcKer \in {"libera", "salida"}
        /\ UNCHANGED <<orden, pidKer, mutexLista2N, mutexListaFrames>>
        BY <1>6 DEF LiberaSuspendido, LiberaPagina, PasoKer, tablas, mutexes
  <2>2. aLiberar' = aLiberar \/ (aLiberar # <<>> /\ aLiberar' = Tail(aLiberar))
        BY <1>6 DEF LiberaSuspendido, LiberaPagina
  <2>3. aLiberar' \in Seq(Frames)
    <3>1. aLiberar \in Seq(Frames)
          BY DEF TiposKernel
    <3>2. QED
          BY <2>2, <3>1
  <2>4. QED
        BY <2>1, <2>3 DEF TiposKernel
<1>7. QED
      BY <1>1, <1>2, <1>3, <1>4, <1>5, <1>6 DEF conexionKernel, suspender, pasarAExit

LEMMA TiposConexionKernel ==
    ASSUME Tipos, conexionKernel
    PROVE  Tipos'
<1> USE DEF Tipos
<1>1. TiposKernel'
      BY PasosKernel
<1>2. TiposCpu'
  <2>1. UNCHANGED <<cpu, posicionClock>>
        BY DEF conexionKernel, CreaTabla, AsignaFrames, suspender, pasarAExit, Toma2N,
               SuspendePagina, CopiaPagina, SuspendeSinFrame, FinSuspender,
               LiberaSuspendido, Suspendido, LiberaPagina, FinExit
  <2>2. QED
        BY <2>1 DEF TiposCpu, cpu
<1>3. EsTabla(fila')
  <2>1. CASE SuspendePagina \/ CopiaPagina \/ SuspendeSinFrame \/ LiberaPagina
        BY <2>1, KernelTabla DEF SinFramesNuevos
  <2>2. CASE ~(SuspendePagina \/ CopiaPagina \/ SuspendeSinFrame \/ LiberaPagina)
    <3>1. fila' = fila
          BY <2>2 DEF conexionKernel, CreaTabla, AsignaFrames, suspender, pasarAExit,
                      Toma2N, FinSuspender, LiberaSuspendido, Suspendido, FinExit, tablas
    <3>2. QED
          BY <3>1
  <2>3. QED
        BY <2>1, <2>2
<1>4. TiposMarco' /\ EsArchivo(swap')
  <2>1. CASE CopiaPagina
        BY <2>1, CopiaMemoria
  <2>2. CASE AsignaFrames
        BY <2>2, AsignaMarco DEF AsignaFrames
  <2>3. CASE LiberaSuspendido \/ LiberaPagina
        BY <2>3, LiberaMemoria DEF LiberaSuspendido, LiberaPagina
  <2>4. CASE ~(CopiaPagina \/ AsignaFrames \/ LiberaSuspendido \/ LiberaPagina)
    <3>1. UNCHANGED memoria
          BY <2>4 DEF conexionKernel, CreaTabla, suspender, pasarAExit, Toma2N,
                      SuspendePagina, SuspendeSinFrame, FinSuspender, Suspendido, FinExit
    <3>2. QED
          BY <3>1 DEF TiposMarco, memoria
  <2>5. QED
        BY <2>1, <2>2, <2>3, <2>4
<1>5. TiposPedidos'
  <2>1. UNCHANGED <<suspensiones, tardes, caida>>
        BY DEF conexionKernel, CreaTabla, AsignaFrames, suspender, pasarAExit, Toma2N,
               SuspendePagina, CopiaPagina, SuspendeSinFrame, FinSuspender,
               LiberaSuspendido, Suspendido, LiberaPagina, FinExit, externo, pedidas
  <2>2. QED
        BY <2>1 DEF TiposPedidos
<1>6. QED
      BY <1>1, <1>2, <1>3, <1>4, <1>5

-----------------------------------------------------------------------------
(* What the Kernel and the CPU ask.                                        *)

PedidoKernel(p) ==
    PidePasarAReady(p) \/ PideSuspender(p) \/ PideSuspenderTarde(p) \/ PidePasarAExit(p)

LEMMA TiposPedidoKernel ==
    ASSUME Tipos, NEW p \in Pid, PedidoKernel(p)
    PROVE  Tipos'
<1>1. /\ pcKer' \in PcKer /\ pidKer' = p /\ pcKer' # "copia" /\ aLiberar' = <<>>
      /\ UNCHANGED <<tablas, memoria, posicionClock, mutexes, cpu>>
      BY DEF PedidoKernel, PidePasarAReady, PideSuspender, PideSuspenderTarde,
             PidePasarAExit, Pide, PasoKer, PcKer
<1>2. TiposPedidos'
      BY DEF PedidoKernel, PidePasarAReady, PideSuspender, PideSuspenderTarde,
             PidePasarAExit, Pide, Cuenta, pedidas, Tipos, TiposPedidos
<1>3. QED
      BY <1>1, <1>2 DEF Tipos, TiposMarco, TiposCpu, TiposKernel, tablas, memoria, mutexes, cpu

LEMMA TiposPedidoCPU ==
    ASSUME Tipos, NEW n,
           \/ \E p \in Pid : n \in PagAUsar(p) /\ CpuPide(p, n)
           \/ pid \in Pid /\ n \in PagAUsar(pid) /\ CpuPideOrigen(n)
    PROVE  Tipos'
<1>1. /\ UNCHANGED <<tablas, memoria, posicionClock, mutexes, kernel, vuelta, giro>>
      /\ pcCpu' = "traduce" /\ pid' \in Pid /\ pagina' \in PagAUsar(pid')
      BY DEF CpuPide, CpuPideOrigen, PasoCpu
<1>2. TiposCpu'
      BY <1>1 DEF Tipos, TiposCpu, PcCpu, Cargando, CpuPide, CpuPideOrigen
<1>3. UNCHANGED externo
      BY DEF CpuPide, CpuPideOrigen
<1>4. QED
      BY <1>1, <1>2, <1>3 DEF Tipos, TiposMarco, TiposKernel, TiposPedidos, tablas,
                              memoria, mutexes, kernel, externo, pedidas

LEMMA TiposAlInicio == ASSUME Init PROVE Tipos
<1>1. TiposCpu
      BY FramesPositivos, FramesNaturales DEF Init, TiposCpu, PcCpu, Cargando
<1>2. TiposKernel
      BY DEF Init, TiposKernel, PcKer
<1>3. QED
      BY <1>1, <1>2, TablaNueva, ArchivoInicial DEF Init, Tipos, TiposPedidos

LEMMA TiposQuietos ==
    ASSUME Tipos, UNCHANGED vars
    PROVE  Tipos'
BY DEF Tipos, TiposMarco, TiposCpu, TiposKernel, TiposPedidos, vars, tablas, memoria,
       mutexes, cpu, kernel, externo, pedidas

LEMMA TiposSiguen ==
    ASSUME Tipos, [Next]_vars
    PROVE  Tipos'
BY TiposConexionCPU, TiposConexionKernel, TiposPedidoKernel, TiposPedidoCPU,
   TiposQuietos DEF Next, Pedidos, PedidoKernel

\* Types: no search of a frame or a row, no replacement and no suspension,
\* late ones too, leaves a table, a frame, a file or the position of CLOCK out
\* of its type, in every configuration.  The frame that conexionCPU answers is
\* a frame or -1; the one it loads a page in is a frame (peticiones.c:398).
THEOREM TiposDeLaMemoria == Spec => []TypeOK
<1>1. Init => Tipos
      BY TiposAlInicio
<1>2. Tipos /\ [Next]_vars => Tipos'
      BY TiposSiguen
<1>3. Tipos => TypeOK
      BY TiposDicen
<1>4. QED
      BY <1>1, <1>2, <1>3, PTL DEF Spec

-----------------------------------------------------------------------------
(* The frames of a process: DuenioEstable.                                 *)

MarcosBienFormados ==
    /\ marco \in [Frames -> [idProceso : Pid \cup {Nadie},
                             nroPagina : Nat \cup {SinPagina}]]
    /\ pid \in Pid \cup {Nadie} /\ pidKer \in Pid \cup {Nadie}
    /\ pagina \in Nat

\* The frame chosen is of the process that asked or has no page: in between,
\* conexionKernel may free it and give it to another process, but not load it.
Elegido ==
    pcCpu \in Cargando /\ frame \in Frames =>
        marco[frame].idProceso = pid \/ marco[frame].nroPagina = SinPagina

Duenios == MarcosBienFormados /\ Elegido

-----------------------------------------------------------------------------
LEMMA PaginasNaturales ==
    ASSUME NEW p \in Pid, NEW n \in PagAUsar(p)
    PROVE  n \in Nat
<1>1. Paginas[p] \in Nat
      BY TamaniosPositivos
<1>2. QED
      BY <1>1 DEF PagAUsar

\* The steps that touch neither the frames nor the choice.
LEMMA SinTocar ==
    ASSUME Duenios, UNCHANGED <<marco, pid, pagina>>, pidKer' \in Pid \cup {Nadie},
           pcCpu' \in Cargando => pcCpu \in Cargando /\ frame' = frame
    PROVE  Duenios' /\ NoCambiaDeDuenio
BY DEF Duenios, MarcosBienFormados, Elegido, NoCambiaDeDuenio, Frames

-----------------------------------------------------------------------------
(* conexionCPU.                                                            *)

LEMMA PasoDePedir ==
    ASSUME Duenios, NEW p \in Pid, NEW n \in PagAUsar(p), CpuPide(p, n)
    PROVE  Duenios' /\ NoCambiaDeDuenio
<1>1. n \in Nat
      BY PaginasNaturales
<1>2. QED
      BY <1>1 DEF Duenios, MarcosBienFormados, Elegido, Cargando, CpuPide,
                  PasoCpu, NoCambiaDeDuenio, memoria, kernel, Frames

LEMMA PasoDeOrigen ==
    ASSUME Duenios, pid \in Pid, NEW n \in PagAUsar(pid), CpuPideOrigen(n)
    PROVE  Duenios' /\ NoCambiaDeDuenio
<1>1. n \in Nat
      BY PaginasNaturales
<1>2. QED
      BY <1>1 DEF Duenios, MarcosBienFormados, Elegido, Cargando, CpuPideOrigen,
                  PasoCpu, NoCambiaDeDuenio, memoria, kernel, Frames

LEMMA PasoDeHayFrameLibre ==
    ASSUME Duenios, HayFrameLibre
    PROVE  Duenios' /\ NoCambiaDeDuenio
<1>1. marco[frame'].nroPagina = SinPagina
      BY DEF HayFrameLibre, FramesLibresDe, EsMenor
<1>2. UNCHANGED <<marco, pid, pagina, pidKer>>
      BY DEF HayFrameLibre, memoria, kernel
<1>3. QED
      BY <1>1, <1>2 DEF Duenios, MarcosBienFormados, Elegido, NoCambiaDeDuenio, Frames

LEMMA PasoDeVictima ==
    ASSUME Duenios, GiraVictima
    PROVE  Duenios' /\ NoCambiaDeDuenio
<1>1. marco[frame'].idProceso = pid
      BY DEF GiraVictima, Propio
<1>2. UNCHANGED <<marco, pid, pagina, pidKer>>
      BY DEF GiraVictima, memoria, kernel
<1>3. QED
      BY <1>1, <1>2 DEF Duenios, MarcosBienFormados, Elegido, NoCambiaDeDuenio, Frames

\* The frame is the process's or empty when its page is written.
LEMMA PasoDeActualizaFrames ==
    ASSUME Duenios, ActualizaFrames
    PROVE  Duenios' /\ NoCambiaDeDuenio
<1> DEFINE nuevo == [idProceso |-> pid, nroPagina |-> pagina]
<1>1. /\ pcCpu = "marco" /\ pcCpu' = "accede"
      /\ marco' = [marco EXCEPT ![frame] = nuevo]
      /\ UNCHANGED <<pid, pagina, pidKer>>
      BY DEF ActualizaFrames, PasoCpu, kernel
<1>2. MarcosBienFormados'
      BY <1>1 DEF Duenios, MarcosBienFormados, Frames
<1>3. Elegido'
      BY <1>1 DEF Elegido, Cargando
<1>4. NoCambiaDeDuenio
      BY <1>1 DEF Duenios, MarcosBienFormados, Elegido, Cargando, NoCambiaDeDuenio
<1>5. QED
      BY <1>2, <1>3, <1>4 DEF Duenios

LEMMA PasoDeMarca ==
    ASSUME Duenios, Marca
    PROVE  Duenios' /\ NoCambiaDeDuenio
<1>1. pcCpu' = "libre" /\ pid' = Nadie /\ UNCHANGED <<marco, pagina, pidKer>>
      BY DEF Marca, memoria, kernel
<1>2. QED
      BY <1>1 DEF Duenios, MarcosBienFormados, Elegido, Cargando, NoCambiaDeDuenio, Frames

\* The other steps of conexionCPU.
LEMMA OtrosPasosCPU ==
    ASSUME Duenios,
           \/ BuscaPagina \/ TraduceEnRam \/ TraduceAusente \/ UsaPagina \/ LeeFrame
           \/ NoHayFrameLibre \/ TomaFrames \/ GiraSigue \/ FinVuelta \/ BuscaVieja \/ Carga \/ ActualizaTablas
           \/ accesoMemoriaRead \/ accesoMemoriaCopy
           \/ \E v \in Valores \ {Blanco} : accesoMemoriaWrite(v)
    PROVE  Duenios' /\ NoCambiaDeDuenio
<1>1. UNCHANGED <<marco, pid, pagina, pidKer>>
      BY DEF BuscaPagina, Mira, TraduceEnRam, TraduceAusente,
             UsaPagina, LeeFrame, NoHayFrameLibre, TomaFrames, GiraSigue,
             FinVuelta, BuscaVieja, Carga, ActualizaTablas, accesoMemoriaRead,
             accesoMemoriaCopy, accesoMemoriaWrite, memoria, kernel
<1>2. pcCpu' \in Cargando => pcCpu \in Cargando /\ frame' = frame
      BY DEF BuscaPagina, Mira, TraduceEnRam, TraduceAusente,
             UsaPagina, LeeFrame, NoHayFrameLibre, TomaFrames, GiraSigue,
             FinVuelta, BuscaVieja, Carga, ActualizaTablas, accesoMemoriaRead,
             accesoMemoriaCopy, accesoMemoriaWrite, PasoCpu, Cargando
<1>3. QED
      BY <1>1, <1>2, SinTocar DEF Duenios, MarcosBienFormados

LEMMA PasoCPU ==
    ASSUME Duenios, conexionCPU
    PROVE  Duenios' /\ NoCambiaDeDuenio
<1>1. CASE HayFrameLibre
      BY <1>1, PasoDeHayFrameLibre
<1>2. CASE GiraVictima
      BY <1>2, PasoDeVictima
<1>3. CASE ActualizaFrames
      BY <1>3, PasoDeActualizaFrames
<1>4. CASE Marca
      BY <1>4, PasoDeMarca
<1>5. QED
      BY <1>1, <1>2, <1>3, <1>4, OtrosPasosCPU DEF conexionCPU

-----------------------------------------------------------------------------
(* conexionKernel.                                                         *)

\* pasarAReady gives away only frames without owner and leaves them empty.
LEMMA PasoDeAsignar ==
    ASSUME Duenios, AsignaFrames
    PROVE  Duenios' /\ NoCambiaDeDuenio
<1>1. /\ marco' = [f \in Frames |->
            IF f \in ALosQueToca THEN [marco[f] EXCEPT !.idProceso = pidKer]
            ELSE marco[f]]
      /\ pidKer' = Nadie
      /\ UNCHANGED <<pcCpu, pid, pagina, frame>>
      BY DEF AsignaFrames, cpu
<1>2. \A f \in ALosQueToca : marco[f].nroPagina = SinPagina
      BY DEF ALosQueToca, Libre
<1>3. MarcosBienFormados'
      BY <1>1 DEF Duenios, MarcosBienFormados, Frames
<1>4. \A f \in Frames : marco'[f].nroPagina = marco[f].nroPagina
      BY <1>1 DEF Duenios, MarcosBienFormados
<1>5. \A f \in Frames \ ALosQueToca : marco'[f] = marco[f]
      BY <1>1
<1>6. Elegido'
      BY <1>1, <1>2, <1>4, <1>5 DEF Duenios, Elegido, Frames, SinPagina
<1>7. NoCambiaDeDuenio
      BY <1>2, <1>5 DEF NoCambiaDeDuenio
<1>8. QED
      BY <1>3, <1>6, <1>7 DEF Duenios

LEMMA PasoDeLiberar ==
    ASSUME Duenios, NEW f, liberarFrame_Tabla(f),
           UNCHANGED <<pcCpu, pid, pagina, frame>>, pidKer' \in Pid \cup {Nadie}
    PROVE  Duenios' /\ NoCambiaDeDuenio
<1>1. marco' = [g \in Frames |-> IF g = f THEN Vacio ELSE marco[g]]
      BY DEF liberarFrame_Tabla
<1>2. MarcosBienFormados'
      BY <1>1 DEF Duenios, MarcosBienFormados, Frames, Vacio
<1>3. Elegido'
      BY <1>1 DEF Duenios, Elegido, Frames, Vacio
<1>4. NoCambiaDeDuenio
      BY <1>1 DEF NoCambiaDeDuenio
<1>5. QED
      BY <1>2, <1>3, <1>4 DEF Duenios

LEMMA PasoKernel ==
    ASSUME Duenios, conexionKernel
    PROVE  Duenios' /\ NoCambiaDeDuenio
<1>1. CASE AsignaFrames
      BY <1>1, PasoDeAsignar
<1>2. CASE LiberaSuspendido
      BY <1>2, PasoDeLiberar DEF LiberaSuspendido, cpu, Duenios, MarcosBienFormados
<1>3. CASE LiberaPagina
      BY <1>3, PasoDeLiberar DEF LiberaPagina, cpu, Duenios, MarcosBienFormados
<1>4. CASE \/ CreaTabla \/ SuspendePagina \/ CopiaPagina \/ SuspendeSinFrame
           \/ FinSuspender \/ Suspendido \/ FinExit
           \/ Toma2N("suspende", "paginas") \/ Toma2N("exit", "salida")
  <2>1. /\ UNCHANGED <<marco, pcCpu, pid, pagina, frame>>
        /\ pidKer' = pidKer \/ pidKer' = Nadie
        BY <1>4 DEF CreaTabla, SuspendePagina, CopiaPagina, SuspendeSinFrame,
                    FinSuspender, Suspendido, FinExit, Toma2N, memoria, cpu
  <2>2. QED
        BY <2>1, SinTocar DEF Duenios, MarcosBienFormados
<1>5. QED
      BY <1>1, <1>2, <1>3, <1>4 DEF conexionKernel, suspender, pasarAExit

LEMMA PasoPedidos ==
    ASSUME Duenios, Pedidos
    PROVE  Duenios' /\ NoCambiaDeDuenio
<1>1. CASE \E p \in Pid : PedidoKernel(p)
  <2>1. /\ UNCHANGED <<marco, pcCpu, pid, pagina, frame>>
        /\ pidKer' \in Pid
        BY <1>1 DEF PedidoKernel, PidePasarAReady, PideSuspender, PideSuspenderTarde,
                    PidePasarAExit, Pide, memoria, cpu
  <2>2. QED
        BY <2>1, SinTocar
<1>2. CASE \E p \in Pid : \E n \in PagAUsar(p) : CpuPide(p, n)
      BY <1>2, PasoDePedir
<1>3. CASE \E p \in Pid : pid = p /\ \E n \in PagAUsar(p) : CpuPideOrigen(n)
      BY <1>3, PasoDeOrigen
<1>4. QED
      BY <1>1, <1>2, <1>3 DEF Pedidos, PedidoKernel

-----------------------------------------------------------------------------
LEMMA DueniosAlInicio == Init => Duenios
BY DEF Init, Duenios, MarcosBienFormados, Elegido, Cargando, Vacio, Frames

LEMMA DueniosPaso ==
    ASSUME Duenios, [Next]_vars
    PROVE  Duenios' /\ (NoCambiaDeDuenio \/ UNCHANGED vars)
<1>1. CASE Next
      BY <1>1, PasoCPU, PasoKernel, PasoPedidos DEF Next
<1>2. CASE UNCHANGED vars
      BY <1>2 DEF vars, memoria, cpu, kernel, Duenios, MarcosBienFormados, Elegido,
                  Frames
<1>3. QED
      BY <1>1, <1>2

\* A frame with a page changes owner only by being freed, in every
\* configuration: the replacement is local and what pasarAReady gives away is
\* empty (algoritmosReemplazo.c, peticiones.c), even though suspender may free
\* frames of other processes while a replacement is under way.
THEOREM MarcosConDuenio == Spec => DuenioEstable
<1>1. Init => Duenios
      BY DueniosAlInicio
<1>2. Duenios /\ [Next]_vars => Duenios'
      BY DueniosPaso
<1>3. Duenios /\ [Next]_vars => [NoCambiaDeDuenio]_vars
      BY DueniosPaso
<1>4. QED
      BY <1>1, <1>2, <1>3, PTL DEF Spec, DuenioEstable

-----------------------------------------------------------------------------
(* Frames and the processes that own them.  While the Kernel suspends no   *)
(* process, the pages of each process stay in frames of its own and it has *)
(* no more frames than its share, although the rows are searched without   *)
(* looking at the process.                                                 *)

\* The frames that the rows of p have are of one of quienes.
FramesDeFilas(p, quienes) ==
    \A n \in Filas(p) :
        fila[p][n].nroFrame # SinFrame =>
            marco[fila[p][n].nroFrame].idProceso \in quienes

FilasVacias(p) == \A n \in Filas(p) : fila[p][n].nroFrame = SinFrame

UsaElFrame == Cargando \cup {"accede"}

\* The row that conexionCPU found present keeps its frame until it is read.
FilaUsada == fila[pid][pagina].nroFrame # SinFrame

\* A process that leaves keeps its rows until pasarAExit has freed them all,
\* and two of them may have the same frame: the second one is freed twice.
Propiedad ==
    /\ carga \in [Pid -> {"nuevo", "entra", "listo", "fin"}]
    /\ pid # Nadie => carga[pid] = "listo"
    /\ \A p \in Pid :
        /\ carga[p] \in {"nuevo", "entra"} => FilasVacias(p) /\ DeProceso(p) = {}
        /\ carga[p] = "listo" => FramesDeFilas(p, {p})
        /\ carga[p] = "fin" /\ pidKer = p => FramesDeFilas(p, {p, Nadie})
    /\ pcCpu \in UsaElFrame => frame \in Frames /\ marco[frame].idProceso = pid
    /\ pcCpu \in {"usa", "lee"} => FilaUsada
    /\ ~Tarde
    /\ pcKer \in {"libre", "crea", "asigna", "exit", "salida"}
    /\ pcKer \in {"crea", "asigna"} => carga[pidKer] = "entra"
    /\ pcKer \in {"exit", "salida"} => carga[pidKer] = "fin"

LEMMA PropiedadDice == Propiedad => Aislado
BY DEF Propiedad, Aislado, FramesDeFilas, UsaElFrame

LEMMA FrameDeFilaTipado ==
    ASSUME EsTabla(fila), NEW p \in Pid, NEW n \in Filas(p)
    PROVE  fila[p][n].nroFrame \in Frames \cup {SinFrame}
<1>1. fila[p][n] \in TipoFila
      BY FilaTipada
<1>2. QED
      BY <1>1 DEF TipoFila

-----------------------------------------------------------------------------
(* conexionCPU.                                                            *)

MismosDuenios == \A f \in Frames : marco'[f].idProceso = marco[f].idProceso

\* A row may get a frame of the process that asks.
FilasDelQuePide ==
    \A p \in Pid : \A n \in Filas(p) :
        \/ fila'[p][n].nroFrame \in {fila[p][n].nroFrame, SinFrame}
        \/ /\ p = pid /\ fila'[p][n].nroFrame \in Frames
           /\ marco[fila'[p][n].nroFrame].idProceso = pid

LEMMA PasoDeCPU ==
    ASSUME Tipos, Propiedad, UNCHANGED <<kernel, carga, pedidas>>,
           pid' \in {pid, Nadie}, MismosDuenios, FilasDelQuePide,
           pcCpu' \in UsaElFrame => frame' \in Frames /\ marco'[frame'].idProceso = pid',
           pcCpu' \in {"usa", "lee"} => FilaUsada'
    PROVE  Propiedad'
<1> USE DEF Propiedad, kernel, pedidas, Tarde
<1>1. ASSUME NEW p \in Pid, NEW quienes, FramesDeFilas(p, quienes),
             p = pid => p \in quienes
      PROVE  FramesDeFilas(p, quienes)'
  <2> SUFFICES ASSUME NEW n \in Filas(p), fila'[p][n].nroFrame # SinFrame
               PROVE  marco'[fila'[p][n].nroFrame].idProceso \in quienes
        BY DEF FramesDeFilas
  <2>1. CASE fila'[p][n].nroFrame = fila[p][n].nroFrame
    <3>1. fila[p][n].nroFrame \in Frames
          BY <2>1, FrameDeFilaTipado DEF Tipos
    <3>2. QED
          BY <1>1, <2>1, <3>1 DEF FramesDeFilas, MismosDuenios
  <2>2. CASE /\ p = pid /\ fila'[p][n].nroFrame \in Frames
             /\ marco[fila'[p][n].nroFrame].idProceso = pid
        BY <1>1, <2>2 DEF MismosDuenios
  <2>3. QED
        BY <2>1, <2>2 DEF FilasDelQuePide
<1>2. ASSUME NEW p \in Pid, carga[p] \in {"nuevo", "entra"}
      PROVE  FilasVacias(p)' /\ DeProceso(p)' = {}
  <2>1. p # pid
        BY <1>2, NadieNoEsProceso
  <2>2. FilasVacias(p)'
        BY <1>2, <2>1 DEF FilasVacias, FilasDelQuePide
  <2>3. DeProceso(p)' = DeProceso(p)
        BY DEF DeProceso, MismosDuenios
  <2>4. QED
        BY <1>2, <2>2, <2>3
<1>3. \A p \in Pid : carga[p] = "listo" => FramesDeFilas(p, {p})'
      BY <1>1
<1>4. \A p \in Pid : carga[p] = "fin" /\ pidKer = p => FramesDeFilas(p, {p, Nadie})'
  <2>1. ASSUME NEW p \in Pid, carga[p] = "fin", pidKer = p
        PROVE  FramesDeFilas(p, {p, Nadie})'
        BY <1>1, <2>1
  <2>2. QED
        BY <2>1
<1>5. QED
      BY <1>2, <1>3, <1>4

LEMMA DueniosEnCPU ==
    ASSUME Tipos, Propiedad, conexionCPU
    PROVE  MismosDuenios
<1>1. CASE ActualizaFrames
  <2>1. frame \in Frames /\ marco[frame].idProceso = pid
        BY <1>1 DEF Tipos, TiposCpu, Propiedad, ActualizaFrames, PasoCpu, UsaElFrame,
                    Cargando
  <2>2. QED
        BY <1>1, <2>1 DEF ActualizaFrames, MismosDuenios, Tipos, TiposMarco
<1>2. CASE ~ActualizaFrames
  <2>1. marco' = marco
        BY <1>2 DEF conexionCPU, BuscaPagina, Mira, TraduceEnRam, TraduceAusente,
             UsaPagina, LeeFrame, HayFrameLibre,
             NoHayFrameLibre, TomaFrames, GiraVictima, GiraSigue, FinVuelta, BuscaVieja,
             Carga, ActualizaTablas, Marca, accesoMemoriaRead, accesoMemoriaCopy,
             accesoMemoriaWrite, memoria
  <2>2. QED
        BY <2>1 DEF MismosDuenios
<1>3. QED
      BY <1>1, <1>2

LEMMA FilasEnCPU ==
    ASSUME Tipos, Propiedad, conexionCPU
    PROVE  FilasDelQuePide
<1>1. CASE ActualizaTablas
  <2>1. frame \in Frames /\ marco[frame].idProceso = pid
        BY <1>1 DEF Tipos, TiposCpu, Propiedad, ActualizaTablas, PasoCpu, UsaElFrame,
                    Cargando
  <2>2. \A p \in Pid : \A n \in Filas(p) :
            fila'[p][n].nroFrame \in {Nueva[p][n].nroFrame, SinFrame}
        BY <1>1, <2>1, ActualizaTabla DEF SinFramesNuevos, Tipos
  <2>3. ASSUME NEW p \in Pid, NEW n \in Filas(p)
        PROVE  \/ Nueva[p][n].nroFrame = fila[p][n].nroFrame
               \/ p = pid /\ Nueva[p][n].nroFrame = frame
        BY DEF Nueva, Tipos, EsTabla
  <2>4. QED
        BY <2>1, <2>2, <2>3 DEF FilasDelQuePide
<1>2. CASE UsaPagina \/ GiraSigue \/ Marca
      BY <1>2, UsaTabla, SinUsoTabla, MarcaTabla, MismaTabla
         DEF Tipos, GiraSigue, SinFramesNuevos, FilasDelQuePide
<1>3. CASE ~(ActualizaTablas \/ UsaPagina \/ GiraSigue \/ Marca)
  <2>1. fila' = fila
        BY <1>3 DEF conexionCPU, BuscaPagina, Mira, TraduceEnRam, TraduceAusente,
             LeeFrame, HayFrameLibre, NoHayFrameLibre,
             TomaFrames, GiraVictima, FinVuelta, BuscaVieja, Carga, ActualizaFrames,
             accesoMemoriaRead, accesoMemoriaCopy, accesoMemoriaWrite, tablas
  <2>2. QED
        BY <2>1 DEF FilasDelQuePide
<1>4. QED
      BY <1>1, <1>2, <1>3

\* The frame that a step chooses is of the process that asks.
LEMMA EligeSuyo ==
    ASSUME Tipos, Propiedad, conexionCPU, pcCpu' \in UsaElFrame
    PROVE  frame' \in Frames /\ marco'[frame'].idProceso = pid'
<1> USE DEF UsaElFrame, Cargando
<1>1. CASE HayFrameLibre
      BY <1>1 DEF HayFrameLibre, EsMenor, FramesLibresDe, memoria
<1>2. CASE GiraVictima
      BY <1>2 DEF GiraVictima, Propio, memoria, Tipos, TiposCpu
<1>3. CASE LeeFrame
  <2>1. /\ pid \in Pid /\ frame' = fila[pid][pagina].nroFrame /\ frame' # SinFrame
        /\ pid' = pid /\ marco' = marco
        BY <1>3 DEF LeeFrame, FilaUsada, Propiedad, Tipos, TiposCpu, PasoCpu, memoria
  <2>2. pagina \in Filas(pid)
        BY <1>3, PaginaConFila DEF Tipos, TiposCpu, LeeFrame, PasoCpu
  <2>3. carga[pid] = "listo"
        BY <2>1, NadieNoEsProceso DEF Propiedad
  <2>4. frame' \in Frames
        BY <1>3, <2>1, FrameLeido DEF Tipos
  <2>5. QED
        BY <2>1, <2>2, <2>3, <2>4 DEF Propiedad, FramesDeFilas
<1>4. CASE BuscaVieja \/ Carga \/ ActualizaTablas
      BY <1>4 DEF BuscaVieja, Carga, ActualizaTablas, PasoCpu, memoria, Propiedad
<1>5. CASE ActualizaFrames
  <2>1. frame \in Frames
        BY <1>5 DEF ActualizaFrames, PasoCpu, Tipos, TiposCpu, Cargando
  <2>2. QED
        BY <1>5, <2>1 DEF ActualizaFrames, PasoCpu, Tipos, TiposMarco
<1>6. CASE \/ BuscaPagina \/ TraduceEnRam \/ TraduceAusente \/ UsaPagina
           \/ NoHayFrameLibre \/ TomaFrames \/ GiraSigue
           \/ FinVuelta \/ Marca \/ accesoMemoriaRead \/ accesoMemoriaCopy
           \/ \E v \in Valores \ {Blanco} : accesoMemoriaWrite(v)
  <2>1. pcCpu' \notin UsaElFrame
        BY <1>6 DEF BuscaPagina, Mira, TraduceEnRam, TraduceAusente, UsaPagina,
             NoHayFrameLibre, TomaFrames, GiraSigue, FinVuelta, Marca, accesoMemoriaRead, accesoMemoriaCopy, accesoMemoriaWrite, PasoCpu
  <2>2. QED
        BY <2>1
<1>7. QED
      BY <1>1, <1>2, <1>3, <1>4, <1>5, <1>6 DEF conexionCPU

\* Nobody empties the row between Mira and LeeFrame.
LEMMA SigueUsada ==
    ASSUME Tipos, pcCpu \in {"usa", "lee"} => FilaUsada, conexionCPU,
           pcCpu' \in {"usa", "lee"}
    PROVE  FilaUsada'
<1>1. CASE TraduceEnRam
      BY <1>1 DEF TraduceEnRam, Mira, EnRam, FilaUsada, tablas
<1>2. CASE UsaPagina
  <2>1. pid \in Pid /\ pagina \in Filas(pid) /\ FilaUsada /\ UNCHANGED <<pid, pagina>>
        BY <1>2, PaginaConFila DEF UsaPagina, PasoCpu, Tipos, TiposCpu
  <2>2. fila[pid][pagina] \in TipoFila
        BY <2>1, FilaTipada DEF Tipos
  <2>3. fila'[pid][pagina] = Usada(fila[pid][pagina])
        BY <1>2, <2>1 DEF UsaPagina, Tipos, EsTabla
  <2>4. QED
        BY <2>1, <2>2, <2>3 DEF FilaUsada, Usada, TipoFila
<1>3. CASE ~(TraduceEnRam \/ UsaPagina)
      BY <1>3 DEF conexionCPU, BuscaPagina, Mira, TraduceAusente, LeeFrame,
             HayFrameLibre, NoHayFrameLibre, TomaFrames, GiraVictima, GiraSigue,
             FinVuelta, BuscaVieja, Carga, ActualizaTablas, ActualizaFrames, Marca,
             accesoMemoriaRead, accesoMemoriaCopy, accesoMemoriaWrite, PasoCpu
<1>4. QED
      BY <1>1, <1>2, <1>3

LEMMA PropiedadEnCPU ==
    ASSUME Tipos, Propiedad, conexionCPU
    PROVE  Propiedad' /\ MismosDuenios
<1>1. UNCHANGED <<kernel, carga, pedidas>> /\ pid' \in {pid, Nadie}
      BY DEF conexionCPU, BuscaPagina, Mira, TraduceEnRam, TraduceAusente,
             UsaPagina, LeeFrame, HayFrameLibre, NoHayFrameLibre,
             TomaFrames, GiraVictima, GiraSigue, FinVuelta, BuscaVieja, Carga,
             ActualizaTablas, ActualizaFrames, Marca, accesoMemoriaRead,
             accesoMemoriaCopy, accesoMemoriaWrite, externo
<1>2. QED
      BY <1>1, DueniosEnCPU, FilasEnCPU, EligeSuyo, SigueUsada, PasoDeCPU DEF Propiedad

-----------------------------------------------------------------------------
(* conexionKernel.                                                         *)

\* A frame changes owner when the Kernel's thread takes it while it is free
\* or gives it back.
LEMMA DuenioDelQueUsa ==
    ASSUME Tipos, Propiedad, pcCpu \in UsaElFrame
    PROVE  /\ frame \in Frames /\ pid \in Pid /\ carga[pid] = "listo"
           /\ marco[frame].idProceso = pid
BY NadieNoEsProceso DEF Tipos, TiposCpu, Propiedad, UsaElFrame, Cargando

LEMMA PropiedadEnAsigna ==
    ASSUME Tipos, Propiedad, AsignaFrames
    PROVE  Propiedad'
<1> USE DEF Propiedad
<1>1. /\ pidKer \in Pid /\ carga[pidKer] = "entra" /\ pcKer' = "libre" /\ pidKer' = Nadie
      /\ UNCHANGED <<tablas, cpu>> /\ carga' = [carga EXCEPT ![pidKer] = "listo"]
      BY DEF AsignaFrames, PasoKer, Tipos, TiposKernel
<1>2. \A f \in Frames : marco'[f].idProceso =
        IF f \in ALosQueToca THEN pidKer ELSE marco[f].idProceso
      BY DEF AsignaFrames, Tipos, TiposMarco
<1>3. \A f \in ALosQueToca : f \in Frames /\ marco[f].idProceso = Nadie
      BY DEF ALosQueToca, Libre
<1>4. pid \notin {Nadie, pidKer} \/ pid = Nadie
      BY <1>1, NadieNoEsProceso
<1>5. ASSUME NEW p \in Pid, carga'[p] = "listo"
      PROVE  FramesDeFilas(p, {p})'
  <2>1. CASE p = pidKer
        BY <1>1, <2>1 DEF FramesDeFilas, FilasVacias, tablas
  <2>2. CASE p # pidKer
    <3>1. carga[p] = "listo"
          BY <1>1, <1>5, <2>2
    <3>2. SUFFICES ASSUME NEW n \in Filas(p), fila[p][n].nroFrame # SinFrame
                   PROVE  marco'[fila[p][n].nroFrame].idProceso = p
          BY <1>1 DEF FramesDeFilas, tablas
    <3>3. fila[p][n].nroFrame \in Frames /\ marco[fila[p][n].nroFrame].idProceso = p
          BY <3>1, <3>2, FrameDeFilaTipado DEF FramesDeFilas, Tipos
    <3>4. QED
          BY <1>2, <1>3, <3>3, NadieNoEsProceso
  <2>3. QED
        BY <2>1, <2>2
<1>6. ASSUME NEW p \in Pid, carga'[p] \in {"nuevo", "entra"}
      PROVE  FilasVacias(p)' /\ DeProceso(p)' = {}
  <2>1. p # pidKer /\ carga[p] \in {"nuevo", "entra"}
        BY <1>1, <1>6
  <2>2. FilasVacias(p)'
        BY <1>1, <2>1 DEF FilasVacias, tablas
  <2>3. QED
        BY <1>2, <2>1, <2>2 DEF DeProceso
<1>7. pcCpu' \in UsaElFrame => frame' \in Frames /\ marco'[frame'].idProceso = pid'
      BY <1>1, <1>2, <1>3, DuenioDelQueUsa, NadieNoEsProceso DEF cpu
<1>8. ~Tarde' /\ (pcCpu' \in {"usa", "lee"} => FilaUsada')
      BY <1>1 DEF AsignaFrames, FilaUsada, Tarde, pedidas, tablas, cpu
<1>9. QED
      BY <1>1, <1>5, <1>6, <1>7, <1>8, NadieNoEsProceso DEF cpu

LEMMA PropiedadEnLibera ==
    ASSUME Tipos, Propiedad, LiberaPagina
    PROVE  Propiedad'
<1> DEFINE g == fila[pidKer][paginaKer].nroFrame
<1>1. /\ pidKer \in Pid /\ carga[pidKer] = "fin"
      /\ UNCHANGED <<cpu, pidKer, pcKer, carga>>
      BY DEF LiberaPagina, PasoKer, Tipos, TiposKernel, Propiedad, externo
<1>2. g \in Frames => marco[g].idProceso \in {pidKer, Nadie}
  <2>1. paginaKer \in Filas(pidKer)
        BY <1>1, PaginaConFila DEF LiberaPagina
  <2>2. QED
        BY <1>1, <2>1, FramesNaturales DEF Propiedad, FramesDeFilas
<1>3. \A f \in Frames : marco'[f].idProceso = IF f = g THEN Nadie ELSE marco[f].idProceso
      BY DEF LiberaPagina, liberarFrame_Tabla, Vacio
<1> HIDE DEF g
<1>4. SinFramesNuevos(fila, fila')
      BY KernelTabla DEF Tipos
<1>5. ASSUME NEW p \in Pid, NEW quienes, FramesDeFilas(p, quienes),
             \/ pidKer \notin quienes /\ Nadie \notin quienes
             \/ Nadie \in quienes
      PROVE  FramesDeFilas(p, quienes)'
  <2> SUFFICES ASSUME NEW n \in Filas(p), fila'[p][n].nroFrame # SinFrame
               PROVE  marco'[fila'[p][n].nroFrame].idProceso \in quienes
        BY DEF FramesDeFilas
  <2>1. fila'[p][n].nroFrame = fila[p][n].nroFrame
        BY <1>4 DEF SinFramesNuevos
  <2>2. fila[p][n].nroFrame \in Frames
        BY <2>1, FrameDeFilaTipado DEF Tipos
  <2>3. QED
        BY <1>2, <1>3, <1>5, <2>1, <2>2 DEF FramesDeFilas
<1>6. ASSUME NEW p \in Pid, carga[p] = "listo"
      PROVE  FramesDeFilas(p, {p})'
  <2>1. pidKer \notin {p} /\ Nadie \notin {p}
        BY <1>1, <1>6, NadieNoEsProceso
  <2>2. QED
        BY <1>5, <1>6, <2>1 DEF Propiedad
<1>7. ASSUME NEW p \in Pid, carga[p] = "fin", pidKer = p
      PROVE  FramesDeFilas(p, {p, Nadie})'
      BY <1>5, <1>7 DEF Propiedad
<1>8. ASSUME NEW p \in Pid, carga[p] \in {"nuevo", "entra"}
      PROVE  FilasVacias(p)' /\ DeProceso(p)' = {}
  <2>1. FilasVacias(p)'
        BY <1>4, <1>8 DEF Propiedad, FilasVacias, SinFramesNuevos
  <2>2. DeProceso(p) = {}
        BY <1>8 DEF Propiedad
  <2>3. QED
        BY <1>3, <2>1, <2>2, NadieNoEsProceso DEF DeProceso
<1>9. pcCpu' \in UsaElFrame => frame' \in Frames /\ marco'[frame'].idProceso = pid'
      BY <1>1, <1>2, <1>3, DuenioDelQueUsa, NadieNoEsProceso DEF cpu
<1>10. pcCpu' \in {"usa", "lee"} => FilaUsada'
  <2>1. SUFFICES ASSUME pcCpu \in {"usa", "lee"} PROVE FilaUsada'
        BY <1>1 DEF cpu
  <2>2. pid \in Pid /\ pid # pidKer
        BY <1>1, <2>1, NadieNoEsProceso DEF Propiedad, Tipos, TiposCpu
  <2>3. fila' = [fila EXCEPT ![pidKer][paginaKer] =
                    [Bajada(@) EXCEPT !.nroFrame = SinFrame]]
        BY DEF LiberaPagina
  <2>4. fila'[pid] = fila[pid]
        BY <2>2, <2>3 DEF Tipos, EsTabla
  <2>5. QED
        BY <1>1, <2>1, <2>4 DEF FilaUsada, Propiedad, cpu
<1>11. ~Tarde'
      BY DEF LiberaPagina, externo, pedidas, Tarde, Propiedad
<1>12. QED
      BY <1>1, <1>6, <1>7, <1>8, <1>9, <1>10, <1>11 DEF Propiedad, cpu

LEMMA PropiedadEnKernel ==
    ASSUME Tipos, Propiedad, conexionKernel
    PROVE  Propiedad'
<1>1. CASE AsignaFrames
      BY <1>1, PropiedadEnAsigna
<1>2. CASE LiberaPagina
      BY <1>2, PropiedadEnLibera
<1>3. CASE suspender
      BY <1>3 DEF Propiedad, suspender, Toma2N, SuspendePagina, CopiaPagina,
                  SuspendeSinFrame, FinSuspender, LiberaSuspendido, Suspendido, PasoKer
<1>4. CASE CreaTabla \/ Toma2N("exit", "salida") \/ FinExit
  <2>1. /\ UNCHANGED <<fila, marco, carga, pid, pcCpu, frame, pagina, tardes>>
        /\ \/ pcKer = "crea" /\ pcKer' \in {"crea", "asigna"} /\ pidKer' = pidKer
           \/ pcKer = "exit" /\ pcKer' = "salida" /\ pidKer' = pidKer
           \/ pcKer' = "libre" /\ pidKer' = Nadie
        BY <1>4 DEF CreaTabla, Toma2N, FinExit, PasoKer, tablas, memoria, externo,
                    pedidas, cpu
  <2>2. QED
        BY <2>1, NadieNoEsProceso DEF Propiedad, FilasVacias, FramesDeFilas, DeProceso,
                                      FilaUsada, Tarde
<1>5. QED
      BY <1>1, <1>2, <1>3, <1>4 DEF conexionKernel, pasarAExit

-----------------------------------------------------------------------------
(* What the Kernel and the CPU ask.                                        *)

LEMMA PropiedadEnPedido ==
    ASSUME Tipos, Propiedad, MaxSuspensiones = 0, Pedidos
    PROVE  Propiedad'
<1> USE DEF Propiedad, FilasVacias, FramesDeFilas, DeProceso, FilaUsada, Tarde,
            tablas, memoria, pedidas
<1>1. CASE \E p \in Pid : PidePasarAReady(p)
  <2>1. PICK p \in Pid : PidePasarAReady(p)
        BY <1>1
  <2>2. /\ UNCHANGED <<tablas, memoria, cpu>> /\ pcKer' \in {"crea", "asigna"}
        /\ pidKer' = p /\ pid # p /\ carga' = [carga EXCEPT ![p] = "entra"]
        /\ carga[p] = "nuevo" /\ UNCHANGED pedidas
        BY <2>1 DEF PidePasarAReady, Fuera, Pide, PasoKer
  <2>3. QED
        BY <2>2 DEF cpu
<1>2. CASE \E p \in Pid : PidePasarAExit(p)
  <2>1. PICK p \in Pid : PidePasarAExit(p)
        BY <1>2
  <2>2. /\ UNCHANGED <<tablas, memoria, cpu>> /\ pcKer' = "exit"
        /\ pidKer' = p /\ pid # p /\ carga' = [carga EXCEPT ![p] = "fin"]
        /\ carga[p] = "listo" /\ UNCHANGED pedidas
        BY <2>1 DEF PidePasarAExit, Pide, PasoKer
  <2>3. QED
        BY <2>2 DEF cpu
<1>3. CASE \/ \E p \in Pid : \E n \in PagAUsar(p) : CpuPide(p, n)
           \/ \E p \in Pid : pid = p /\ \E n \in PagAUsar(p) : CpuPideOrigen(n)
  <2>1. /\ UNCHANGED <<tablas, memoria, kernel, externo>> /\ pcCpu' = "traduce"
        /\ pid' = pid \/ carga[pid'] = "listo"
        BY <1>3 DEF CpuPide, CpuPideOrigen, PasoCpu
  <2>2. QED
        BY <2>1 DEF kernel, externo, UsaElFrame, Cargando
<1>4. ~Cuenta
      BY DEF Cuenta, Tipos, TiposPedidos
<1>5. QED
      BY <1>1, <1>2, <1>3, <1>4 DEF Pedidos, PideSuspender, PideSuspenderTarde

LEMMA PropiedadAlInicio == ASSUME Init PROVE Propiedad
<1>1. \A p \in Pid : FilasVacias(p)
      BY DEF Init, FilasVacias, FilaNueva
<1>2. \A p \in Pid : DeProceso(p) = {}
      BY NadieNoEsProceso DEF Init, DeProceso, Vacio
<1>3. QED
      BY <1>1, <1>2 DEF Init, Propiedad, UsaElFrame, Cargando, Tarde

LEMMA PropiedadSigue ==
    ASSUME Tipos, Propiedad, MaxSuspensiones = 0, [Next]_vars
    PROVE  Propiedad'
<1>1. CASE UNCHANGED vars
      BY <1>1 DEF Propiedad, FilasVacias, FramesDeFilas, DeProceso, FilaUsada, Tarde,
                  vars, tablas, memoria, cpu, kernel, externo, pedidas
<1>2. QED
      BY <1>1, PropiedadEnCPU, PropiedadEnKernel, PropiedadEnPedido DEF Next

\* Isolation: in a system without suspensions no process ever reads or writes
\* a frame of another one, whatever CLOCK or CLOCK-M replace.
THEOREM ProcesosAislados == ASSUME MaxSuspensiones = 0 PROVE Spec => []Aislado
<1>1. Init => Tipos /\ Propiedad
      BY TiposAlInicio, PropiedadAlInicio
<1>2. Tipos /\ Propiedad /\ [Next]_vars => Tipos' /\ Propiedad'
      BY PropiedadSigue, TiposSiguen
<1>3. Propiedad => Aislado
      BY PropiedadDice
<1>4. QED
      BY <1>1, <1>2, <1>3, PTL DEF Spec

-----------------------------------------------------------------------------
(* The share of each process.                                              *)

Cupo == \A p \in Pid : Cardinality(DeProceso(p)) <= MARCOS_POR_PROCESO

LEMMA FramesFinitos == \A S \in SUBSET Frames : IsFiniteSet(S) /\ Cardinality(S) \in Nat
<1>1. IsFiniteSet(Frames)
  <2>1. CANT_FRAMES - 1 \in Int
        BY FramesPositivos
  <2>2. QED
        BY <2>1, FS_Interval DEF Frames
<1>2. QED
      BY <1>1, FS_Subset, FS_CardinalityType

\* A free frame has one more before it than any free frame before it.
LEMMA CupoDeLosQueToca == Cardinality(ALosQueToca) <= MARCOS_POR_PROCESO
<1> DEFINE Antes(f) == {g \in Frames : Libre(g) /\ g < f}
           lugar == [f \in ALosQueToca |-> Cardinality(Antes(f))]
           T == 0..(MARCOS_POR_PROCESO - 1)
<1>1. \A f \in ALosQueToca : f \in Frames /\ f \in Nat /\ Libre(f)
      BY FramesNaturales DEF ALosQueToca
<1>2. \A f : Cardinality(Antes(f)) \in Nat
      BY FramesFinitos
<1>3. \A f \in ALosQueToca : Cardinality(Antes(f)) \in T
      BY <1>2, MarcosPositivos DEF ALosQueToca
<1>4. ASSUME NEW f \in ALosQueToca, NEW g \in ALosQueToca, f < g
      PROVE  Cardinality(Antes(f)) # Cardinality(Antes(g))
  <2>1. Antes(f) \subseteq Antes(g) /\ f \in Antes(g) /\ f \notin Antes(f)
    <3>1. f \in Int /\ g \in Int /\ \A h \in Frames : h \in Int
          BY <1>1, FramesNaturales
    <3>2. \A h \in Frames : h < f => h < g
          BY <1>4, <3>1
    <3>3. QED
          BY <1>1, <1>4, <3>1, <3>2
  <2>2. IsFiniteSet(Antes(g))
        BY FramesFinitos
  <2> HIDE DEF Antes
  <2>3. QED
        BY <2>1, <2>2, FS_Subset
<1>5. ASSUME NEW f \in ALosQueToca, NEW g \in ALosQueToca, f # g
      PROVE  Cardinality(Antes(f)) # Cardinality(Antes(g))
  <2>1. f < g \/ g < f
        BY <1>1, <1>5
  <2>2. QED
        BY <1>4, <2>1
<1> HIDE DEF Antes
<1>6. lugar \in Injection(ALosQueToca, T)
  <2> HIDE DEF T
  <2>1. lugar \in [ALosQueToca -> T]
        BY <1>3
  <2>2. \A f, g \in ALosQueToca : lugar[f] = lugar[g] => f = g
        BY <1>5
  <2> HIDE DEF lugar
  <2>3. QED
        BY <2>1, <2>2 DEF Injection, IsInjective
<1>7. IsFiniteSet(T) /\ Cardinality(T) = MARCOS_POR_PROCESO
      BY MarcosPositivos, FS_Interval
<1> HIDE DEF T, lugar
<1>8. QED
      BY <1>6, <1>7, FS_Injection

\* Only AsignaFrames gives frames to a process.
LEMMA SoloAsignaDa ==
    ASSUME Tipos, Propiedad, MaxSuspensiones = 0, [Next]_vars, ~AsignaFrames, NEW p \in Pid
    PROVE  DeProceso(p)' \subseteq DeProceso(p)
<1>1. CASE conexionCPU
      BY <1>1, PropiedadEnCPU DEF MismosDuenios, DeProceso
<1>2. CASE LiberaPagina
      BY <1>2, NadieNoEsProceso DEF LiberaPagina, liberarFrame_Tabla, Vacio, DeProceso
<1>3. CASE suspender
      BY <1>3 DEF Propiedad, suspender, Toma2N, SuspendePagina, CopiaPagina,
                  SuspendeSinFrame, FinSuspender, LiberaSuspendido, Suspendido, PasoKer
<1>4. CASE CreaTabla \/ Toma2N("exit", "salida") \/ FinExit \/ Pedidos \/ UNCHANGED vars
  <2>1. marco' = marco
        BY <1>4 DEF CreaTabla, Toma2N, FinExit, Pedidos, PidePasarAReady, PideSuspender,
             PideSuspenderTarde, PidePasarAExit, Pide, CpuPide, CpuPideOrigen, vars, memoria
  <2>2. QED
        BY <2>1 DEF DeProceso
<1>5. QED
      BY <1>1, <1>2, <1>3, <1>4 DEF Next, conexionKernel, pasarAExit

LEMMA CupoSigue ==
    ASSUME Tipos, Propiedad, Cupo, MaxSuspensiones = 0, [Next]_vars
    PROVE  Cupo'
<1> SUFFICES ASSUME NEW p \in Pid
             PROVE  Cardinality(DeProceso(p)') <= MARCOS_POR_PROCESO
    BY DEF Cupo
<1>1. ASSUME NEW S, NEW T \in SUBSET Frames, S \subseteq T,
             Cardinality(T) <= MARCOS_POR_PROCESO
      PROVE  Cardinality(S) <= MARCOS_POR_PROCESO
  <2>1. Cardinality(S) <= Cardinality(T) /\ Cardinality(S) \in Nat
        BY <1>1, FramesFinitos, FS_Subset
  <2>2. Cardinality(T) \in Nat
        BY FramesFinitos
  <2>3. QED
        BY <1>1, <2>1, <2>2, MarcosPositivos
<1>2. DeProceso(p) \in SUBSET Frames /\ Cardinality(DeProceso(p)) <= MARCOS_POR_PROCESO
      BY DEF DeProceso, Cupo
<1>3. CASE ~AsignaFrames
      BY <1>1, <1>2, <1>3, SoloAsignaDa
<1>4. CASE AsignaFrames /\ p # pidKer
  <2>1. DeProceso(p)' \subseteq DeProceso(p)
        BY <1>4 DEF AsignaFrames, DeProceso, Tipos, TiposMarco
  <2>2. QED
        BY <1>1, <1>2, <2>1
<1>5. CASE AsignaFrames /\ p = pidKer
  <2>1. DeProceso(p) = {}
        BY <1>5 DEF Propiedad, AsignaFrames, PasoKer
  <2>2. DeProceso(p)' \subseteq ALosQueToca
        BY <1>5, <2>1 DEF AsignaFrames, DeProceso, Tipos, TiposMarco
  <2>3. ALosQueToca \in SUBSET Frames
        BY DEF ALosQueToca
  <2>4. QED
        BY <1>1, <2>2, <2>3, CupoDeLosQueToca
<1>6. QED
      BY <1>3, <1>4, <1>5

LEMMA CupoAlInicio == ASSUME Init PROVE Cupo
<1>1. \A p \in Pid : carga[p] = "nuevo"
      BY DEF Init
<1>2. \A p \in Pid : DeProceso(p) = {}
      BY <1>1, PropiedadAlInicio DEF Propiedad
<1>3. QED
      BY <1>2, FS_EmptySet, MarcosPositivos DEF Cupo

\* Quota: frames are reserved once for each process, at most
\* MARCOS_POR_PROCESO, and no replacement takes one from another process.
THEOREM CupoRespetado == ASSUME MaxSuspensiones = 0 PROVE Spec => []CupoDeMarcos
<1>1. Init => Tipos /\ Propiedad /\ Cupo
      BY TiposAlInicio, PropiedadAlInicio, CupoAlInicio
<1>2. Tipos /\ Propiedad /\ Cupo /\ [Next]_vars => Tipos' /\ Propiedad' /\ Cupo'
      BY PropiedadSigue, TiposSiguen, CupoSigue
<1>3. Cupo => CupoDeMarcos
      BY DEF Cupo, CupoDeMarcos
<1>4. QED
      BY <1>1, <1>2, <1>3, PTL DEF Spec

=============================================================================
