----------------------------- MODULE MemoriaFilas -----------------------------
(***************************************************************************)
(* While one process has tables, rows and frames agree, and under CLOCK a  *)
(* program reads what it wrote, for every size of the process and of the   *)
(* memory, with suspensions and exits.  A process alone has a memory of    *)
(* values: MemoriaAbstracta.  All of it until a SUSPENDER comes late.      *)
(*                                                                         *)
(* The searches by number find the rows of that process; the others have   *)
(* asked for nothing or wait for their first table.                        *)
(***************************************************************************)
EXTENDS MemoriaProofs

Solo(p) == \A i \in DOMAIN orden : orden[i][1] = p

LoPedido ==
    IF pcKer \in {"crea", "asigna"} THEN "entra"
    ELSE IF pcKer \in {"exit", "salida"} THEN "fin" ELSE "suspendido"

\* conexionCPU serves p only while it is loaded, and conexionKernel does not
\* serve it then.
Ocupa(p) ==
    /\ DOMAIN carga = Pid
    /\ pid \in {p, Nadie} /\ (pid = p => carga[p] = "listo")
    /\ pcKer \notin {"libre", "crea"} => pidKer = p
    /\ pcKer # "libre" /\ pidKer = p => carga[p] = LoPedido
    /\ \A q \in Pid \ {p} : carga[q] \in {"nuevo", "entra"}

\* The tables of p, in order.
Creadas(p) ==
    /\ \A i \in DOMAIN orden : orden[i] = <<p, i - 1>>
    /\ IF carga[p] = "nuevo" THEN orden = <<>>
       ELSE IF pidKer = p /\ pcKer = "crea" THEN Len(orden) < CantTablas(p)
       ELSE Len(orden) = CantTablas(p)

\* A row has a frame when its page is present.
FilasBien(p) ==
    /\ \A q \in Pid \ {p} : \A n \in Filas(q) : ~Presente(q, n)
    /\ \A n \in Filas(p) :
        IF Presente(p, n)
        THEN n \in PagAUsar(p) /\ fila[p][n].nroFrame # SinFrame /\ ~Copiando(n)
        ELSE ~Copiando(n) => fila[p][n].nroFrame = SinFrame
    /\ pcKer = "libera" => \A n \in Filas(p) : ~Presente(p, n)

\* What FilaDeNumero finds: the row, or the last of all.
Encontrada(p, n) ==
    IF n \in Filas(p) THEN n ELSE CantTablas(p) * ENTRADAS_POR_TABLA - 1

\* The frame of a row has its page, except that of the page being loaded,
\* whose frame is then of no other row.
Ligadas(p) ==
    /\ \A n \in Filas(p) : Presente(p, n) /\ ~(pcCpu = "marco" /\ n = pagina) =>
        marco[fila[p][n].nroFrame] = [idProceso |-> p, nroPagina |-> n]
    /\ pcCpu \in {"carga", "tablas"} =>
        vieja = <<p, Encontrada(p, marco[frame].nroPagina)>>
    /\ pcCpu = "marco" =>
        \A n \in Filas(p) : Presente(p, n) => (fila[p][n].nroFrame = frame <=> n = pagina)

Reemplazo(p) == Ocupa(p) /\ Creadas(p) /\ FilasBien(p) /\ Ligadas(p)

FilasDeUno == ~Tarde => \A p \in Pid : Solo(p) => Reemplazo(p)

-----------------------------------------------------------------------------
(* The search of a row by its number.                                      *)

LEMMA CantidadDeTablas ==
    ASSUME NEW p \in Pid
    PROVE  /\ CantTablas(p) \in Nat \ {0} /\ ENTRADAS_POR_TABLA \in Nat \ {0}
           /\ CantTablas(p) * ENTRADAS_POR_TABLA - 1 \in Filas(p)
           /\ Filas(p) \subseteq Nat
<1> DEFINE k == Paginas[p]
           e == ENTRADAS_POR_TABLA
           c == (k + e - 1) \div e
<1>1. k \in Nat \ {0} /\ e \in Nat \ {0}
      BY TamaniosPositivos, EntradasPositivas
<1> HIDE DEF k, e
<1>2. c \in Nat \ {0}
      BY <1>1, SMTT(30)
<1> HIDE DEF c
<1>3. c * e - 1 \in 0..(c * e - 1)
      BY <1>1, <1>2, SMTT(30)
<1>4. QED
      BY <1>1, <1>2, <1>3 DEF CantTablas, Filas, k, e, c

LEMMA TablaDeLaFila ==
    ASSUME NEW p \in Pid, NEW n \in Nat \cup {SinPagina}
    PROVE  Tabla(n) + 1 \in 1..CantTablas(p) <=> n \in Filas(p)
<1> DEFINE e == ENTRADAS_POR_TABLA
           c == CantTablas(p)
<1>1. c \in Nat \ {0} /\ e \in Nat \ {0}
      BY CantidadDeTablas
<1>2. n \in Int /\ n >= -1
      BY DEF SinPagina
<1> HIDE DEF c, e
<1>3. n \div e \in Int /\ e * (n \div e) <= n /\ n < e * (n \div e) + e
      BY <1>1, <1>2, SMTT(30)
<1>4. PICK d \in Int : d = n \div e
      BY <1>3
<1>5. 0 <= d <=> 0 <= n
      BY <1>1, <1>2, <1>3, <1>4, SMTT(30)
<1>6. d <= c - 1 <=> n <= c * e - 1
  <2>1. ASSUME d <= c - 1 PROVE n <= c * e - 1
    <3>1. e * d <= e * (c - 1)
          BY <1>1, <1>2, <2>1, SMTT(30)
    <3>2. QED
          BY <1>1, <1>2, <1>3, <1>4, <3>1, SMTT(30)
  <2>2. ASSUME ~(d <= c - 1) PROVE ~(n <= c * e - 1)
    <3>1. e * c <= e * d
          BY <1>1, <1>2, <2>2, SMTT(30)
    <3>2. QED
          BY <1>1, <1>2, <1>3, <1>4, <3>1, SMTT(30)
  <2>3. QED
        BY <2>1, <2>2
<1>7. d + 1 \in 1..c <=> n \in 0..(c * e - 1)
      BY <1>1, <1>2, <1>5, <1>6, SMTT(30)
<1>8. QED
      BY <1>4, <1>7 DEF Tabla, Filas, c, e

LEMMA BuscaFila ==
    ASSUME Tipos, NEW p \in Pid, Creadas(p), Len(orden) = CantTablas(p),
           NEW n \in Nat \cup {SinPagina}
    PROVE  FilaDeNumero(n) = <<p, Encontrada(p, n)>>
<1>1. /\ orden \in Seq(Pid \X Nat) /\ DOMAIN orden = 1..CantTablas(p)
      /\ CantTablas(p) \in Nat \ {0} /\ Tabla(n) \in Int
      /\ \A i \in DOMAIN orden : orden[i] = <<p, i - 1>>
  <2>1. Tabla(n) \in Int
        BY CantidadDeTablas, SMTT(30) DEF Tabla, SinPagina
  <2>2. QED
        BY <2>1, CantidadDeTablas DEF Tipos, TiposKernel, Creadas
<1>2. Indices(n) = IF n \in Filas(p) THEN {Tabla(n) + 1} ELSE {}
  <2>1. \A i \in DOMAIN orden : orden[i][2] = Tabla(n) <=> i = Tabla(n) + 1
        BY <1>1
  <2>2. Indices(n) = {i \in 1..CantTablas(p) : i = Tabla(n) + 1}
        BY <1>1, <2>1 DEF Indices
  <2>3. QED
        BY <1>1, <2>2, TablaDeLaFila
<1>3. CASE n \in Filas(p)
  <2>1. Min(Indices(n)) = Tabla(n) + 1
        BY <1>1, <1>2, <1>3 DEF Min
  <2>2. Tabla(n) + 1 \in DOMAIN orden
        BY <1>1, <1>3, TablaDeLaFila
  <2>3. QED
        BY <1>1, <1>2, <1>3, <2>1, <2>2 DEF FilaDeNumero, Encontrada
<1>4. CASE n \notin Filas(p)
  <2>1. Ultima = <<p, CantTablas(p) - 1>>
        BY <1>1 DEF Ultima
  <2>2. (CantTablas(p) - 1 + 1) * ENTRADAS_POR_TABLA = CantTablas(p) * ENTRADAS_POR_TABLA
    <3>1. CantTablas(p) - 1 + 1 = CantTablas(p)
          BY <1>1
    <3>2. QED
          BY <3>1
  <2>3. QED
        BY <1>2, <1>4, <2>1, <2>2 DEF FilaDeNumero, Encontrada
<1>5. QED
      BY <1>3, <1>4

-----------------------------------------------------------------------------
(* Who is served and which tables there are.                               *)

LEMMA SoloAntes ==
    ASSUME Tipos, NEW p \in Pid, [Next]_vars, Solo(p)'
    PROVE  Solo(p)
<1>1. CASE orden' = orden
      BY <1>1 DEF Solo
<1>2. CASE CreaTabla
  <2>1. orden \in Seq(Pid \X Nat) /\ \E r : orden' = Append(orden, r)
        BY <1>2 DEF CreaTabla, Tipos, TiposKernel
  <2>2. \A i \in DOMAIN orden : i \in DOMAIN orden' /\ orden'[i] = orden[i]
        BY <2>1
  <2>3. QED
        BY <2>2 DEF Solo
<1>3. orden' = orden \/ CreaTabla
  <2>1. CASE conexionCPU
        BY <2>1 DEF conexionCPU, BuscaPagina, Mira, TraduceEnRam, TraduceAusente,
             UsaPagina, LeeFrame, HayFrameLibre, NoHayFrameLibre,
               TomaFrames, GiraVictima, GiraSigue, FinVuelta, BuscaVieja, Carga,
               ActualizaTablas, ActualizaFrames, Marca, accesoMemoriaRead,
               accesoMemoriaCopy, accesoMemoriaWrite, tablas
  <2>2. CASE conexionKernel
        BY <2>2 DEF conexionKernel, AsignaFrames, suspender, pasarAExit, Toma2N,
               SuspendePagina, CopiaPagina, SuspendeSinFrame, FinSuspender,
               LiberaSuspendido, Suspendido, LiberaPagina, FinExit, tablas
  <2>3. CASE Pedidos \/ UNCHANGED vars
        BY <2>3 DEF Pedidos, PidePasarAReady, PideSuspender, PideSuspenderTarde,
               PidePasarAExit, Pide, CpuPide, CpuPideOrigen, tablas, vars
  <2>4. QED
        BY <2>1, <2>2, <2>3 DEF Next
<1>4. QED
      BY <1>1, <1>2, <1>3

\* Late SUSPENDERs are not forgotten.
LEMMA TardeQueda ==
    ASSUME Tipos, [Next]_vars, ~Tarde'
    PROVE  ~Tarde /\ \A p \in Pid : ~PideSuspenderTarde(p)
<1> USE DEF Tipos, TiposPedidos
<1>1. tardes' \in {tardes, tardes + 1}
  <2>1. CASE conexionCPU
        BY <2>1 DEF conexionCPU, BuscaPagina, Mira, TraduceEnRam, TraduceAusente,
             UsaPagina, LeeFrame, HayFrameLibre, NoHayFrameLibre,
             TomaFrames, GiraVictima, GiraSigue, FinVuelta, BuscaVieja, Carga,
             ActualizaTablas, ActualizaFrames, Marca, accesoMemoriaRead,
             accesoMemoriaCopy, accesoMemoriaWrite, externo, pedidas
  <2>2. CASE conexionKernel
        BY <2>2 DEF conexionKernel, CreaTabla, AsignaFrames, suspender, pasarAExit, Toma2N,
             SuspendePagina, CopiaPagina, SuspendeSinFrame, FinSuspender,
             LiberaSuspendido, Suspendido, LiberaPagina, FinExit, externo, pedidas
  <2>3. CASE Pedidos \/ UNCHANGED vars
        BY <2>3 DEF Pedidos, PidePasarAReady, PideSuspender, PideSuspenderTarde,
             PidePasarAExit, CpuPide, CpuPideOrigen, externo, pedidas, vars
  <2>4. QED
        BY <2>1, <2>2, <2>3 DEF Next
<1>2. \A p \in Pid : PideSuspenderTarde(p) => tardes' = tardes + 1
      BY DEF PideSuspenderTarde
<1>3. QED
      BY <1>1, <1>2 DEF Tarde

\* One thread at a time works on p.
LEMMA Turno ==
    ASSUME Tipos, NEW p \in Pid, Ocupa(p)
    PROVE  /\ pcCpu # "libre" => /\ pid = p /\ carga[p] = "listo" /\ pcKer \in {"libre", "crea"}
                                 /\ pagina \in PagAUsar(p) /\ pagina \in Filas(p)
           /\ pcKer \notin {"libre", "crea"} => /\ pidKer = p /\ pcCpu = "libre" /\ pid # p
           /\ pcKer # "libre" /\ pidKer = p => pcCpu = "libre"
<1>1. pcCpu # "libre" => pid = p /\ carga[p] = "listo" /\ pagina \in PagAUsar(p)
      BY NadieNoEsProceso DEF Tipos, TiposCpu, Ocupa, LoPedido
<1>2. pagina \in PagAUsar(p) => pagina \in Filas(p)
      BY PaginaConFila
<1>3. pcKer # "libre" /\ pidKer = p => carga[p] # "listo" /\ pid # p
      BY DEF Ocupa, LoPedido
<1>4. pcKer \notin {"libre", "crea"} => pidKer = p
      BY DEF Ocupa, LoPedido
<1>5. pcKer \in {"libre", "crea"} \/ pcKer \notin {"libre", "crea"}
      OBVIOUS
<1>6. QED
      BY <1>1, <1>2, <1>3, <1>4, <1>5

Control(p) == Ocupa(p) /\ Creadas(p)

LEMMA ControlEnCPU ==
    ASSUME Tipos, NEW p \in Pid, Control(p), conexionCPU
    PROVE  Control(p)' /\ UNCHANGED <<orden, carga, pcKer, pidKer, paginaKer, aLiberar>>
<1>1. UNCHANGED <<orden, carga, kernel>> /\ pid' \in {pid, Nadie}
      BY DEF conexionCPU, BuscaPagina, Mira, TraduceEnRam, TraduceAusente,
             UsaPagina, LeeFrame, HayFrameLibre, NoHayFrameLibre,
             TomaFrames, GiraVictima, GiraSigue, FinVuelta, BuscaVieja, Carga,
             ActualizaTablas, ActualizaFrames, Marca, accesoMemoriaRead,
             accesoMemoriaCopy, accesoMemoriaWrite, externo, tablas
<1>2. QED
      BY <1>1, NadieNoEsProceso DEF Control, Ocupa, LoPedido, Creadas, kernel

LEMMA ControlEnCrea ==
    ASSUME Tipos, NEW p \in Pid, Solo(p), Solo(p)', Control(p), CreaTabla
    PROVE  Control(p)' /\ pidKer = p
<1> DEFINE k == Cardinality(TablasDe(pidKer))
           n == Len(orden)
<1>1. /\ orden \in Seq(Pid \X Nat) /\ n \in Nat /\ pcKer = "crea" /\ pidKer \in Pid
      /\ orden' = Append(orden, <<pidKer, k>>)
      /\ pcKer' = IF k + 1 = CantTablas(pidKer) THEN "asigna" ELSE "crea"
      /\ UNCHANGED <<pidKer, pid, carga>>
      BY DEF CreaTabla, PasoKer, Tipos, TiposKernel, cpu, externo
<1>2. DOMAIN orden' = 1..(n + 1) /\ orden'[n + 1] = <<pidKer, k>>
      /\ Len(orden') = n + 1 /\ DOMAIN orden = 1..n
      /\ \A i \in 1..n : orden'[i] = orden[i]
      BY <1>1
<1>3. pidKer = p
      BY <1>1, <1>2 DEF Solo
<1>4. k = n
  <2>1. TablasDe(pidKer) = 1..n
        BY <1>2, <1>3 DEF TablasDe, Solo
  <2>2. n \in Nat => Cardinality(1..n) = n
    <3> HIDE DEF n
    <3>1. n \in Nat => Cardinality(1..n) = IF 1 > n THEN 0 ELSE n - 1 + 1
          BY FS_Interval
    <3>2. QED
          BY <3>1
  <2>3. QED
        BY <1>1, <2>1, <2>2
<1>5. n < CantTablas(p) /\ CantTablas(p) \in Nat
      BY <1>1, <1>3, CantidadDeTablas DEF Control, Creadas, Ocupa, LoPedido
<1>6. \A i \in 1..(n + 1) : orden'[i] = <<p, i - 1>>
  <2>1. orden'[n + 1] = <<p, n + 1 - 1>>
        BY <1>1, <1>2, <1>3, <1>4
  <2>2. \A i \in 1..n : orden'[i] = <<p, i - 1>>
        BY <1>2 DEF Control, Creadas
  <2>3. QED
        BY <1>1, <2>1, <2>2
<1>7. carga[p] \notin {"nuevo", "listo"}
      BY <1>1, <1>3 DEF Control, Ocupa, LoPedido
<1> HIDE DEF k, n
<1>8. IF n + 1 = CantTablas(p) THEN pcKer' = "asigna" ELSE pcKer' = "crea" /\ n + 1 < CantTablas(p)
      BY <1>1, <1>3, <1>4, <1>5
<1>9. Creadas(p)'
      BY <1>1, <1>2, <1>3, <1>6, <1>7, <1>8 DEF Creadas
<1>10. Ocupa(p)'
      BY <1>1, <1>3, <1>7 DEF Control, Ocupa, LoPedido
<1>11. QED
      BY <1>3, <1>9, <1>10 DEF Control

LEMMA ControlEnKernel ==
    ASSUME Tipos, NEW p \in Pid, Solo(p), Solo(p)', Control(p), conexionKernel
    PROVE  Control(p)' /\ pidKer = p /\ pcCpu = "libre"
<1>1. CASE CreaTabla
      BY <1>1, ControlEnCrea, Turno DEF Control, CreaTabla, PasoKer
<1>2. CASE AsignaFrames
  <2>1. /\ pcKer = "asigna" /\ pcKer' = "libre" /\ pidKer' = Nadie
        /\ carga' = [carga EXCEPT ![pidKer] = "listo"] /\ UNCHANGED <<orden, pid>>
        BY <1>2 DEF AsignaFrames, PasoKer, tablas, cpu
  <2>2. pidKer = p /\ pcCpu = "libre" /\ pid # p
        BY <2>1, Turno DEF Control
  <2>3. Creadas(p)'
        BY <2>1, <2>2 DEF Control, Creadas, Ocupa, LoPedido
  <2>4. Ocupa(p)'
        BY <2>1, <2>2, NadieNoEsProceso DEF Control, Ocupa, LoPedido
  <2>5. QED
        BY <2>2, <2>3, <2>4 DEF Control
<1>3. CASE suspender \/ pasarAExit
  <2>1. /\ pcKer \notin {"libre", "crea"} /\ UNCHANGED <<orden, carga, pid>>
        /\ \/ pcKer' \notin {"libre", "crea"} /\ pidKer' = pidKer /\ LoPedido' = LoPedido
           \/ pcKer' = "libre" /\ pidKer' = Nadie
        BY <1>3 DEF LoPedido, suspender, pasarAExit, Toma2N, SuspendePagina, CopiaPagina,
               SuspendeSinFrame, FinSuspender, LiberaSuspendido, Suspendido, LiberaPagina,
               FinExit, PasoKer, tablas, cpu, externo
  <2>2. pidKer = p /\ pcCpu = "libre" /\ pid # p
        BY <2>1, Turno DEF Control
  <2>3. QED
        BY <2>1, <2>2, NadieNoEsProceso DEF Control, Ocupa, Creadas
<1>4. QED
      BY <1>1, <1>2, <1>3 DEF conexionKernel

LEMMA ControlEnPedido ==
    ASSUME Tipos, NEW p \in Pid, Solo(p), Control(p), Pedidos, ~Tarde,
           \A q \in Pid : ~PideSuspenderTarde(q)
    PROVE  Control(p)' /\ UNCHANGED <<orden, fila, marco, ram, swap, ultimo>>
           /\ (pcCpu' = pcCpu \/ pcCpu' = "traduce")
           /\ (pcKer' = pcKer \/ pcKer' \in {"crea", "asigna", "suspende", "exit"})
<1> USE DEF Control
<1>1. CASE \E q \in Pid : \E n \in PagAUsar(q) : CpuPide(q, n)
  <2>1. PICK q \in Pid : /\ carga[q] = "listo" /\ pid' = q /\ pcCpu' = "traduce"
                         /\ UNCHANGED <<tablas, memoria, kernel, externo>>
        BY <1>1 DEF CpuPide, PasoCpu
  <2>2. q = p
        BY <2>1 DEF Ocupa, LoPedido
  <2>3. QED
        BY <2>1, <2>2 DEF Ocupa, LoPedido, Creadas, tablas, memoria, kernel, externo
<1>2. CASE \E q \in Pid : pid = q /\ \E n \in PagAUsar(q) : CpuPideOrigen(n)
  <2>1. pcCpu' = "traduce" /\ UNCHANGED <<tablas, memoria, pid, kernel, externo>>
        BY <1>2 DEF CpuPideOrigen, PasoCpu
  <2>2. QED
        BY <2>1 DEF Ocupa, LoPedido, Creadas, tablas, memoria, kernel, externo
<1>3. ASSUME NEW q \in Pid, PideSuspender(q) \/ PidePasarAExit(q)
      PROVE  Control(p)' /\ UNCHANGED <<orden, fila, marco, ram, swap, ultimo, pcCpu>>
             /\ pcKer' \in {"suspende", "exit"}
  <2>1. /\ carga[q] = "listo" /\ pcKer = "libre" /\ pid # q
        /\ pcKer' \in {"suspende", "exit"} /\ pidKer' = q
        /\ carga' = [carga EXCEPT ![q] = IF pcKer' = "exit" THEN "fin" ELSE "suspendido"]
        /\ UNCHANGED <<tablas, memoria, cpu, ultimo>>
        BY <1>3 DEF PideSuspender, PidePasarAExit, Pide, PasoKer
  <2>2. q = p
        BY <2>1 DEF Ocupa, LoPedido
  <2>3. /\ carga'[p] = IF pcKer' = "exit" THEN "fin" ELSE "suspendido"
        /\ DOMAIN carga' = Pid /\ \A r \in Pid \ {p} : carga'[r] = carga[r]
        BY <2>1, <2>2 DEF Ocupa
  <2>4. QED
        BY <2>1, <2>2, <2>3 DEF Ocupa, LoPedido, Creadas, tablas, memoria, cpu
<1>4. ASSUME NEW q \in Pid, PidePasarAReady(q)
      PROVE  Control(p)' /\ UNCHANGED <<orden, fila, marco, ram, swap, ultimo, pcCpu>>
             /\ pcKer' \in {"crea", "asigna"}
  <2>1. /\ carga[q] \in {"nuevo", "suspendido"} /\ pcKer = "libre" /\ pid # q
        /\ pcKer' = IF TablasDe(q) = {} THEN "crea" ELSE "asigna"
        /\ pidKer' = q /\ carga' = [carga EXCEPT ![q] = "entra"]
        /\ UNCHANGED <<tablas, memoria, cpu, ultimo>>
        BY <1>4 DEF PidePasarAReady, Fuera, Pide, PasoKer
  <2>2. CASE q # p
    <3>1. TablasDe(q) = {}
          BY <2>2 DEF TablasDe, Solo
    <3>2. QED
          BY <2>1, <2>2, <3>1 DEF Ocupa, LoPedido, Creadas, tablas, memoria, cpu
  <2>3. CASE q = p
    <3>1. CantTablas(p) \in Nat \ {0}
          BY CantidadDeTablas
    <3>2. IF carga[p] = "nuevo" THEN orden = <<>> ELSE Len(orden) = CantTablas(p)
          BY <2>1 DEF Creadas
    <3>3. TablasDe(q) = {} <=> carga[p] = "nuevo"
      <4>1. CASE carga[p] = "nuevo"
            BY <3>2, <4>1 DEF TablasDe
      <4>2. CASE carga[p] # "nuevo"
        <5>1. 1 \in DOMAIN orden
              BY <3>1, <3>2, <4>2 DEF Tipos, TiposKernel
        <5>2. 1 \in TablasDe(p)
              BY <5>1 DEF TablasDe, Solo
        <5>3. QED
              BY <2>3, <4>2, <5>2
      <4>3. QED
            BY <4>1, <4>2
    <3>4. carga'[p] \in {"entra", carga[p]} /\ \A r \in Pid \ {p} : carga'[r] = carga[r]
          BY <2>1, <2>3
    <3>5. Ocupa(p)'
          BY <2>1, <2>3 DEF Ocupa, LoPedido, cpu
    <3>6. Creadas(p)'
      <4>1. CASE carga[p] = "nuevo"
        <5>1. orden' = <<>> /\ pcKer' = "crea" /\ pidKer' = p
              BY <2>1, <2>3, <3>2, <3>3, <4>1 DEF tablas
        <5>2. Len(orden') < CantTablas(p) /\ \A i \in DOMAIN orden' : orden'[i] = <<p, i - 1>>
              BY <3>1, <5>1
        <5>3. carga'[p] = "nuevo" => orden' = <<>>
              BY <5>1
        <5>4. QED
              BY <5>1, <5>2, <5>3 DEF Creadas
      <4>2. CASE carga[p] # "nuevo"
            BY <2>1, <2>3, <3>2, <3>3, <3>4, <4>2 DEF Creadas, tablas
      <4>3. QED
            BY <4>1, <4>2
    <3>7. QED
          BY <2>1, <3>5, <3>6 DEF tablas, memoria, cpu
  <2>4. QED
        BY <2>2, <2>3
<1>5. QED
      BY <1>1, <1>2, <1>3, <1>4 DEF Pedidos


-----------------------------------------------------------------------------
(* Rows: which pages are present and where.                                *)

MismoLugar(t, u) ==
    \A q \in Pid : \A n \in Filas(q) :
        u[q][n].presencia = t[q][n].presencia /\ u[q][n].nroFrame = t[q][n].nroFrame

CambiaUna(t, u, p, n, v) ==
    \A q \in Pid : \A m \in Filas(q) : u[q][m] = IF q = p /\ m = n THEN v ELSE t[q][m]

LEMMA CambioDeFila ==
    ASSUME NEW t, EsTabla(t), NEW p, NEW n, NEW v
    PROVE  CambiaUna(t, [t EXCEPT ![p][n] = v], p, n, v)
BY DEF EsTabla, CambiaUna

LEMMA MismoLugarQuieto == \A t : MismoLugar(t, t)
BY DEF MismoLugar

LEMMA CambioQuieto ==
    ASSUME NEW t, EsTabla(t), NEW p, NEW n, NEW v,
           p \in Pid /\ n \in Filas(p) =>
                v.presencia = t[p][n].presencia /\ v.nroFrame = t[p][n].nroFrame
    PROVE  MismoLugar(t, [t EXCEPT ![p][n] = v])
<1> DEFINE u == [t EXCEPT ![p][n] = v]
<1>1. u = [t EXCEPT ![p][n] = v]
      OBVIOUS
<1> HIDE DEF u
<1>2. CambiaUna(t, u, p, n, v)
      BY <1>1, CambioDeFila
<1>3. MismoLugar(t, u)
      BY <1>2 DEF MismoLugar, CambiaUna
<1>4. QED
      BY <1>3 DEF u

\* The bits of use and modification.
LEMMA FilaQuieta ==
    ASSUME NEW r \in TipoFila, NEW c,
           NEW v \in {[r EXCEPT !.uso = 0], Usada(r), Marcada(r, c),
                      [r EXCEPT !.modificado = 0], [r EXCEPT !.modificado = 1]}
    PROVE  v.presencia = r.presencia /\ v.nroFrame = r.nroFrame
BY DEF TipoFila, Usada, Marcada

LEMMA LugarEnMarca ==
    ASSUME EsTabla(fila), Marca
    PROVE  MismoLugar(fila, fila')
<1>1. \A f, m : MismoLugar(fila, MarcaBits(f, m))
  <2> SUFFICES ASSUME NEW f, NEW m PROVE MismoLugar(fila, MarcaBits(f, m))
        OBVIOUS
  <2> DEFINE r == FilaDeFrame(f)
             v == Marcada(fila[r[1]][r[2]], m)
  <2>1. MarcaBits(f, m) = fila \/ MarcaBits(f, m) = [fila EXCEPT ![r[1]][r[2]] = v]
        BY DEF MarcaBits
  <2>2. r[1] \in Pid /\ r[2] \in Filas(r[1]) =>
            /\ v.presencia = fila[r[1]][r[2]].presencia
            /\ v.nroFrame = fila[r[1]][r[2]].nroFrame
        BY FilaTipada, FilaQuieta
  <2> HIDE DEF v, r
  <2>3. MismoLugar(fila, [fila EXCEPT ![r[1]][r[2]] = v]) /\ MismoLugar(fila, fila)
        BY <2>2, CambioQuieto, MismoLugarQuieto
  <2>4. QED
        BY <2>1, <2>3
<1>2. \A f : MismoLugar(fila, MarcaCopia(f))
  <2> SUFFICES ASSUME NEW f, NEW q \in Pid, NEW n \in Filas(q)
               PROVE  /\ MarcaCopia(f)[q][n].presencia = fila[q][n].presencia
                      /\ MarcaCopia(f)[q][n].nroFrame = fila[q][n].nroFrame
        BY DEF MismoLugar
  <2>1. MarcaCopia(f)[q][n] \in {fila[q][n], [fila[q][n] EXCEPT !.modificado = 1]}
        BY DEF MarcaCopia
  <2>2. QED
        BY <2>1, FilaTipada, FilaQuieta
<1>3. fila' = fila \/ (\E f, m : fila' = MarcaBits(f, m)) \/ \E f : fila' = MarcaCopia(f)
      BY DEF Marca
<1>4. QED
      BY <1>1, <1>2, <1>3 DEF MismoLugar

LEMMA LugarEnCPU ==
    ASSUME Tipos, conexionCPU, ~ActualizaTablas
    PROVE  MismoLugar(fila, fila')
<1> USE DEF Tipos
<1>1. CASE UsaPagina
  <2> DEFINE v == Usada(fila[pid][pagina])
  <2>1. fila' = [fila EXCEPT ![pid][pagina] = v]
        BY <1>1 DEF UsaPagina
  <2>2. pid \in Pid /\ pagina \in Filas(pid) =>
            /\ v.presencia = fila[pid][pagina].presencia
            /\ v.nroFrame = fila[pid][pagina].nroFrame
        BY FilaTipada, FilaQuieta
  <2> HIDE DEF v
  <2>3. QED
        BY <2>1, <2>2, CambioQuieto
<1>2. CASE GiraSigue
  <2> DEFINE k == NroPagina
             p == FilaDeNumero(k)[1]
             v == [fila[p][k] EXCEPT !.uso = 0]
  <2>1. fila' = fila \/ fila' = [fila EXCEPT ![p][k] = v]
        BY <1>2 DEF GiraSigue, SinUso
  <2>2. p \in Pid /\ k \in Filas(p) =>
            v.presencia = fila[p][k].presencia /\ v.nroFrame = fila[p][k].nroFrame
        BY FilaTipada, FilaQuieta
  <2> HIDE DEF v, p, k
  <2>3. MismoLugar(fila, [fila EXCEPT ![p][k] = v]) /\ MismoLugar(fila, fila)
        BY <2>2, CambioQuieto, MismoLugarQuieto
  <2>4. QED
        BY <2>1, <2>3
<1>3. CASE Marca
      BY <1>3, LugarEnMarca
<1>4. CASE ~(UsaPagina \/ GiraSigue \/ Marca)
  <2>1. fila' = fila
        BY <1>4 DEF conexionCPU, BuscaPagina, Mira, TraduceEnRam, TraduceAusente,
             LeeFrame, HayFrameLibre, NoHayFrameLibre,
             TomaFrames, GiraVictima, FinVuelta, BuscaVieja, Carga, ActualizaFrames,
             accesoMemoriaRead, accesoMemoriaCopy, accesoMemoriaWrite, tablas
  <2>2. QED
        BY <2>1 DEF MismoLugar
<1>5. QED
      BY <1>1, <1>2, <1>3, <1>4

LEMMA Completas ==
    ASSUME Tipos, NEW p \in Pid, Control(p), pcCpu # "libre"
    PROVE  Len(orden) = CantTablas(p)
BY Turno DEF Control, Creadas

LEMMA EncontradaEnFilas ==
    ASSUME NEW p \in Pid, NEW n
    PROVE  Encontrada(p, n) \in Filas(p)
BY CantidadDeTablas DEF Encontrada

\* ActualizaTablas: the old row loses its frame and the new one gets it.
LEMMA LugarEnActualiza ==
    ASSUME Tipos, NEW p \in Pid, Control(p), Ligadas(p), ActualizaTablas
    PROVE  /\ vieja = <<p, vieja[2]>> /\ vieja[2] \in Filas(p)
           /\ pid = p /\ pagina \in Filas(p) /\ frame \in Frames
           /\ \A q \in Pid : \A n \in Filas(q) :
                /\ fila'[q][n].presencia =
                    IF q = p /\ n = vieja[2] THEN 0
                    ELSE IF q = p /\ n = pagina THEN 1 ELSE fila[q][n].presencia
                /\ fila'[q][n].nroFrame =
                    IF q = p /\ n = vieja[2] THEN SinFrame
                    ELSE IF q = p /\ n = pagina THEN frame ELSE fila[q][n].nroFrame
<1> DEFINE m == vieja[2]
           w == [nroFrame |-> frame, presencia |-> 1, uso |-> 1, modificado |-> 0]
           media == SinPresencia(Nueva, m)
           v1 == [Nueva[p][m] EXCEPT !.presencia = 0, !.nroFrame = SinFrame]
           v2 == [media[p][m] EXCEPT !.modificado = 0]
<1>1. pcCpu = "tablas" /\ fila' = SinModificar(media, vieja) /\ frame \in Frames
      BY DEF ActualizaTablas, PasoCpu, Tipos, TiposCpu, Cargando
<1>2. pid = p /\ pagina \in Filas(p)
      BY <1>1, Turno DEF Control
<1>3. vieja = <<p, m>> /\ m \in Filas(p)
      BY <1>1, EncontradaEnFilas DEF Ligadas
<1>4. FilaDeNumero(m) = <<p, m>>
  <2>1. m \in Nat
        BY <1>3, CantidadDeTablas
  <2> HIDE DEF m
  <2>2. FilaDeNumero(m) = <<p, Encontrada(p, m)>>
        BY <1>1, <2>1, BuscaFila, Completas DEF Control
  <2>3. QED
        BY <1>3, <2>2 DEF Encontrada
<1>5. EsTabla(Nueva) /\ w \in TipoFila
      BY <1>1, ActualizaTabla DEF Tipos, TipoFila, Bits
<1>6. CambiaUna(fila, Nueva, p, pagina, w)
  <2>1. Nueva = [fila EXCEPT ![p][pagina] = w]
        BY <1>2 DEF Nueva
  <2> HIDE DEF w
  <2>2. QED
        BY <2>1, CambioDeFila DEF Tipos
<1>7. media = [Nueva EXCEPT ![p][m] = v1]
      BY <1>4 DEF SinPresencia
<1>8. Nueva[p][m] \in TipoFila
      BY <1>3, <1>5, FilaTipada
<1> HIDE DEF w
<1>9. v1 \in TipoFila /\ v1.presencia = 0 /\ v1.nroFrame = SinFrame
  <2>1. \A r \in TipoFila : LET v == [r EXCEPT !.presencia = 0, !.nroFrame = SinFrame]
                           IN v \in TipoFila /\ v.presencia = 0 /\ v.nroFrame = SinFrame
        BY DEF TipoFila, Bits
  <2>2. QED
        BY <1>8, <2>1
<1> HIDE DEF v1, media
<1>10. EsTabla(media)
  <2>1. EsTabla([Nueva EXCEPT ![p][m] = v1])
        BY <1>5, <1>9, TablaEscrita
  <2>2. QED
        BY <1>7, <2>1
<1>11. CambiaUna(Nueva, media, p, m, v1)
      BY <1>5, <1>7, CambioDeFila
<1>12. MismoLugar(media, fila')
  <2>1. fila' = media \/ fila' = [media EXCEPT ![p][m] = v2]
    <3>1. fila' = media \/ fila' = [media EXCEPT ![vieja[1]][vieja[2]].modificado = 0]
          BY <1>1 DEF SinModificar
    <3>2. vieja[1] = p
          BY <1>3
    <3>3. QED
          BY <3>1, <3>2
  <2>2. media[p][m] \in TipoFila
        BY <1>3, <1>10, FilaTipada
  <2>3. v2.presencia = media[p][m].presencia /\ v2.nroFrame = media[p][m].nroFrame
        BY <2>2, FilaQuieta
  <2> HIDE DEF v2
  <2>4. MismoLugar(media, [media EXCEPT ![p][m] = v2])
        BY <1>10, <2>3, CambioQuieto
  <2>5. QED
        BY <2>1, <2>4 DEF MismoLugar
<1>13. w.presencia = 1 /\ w.nroFrame = frame
      BY DEF w
<1> HIDE DEF m
<1>14. \A q \in Pid : \A n \in Filas(q) :
          /\ fila'[q][n].presencia =
                IF q = p /\ n = m THEN 0
                ELSE IF q = p /\ n = pagina THEN 1 ELSE fila[q][n].presencia
          /\ fila'[q][n].nroFrame =
                IF q = p /\ n = m THEN SinFrame
                ELSE IF q = p /\ n = pagina THEN frame ELSE fila[q][n].nroFrame
  <2> SUFFICES ASSUME NEW q \in Pid, NEW n \in Filas(q)
               PROVE  /\ fila'[q][n].presencia =
                            IF q = p /\ n = m THEN 0
                            ELSE IF q = p /\ n = pagina THEN 1 ELSE fila[q][n].presencia
                      /\ fila'[q][n].nroFrame =
                            IF q = p /\ n = m THEN SinFrame
                            ELSE IF q = p /\ n = pagina THEN frame ELSE fila[q][n].nroFrame
        OBVIOUS
  <2>1. /\ fila'[q][n].presencia = media[q][n].presencia
        /\ fila'[q][n].nroFrame = media[q][n].nroFrame
        BY <1>12 DEF MismoLugar
  <2>2. CASE q = p /\ n = m
        BY <1>9, <1>11, <2>1, <2>2 DEF CambiaUna
  <2>3. CASE ~(q = p /\ n = m)
        BY <1>6, <1>11, <1>13, <2>1, <2>3 DEF CambiaUna
  <2>4. QED
        BY <2>2, <2>3
<1>15. QED
      BY <1>1, <1>2, <1>3, <1>14 DEF m


-----------------------------------------------------------------------------
(* Rows and frames: conexionCPU.                                           *)

LEMMA FilasBienQuietas ==
    ASSUME NEW p \in Pid, FilasBien(p), MismoLugar(fila, fila'),
           \A n \in Filas(p) : Copiando(n)' <=> Copiando(n),
           pcKer' = "libera" => pcKer = "libera"
    PROVE  FilasBien(p)'
BY DEF FilasBien, Presente, MismoLugar

LEMMA LigadasQuietas ==
    ASSUME NEW p \in Pid, Ligadas(p), MismoLugar(fila, fila'), marco' = marco,
           pcCpu' = "marco" <=> pcCpu = "marco",
           pcCpu = "marco" => frame' = frame /\ pagina' = pagina,
           pcCpu' \in {"carga", "tablas"} =>
                pcCpu \in {"carga", "tablas"} /\ vieja' = vieja /\ frame' = frame
    PROVE  Ligadas(p)'
<1>1. ASSUME NEW n \in Filas(p)
      PROVE  (Presente(p, n)' <=> Presente(p, n)) /\ fila'[p][n].nroFrame = fila[p][n].nroFrame
      BY DEF Presente, MismoLugar
<1>2. \A n \in Filas(p) : (Presente(p, n) /\ ~(pcCpu = "marco" /\ n = pagina) =>
        marco[fila[p][n].nroFrame] = [idProceso |-> p, nroPagina |-> n])'
      BY <1>1 DEF Ligadas
<1>3. (pcCpu \in {"carga", "tablas"} => vieja = <<p, Encontrada(p, marco[frame].nroPagina)>>)'
  <2>1. pcCpu' \in {"carga", "tablas"} =>
            vieja' = <<p, Encontrada(p, marco'[frame'].nroPagina)>>
        BY DEF Ligadas
  <2>2. QED
        BY <2>1 DEF Encontrada
<1>4. (pcCpu = "marco" =>
        \A n \in Filas(p) : Presente(p, n) => (fila[p][n].nroFrame = frame <=> n = pagina))'
      BY <1>1 DEF Ligadas
<1>5. QED
      BY <1>2, <1>3, <1>4 DEF Ligadas

LEMMA FilaPresente ==
    ASSUME Tipos, NEW p \in Pid, Reemplazo(p), NEW n \in Filas(p), Presente(p, n)
    PROVE  /\ fila[p][n].nroFrame \in Frames /\ n \in PagAUsar(p) /\ n # SinPagina
           /\ ~(pcCpu = "marco" /\ n = pagina) =>
                marco[fila[p][n].nroFrame] = [idProceso |-> p, nroPagina |-> n]
<1>1. fila[p][n].nroFrame \in Frames \cup {SinFrame}
      BY FrameDeFilaTipado DEF Tipos
<1>2. n \in Nat
      BY CantidadDeTablas
<1>3. QED
      BY <1>1, <1>2 DEF Reemplazo, FilasBien, Ligadas, SinPagina

LEMMA FilasEnActualiza ==
    ASSUME Tipos, NEW p \in Pid, Reemplazo(p), ActualizaTablas
    PROVE  FilasBien(p)' /\ Ligadas(p)'
<1> DEFINE m == vieja[2]
<1>1. /\ pcCpu = "tablas" /\ pcCpu' = "marco"
      /\ UNCHANGED <<marco, pagina, frame, pcKer, paginaKer>>
      BY DEF ActualizaTablas, PasoCpu, memoria, kernel
<1>2. Control(p) /\ pcKer \in {"libre", "crea"} /\ pagina \in PagAUsar(p)
      BY <1>1, Turno DEF Reemplazo, Control
<1>3. vieja = <<p, Encontrada(p, marco[frame].nroPagina)>>
      BY <1>1 DEF Reemplazo, Ligadas
<1>4. /\ m \in Filas(p) /\ pagina \in Filas(p) /\ frame \in Frames
      /\ \A q \in Pid : \A n \in Filas(q) :
            /\ fila'[q][n].presencia =
                IF q = p /\ n = m THEN 0
                ELSE IF q = p /\ n = pagina THEN 1 ELSE fila[q][n].presencia
            /\ fila'[q][n].nroFrame =
                IF q = p /\ n = m THEN SinFrame
                ELSE IF q = p /\ n = pagina THEN frame ELSE fila[q][n].nroFrame
      BY <1>2, LugarEnActualiza DEF Reemplazo
<1>5. \A n : ~Copiando(n) /\ ~Copiando(n)'
      BY <1>1, <1>2 DEF Copiando
<1>6. FilasBien(p)'
  <2>1. \A q \in Pid \ {p} : \A n \in Filas(q) : ~Presente(q, n)'
        BY <1>4 DEF Reemplazo, FilasBien, Presente
  <2>2. ASSUME NEW n \in Filas(p)
        PROVE  IF Presente(p, n)' THEN n \in PagAUsar(p) /\ fila'[p][n].nroFrame # SinFrame
               ELSE fila'[p][n].nroFrame = SinFrame
    <3>1. IF Presente(p, n) THEN n \in PagAUsar(p) /\ fila[p][n].nroFrame # SinFrame
          ELSE fila[p][n].nroFrame = SinFrame
          BY <1>5 DEF Reemplazo, FilasBien
    <3>2. frame # SinFrame
          BY <1>4, FramesNaturales
    <3>3. QED
          BY <1>2, <1>4, <3>1, <3>2 DEF Presente
  <2>3. QED
        BY <1>1, <1>2, <1>5, <2>1, <2>2 DEF FilasBien
<1>7. ASSUME NEW n \in Filas(p), Presente(p, n)', n # pagina
      PROVE  /\ marco'[fila'[p][n].nroFrame] = [idProceso |-> p, nroPagina |-> n]
             /\ fila'[p][n].nroFrame # frame
  <2>1. n # m /\ Presente(p, n) /\ fila'[p][n].nroFrame = fila[p][n].nroFrame
        BY <1>4, <1>7 DEF Presente
  <2>2. marco[fila[p][n].nroFrame] = [idProceso |-> p, nroPagina |-> n]
        BY <1>1, <2>1, FilaPresente
  <2>3. fila[p][n].nroFrame = frame => m = n
        BY <1>3, <2>2 DEF Encontrada
  <2>4. QED
        BY <1>1, <2>1, <2>2, <2>3
<1>8. ASSUME Presente(p, pagina)' PROVE fila'[p][pagina].nroFrame = frame
  <2>1. /\ fila'[p][pagina].presencia = IF pagina = m THEN 0 ELSE 1
        /\ fila'[p][pagina].nroFrame = IF pagina = m THEN SinFrame ELSE frame
    <3> HIDE DEF m
    <3>1. QED
          BY <1>4
  <2>2. fila'[p][pagina].presencia = 1
        BY <1>1, <1>8 DEF Presente
  <2> HIDE DEF m
  <2>3. QED
        BY <2>1, <2>2
<1>9. Ligadas(p)'
      BY <1>1, <1>7, <1>8 DEF Ligadas
<1>10. QED
      BY <1>6, <1>9

LEMMA FilasEnCPUSolas ==
    ASSUME Tipos, NEW p \in Pid, Reemplazo(p), conexionCPU
    PROVE  FilasBien(p)' /\ Ligadas(p)'
<1>1. CASE ActualizaTablas
      BY <1>1, FilasEnActualiza
<1>2. ASSUME ~ActualizaTablas
      PROVE  MismoLugar(fila, fila') /\ FilasBien(p)'
  <2>1. UNCHANGED <<pcKer, paginaKer>>
        BY ControlEnCPU DEF Reemplazo, Control
  <2>2. QED
        BY <1>2, <2>1, LugarEnCPU, FilasBienQuietas DEF Reemplazo, Copiando
<1>3. CASE BuscaVieja
  <2>1. /\ pcCpu = "vieja" /\ pcCpu' = "carga" /\ UNCHANGED <<fila, marco, frame>>
        /\ vieja' = FilaDeNumero(marco[frame].nroPagina)
        BY <1>3 DEF BuscaVieja, PasoCpu, tablas, memoria
  <2>2. frame \in Frames /\ marco[frame].nroPagina \in Nat \cup {SinPagina}
        BY <2>1 DEF Tipos, TiposCpu, TiposMarco, Cargando
  <2>3. FilaDeNumero(marco[frame].nroPagina) = <<p, Encontrada(p, marco[frame].nroPagina)>>
    <3> DEFINE k == marco[frame].nroPagina
    <3>1. k \in Nat \cup {SinPagina} /\ Creadas(p) /\ Len(orden) = CantTablas(p)
          BY <2>1, <2>2, Completas DEF Reemplazo, Control
    <3> HIDE DEF k
    <3>2. FilaDeNumero(k) = <<p, Encontrada(p, k)>>
          BY <3>1, BuscaFila
    <3>3. QED
          BY <3>2 DEF k
  <2>4. vieja' = <<p, Encontrada(p, marco'[frame'].nroPagina)>>
        BY <2>1, <2>3
  <2>5. \A n \in Filas(p) : Presente(p, n)' =>
            marco'[fila'[p][n].nroFrame] = [idProceso |-> p, nroPagina |-> n]
        BY <2>1 DEF Reemplazo, Ligadas, Presente
  <2>6. QED
        BY <1>2, <1>3, <2>1, <2>4, <2>5 DEF Ligadas, Encontrada, BuscaVieja, ActualizaTablas, PasoCpu
<1>4. CASE ActualizaFrames
  <2>1. /\ pcCpu = "marco" /\ pcCpu' = "accede" /\ UNCHANGED fila
        /\ marco' = [marco EXCEPT ![frame] = [idProceso |-> pid, nroPagina |-> pagina]]
        BY <1>4 DEF ActualizaFrames, PasoCpu, tablas
  <2>2. pid = p /\ pagina \in Filas(p) /\ frame \in Frames
        BY <2>1, Turno DEF Reemplazo, Control, Tipos, TiposCpu, Cargando
  <2>3. ASSUME NEW n \in Filas(p), Presente(p, n)'
        PROVE  marco'[fila'[p][n].nroFrame] = [idProceso |-> p, nroPagina |-> n]
    <3>1. Presente(p, n) /\ (fila[p][n].nroFrame = frame <=> n = pagina)
          BY <2>1, <2>3 DEF Reemplazo, Ligadas, Presente
    <3>2. CASE n = pagina
          BY <2>1, <2>2, <3>1, <3>2 DEF Tipos, TiposMarco
    <3>3. CASE n # pagina
      <4>1. /\ fila[p][n].nroFrame \in Frames
            /\ marco[fila[p][n].nroFrame] = [idProceso |-> p, nroPagina |-> n]
            BY <3>1, <3>3, FilaPresente
      <4>2. QED
            BY <2>1, <3>1, <3>3, <4>1 DEF Tipos, TiposMarco
    <3>4. QED
          BY <3>2, <3>3
  <2>4. QED
        BY <1>2, <1>4, <2>1, <2>3 DEF Ligadas, ActualizaFrames, ActualizaTablas, PasoCpu
<1>5. CASE ~(BuscaVieja \/ ActualizaTablas \/ ActualizaFrames)
  <2>1. /\ marco' = marco /\ pcCpu # "marco" /\ pcCpu' # "marco"
        /\ pcCpu' \in {"carga", "tablas"} =>
                pcCpu \in {"carga", "tablas"} /\ vieja' = vieja /\ frame' = frame
        BY <1>5 DEF conexionCPU, BuscaPagina, Mira, TraduceEnRam, TraduceAusente,
             UsaPagina, LeeFrame, HayFrameLibre,
             NoHayFrameLibre, TomaFrames, GiraVictima, GiraSigue, FinVuelta, Carga, Marca,
             accesoMemoriaRead, accesoMemoriaCopy, accesoMemoriaWrite, PasoCpu, memoria
  <2>2. QED
        BY <1>2, <1>5, <2>1, LigadasQuietas DEF Reemplazo
<1>6. QED
      BY <1>1, <1>3, <1>4, <1>5


-----------------------------------------------------------------------------
(* Rows and frames: conexionKernel.                                        *)

\* While conexionKernel works on p the CPU has asked for none of its pages.
LEMMA LigadasSinCpu ==
    ASSUME NEW p \in Pid, pcCpu' = "libre",
           \A n \in Filas(p) : Presente(p, n)' =>
                marco'[fila'[p][n].nroFrame] = [idProceso |-> p, nroPagina |-> n]
    PROVE  Ligadas(p)'
BY DEF Ligadas

LEMMA FilasEnSuspende ==
    ASSUME Tipos, NEW p \in Pid, Reemplazo(p), SuspendePagina \/ CopiaPagina, pidKer = p
    PROVE  FilasBien(p)' /\ \A n \in Filas(p) : Presente(p, n)' =>
                Presente(p, n) /\ fila'[p][n].nroFrame = fila[p][n].nroFrame
<1>1. CASE SuspendePagina
  <2>1. PICK n \in PagAUsar(p) :
            /\ fila' = [fila EXCEPT ![p][n] = Bajada(fila[p][n])] /\ paginaKer' = n
            /\ pcKer = "paginas" /\ pcKer' = "copia"
        BY <1>1 DEF SuspendePagina, PasoKer
  <2>2. n \in Filas(p)
        BY PaginaConFila
  <2> DEFINE v == Bajada(fila[p][n])
  <2>3. CambiaUna(fila, fila', p, n, v) /\ v.presencia = 0
    <3>1. fila[p][n] \in TipoFila
          BY <2>2, FilaTipada DEF Tipos
    <3>2. CambiaUna(fila, fila', p, n, v)
          BY <2>1, CambioDeFila DEF Tipos
    <3>3. QED
          BY <3>1, <3>2 DEF TipoFila, Bajada
  <2> HIDE DEF v
  <2>4. QED
        BY <2>1, <2>2, <2>3 DEF CambiaUna, Reemplazo, FilasBien, Presente, Copiando
<1>2. CASE CopiaPagina
  <2> DEFINE n == paginaKer
             v == [fila[p][n] EXCEPT !.nroFrame = SinFrame]
  <2>1. /\ fila' = [fila EXCEPT ![p][n] = v] /\ pcKer = "copia" /\ pcKer' = "paginas"
        BY <1>2 DEF CopiaPagina, PasoKer
  <2>2. n \in Filas(p) => v.presencia = fila[p][n].presencia /\ v.nroFrame = SinFrame
    <3>1. n \in Filas(p) => fila[p][n] \in TipoFila
          BY FilaTipada DEF Tipos
    <3>2. QED
          BY <3>1 DEF TipoFila
  <2>3. CambiaUna(fila, fila', p, n, v)
        BY <2>1, CambioDeFila DEF Tipos
  <2> HIDE DEF v
  <2>4. QED
        BY <2>1, <2>2, <2>3 DEF CambiaUna, Reemplazo, FilasBien, Presente, Copiando
<1>3. QED
      BY <1>1, <1>2

LEMMA FilasEnLibera ==
    ASSUME Tipos, NEW p \in Pid, Reemplazo(p), LiberaPagina, pidKer = p, pcCpu = "libre"
    PROVE  FilasBien(p)' /\ Ligadas(p)'
<1> DEFINE k == paginaKer
           g == fila[p][k].nroFrame
           v == [Bajada(fila[p][k]) EXCEPT !.nroFrame = SinFrame]
<1>1. /\ fila' = [fila EXCEPT ![p][k] = v] /\ k \in Filas(p)
      /\ pcKer = "salida" /\ pcKer' = "salida" /\ pcCpu' = "libre"
      /\ marco' = [f \in Frames |-> IF f = g THEN Vacio ELSE marco[f]]
      BY PaginaConFila DEF LiberaPagina, PasoKer, liberarFrame_Tabla, cpu
<1>2. v.presencia = 0 /\ v.nroFrame = SinFrame
  <2>1. fila[p][k] \in TipoFila
        BY <1>1, FilaTipada DEF Tipos
  <2>2. QED
        BY <2>1 DEF TipoFila, Bajada
<1>3. CambiaUna(fila, fila', p, k, v)
      BY <1>1, CambioDeFila DEF Tipos
<1> HIDE DEF v
<1>4. FilasBien(p)'
      BY <1>1, <1>2, <1>3 DEF CambiaUna, Reemplazo, FilasBien, Presente, Copiando
<1>5. ASSUME NEW n \in Filas(p), Presente(p, n)'
      PROVE  marco'[fila'[p][n].nroFrame] = [idProceso |-> p, nroPagina |-> n]
  <2>1. n # k /\ Presente(p, n) /\ fila'[p][n] = fila[p][n]
        BY <1>1, <1>2, <1>3, <1>5 DEF CambiaUna, Presente
  <2>2. /\ fila[p][n].nroFrame \in Frames
        /\ marco[fila[p][n].nroFrame] = [idProceso |-> p, nroPagina |-> n]
        BY <2>1, FilaPresente
  <2>3. fila[p][n].nroFrame # g
    <3>1. CASE Presente(p, k)
      <4>1. marco[g] = [idProceso |-> p, nroPagina |-> k]
            BY <1>1, <3>1, FilaPresente
      <4>2. QED
            BY <2>1, <2>2, <4>1
    <3>2. CASE ~Presente(p, k)
      <4>1. g = SinFrame
            BY <1>1, <3>2 DEF Reemplazo, FilasBien, Copiando
      <4>2. QED
            BY <2>2, <4>1, FramesNaturales
    <3>3. QED
          BY <3>1, <3>2
  <2>4. QED
        BY <1>1, <2>1, <2>2, <2>3
<1>6. QED
      BY <1>1, <1>4, <1>5, LigadasSinCpu

LEMMA FilasEnKernelSolas ==
    ASSUME Tipos, NEW p \in Pid, Reemplazo(p), conexionKernel, pidKer = p, pcCpu = "libre"
    PROVE  FilasBien(p)' /\ Ligadas(p)'
<1>1. pcCpu' = "libre"
      BY DEF conexionKernel, CreaTabla, AsignaFrames, suspender, pasarAExit, Toma2N,
             SuspendePagina, CopiaPagina, SuspendeSinFrame, FinSuspender,
             LiberaSuspendido, Suspendido, LiberaPagina, FinExit, cpu
<1>2. \A n \in Filas(p) : Presente(p, n) =>
        /\ fila[p][n].nroFrame \in Frames
        /\ marco[fila[p][n].nroFrame] = [idProceso |-> p, nroPagina |-> n]
      BY FilaPresente
<1>3. CASE LiberaPagina
      BY <1>3, FilasEnLibera
<1>4. CASE SuspendePagina \/ CopiaPagina
  <2>1. marco' = marco
        BY <1>4 DEF SuspendePagina, CopiaPagina, memoria
  <2>2. QED
        BY <1>1, <1>2, <1>4, <2>1, FilasEnSuspende, LigadasSinCpu
<1>5. ~SuspendeSinFrame
  <2> SUFFICES ASSUME SuspendeSinFrame PROVE FALSE
        OBVIOUS
  <2>1. PICK n \in PagAUsar(p) : n \in ASuspender(p) /\ FramesDeNumero(n) = {}
        BY DEF SuspendeSinFrame, EsMenor
  <2>2. n \in Filas(p) /\ Presente(p, n)
        BY <2>1, PaginaConFila DEF ASuspender, Presente
  <2>3. fila[p][n].nroFrame \in FramesDeNumero(n)
    <3>1. /\ fila[p][n].nroFrame \in Frames
          /\ marco[fila[p][n].nroFrame] = [idProceso |-> p, nroPagina |-> n]
          BY <1>2, <2>2
    <3>2. marco[fila[p][n].nroFrame].nroPagina = n
          BY <3>1
    <3>3. QED
          BY <3>1, <3>2 DEF FramesDeNumero
  <2>4. QED
        BY <2>1, <2>3
<1>6. CASE \/ CreaTabla \/ AsignaFrames \/ Toma2N("suspende", "paginas")
           \/ Toma2N("exit", "salida") \/ FinSuspender \/ LiberaSuspendido
           \/ Suspendido \/ FinExit
  <2>1. /\ fila' = fila /\ pcKer # "copia" /\ pcKer' # "copia"
        /\ pcKer' = "libera" => pcKer = "libera" \/ ASuspender(p) = {}
        BY <1>6 DEF CreaTabla, AsignaFrames, Toma2N, FinSuspender, LiberaSuspendido,
             Suspendido, FinExit, PasoKer, tablas
  <2>2. FilasBien(p)'
    <3>1. ASSUME pcKer' = "libera", NEW n \in Filas(p) PROVE ~Presente(p, n)
          BY <2>1, <3>1 DEF Reemplazo, FilasBien, ASuspender, Presente
    <3>2. QED
          BY <2>1, <3>1 DEF Reemplazo, FilasBien, Presente, Copiando
  <2>3. ASSUME NEW n \in Filas(p), Presente(p, n)
        PROVE  marco'[fila[p][n].nroFrame] = marco[fila[p][n].nroFrame]
    <3>1. CASE AsignaFrames
      <4> DEFINE g == fila[p][n].nroFrame
      <4>1. g \in Frames /\ marco[g].idProceso = p
        <5>1. g \in Frames /\ marco[g] = [idProceso |-> p, nroPagina |-> n]
              BY <1>2, <2>3
        <5> HIDE DEF g
        <5>2. QED
              BY <5>1
      <4> HIDE DEF g
      <4>2. g \notin ALosQueToca
            BY <4>1, NadieNoEsProceso DEF ALosQueToca, Libre
      <4>3. marco'[g] = marco[g]
            BY <3>1, <4>1, <4>2 DEF AsignaFrames
      <4>4. QED
            BY <4>3 DEF g
    <3>2. ~LiberaSuspendido
          BY <2>3 DEF LiberaSuspendido, PasoKer, Reemplazo, FilasBien
    <3>3. CASE ~AsignaFrames
          BY <1>6, <3>2, <3>3 DEF CreaTabla, Toma2N, FinSuspender, Suspendido, FinExit, memoria
    <3>4. QED
          BY <3>1, <3>3
  <2>4. QED
        BY <1>1, <1>2, <2>1, <2>2, <2>3, LigadasSinCpu DEF Presente
<1>7. QED
      BY <1>3, <1>4, <1>5, <1>6 DEF conexionKernel, suspender, pasarAExit

-----------------------------------------------------------------------------
LEMMA ReemplazoSigue ==
    ASSUME Tipos, NEW p \in Pid, Reemplazo(p), Solo(p), Solo(p)', [Next]_vars, ~Tarde'
    PROVE  Reemplazo(p)'
<1>1. Control(p)
      BY DEF Reemplazo, Control
<1> ~Tarde /\ \A q \in Pid : ~PideSuspenderTarde(q)
      BY TardeQueda
<1>2. CASE conexionCPU
      BY <1>1, <1>2, ControlEnCPU, FilasEnCPUSolas DEF Reemplazo, Control
<1>3. CASE conexionKernel
      BY <1>1, <1>3, ControlEnKernel, FilasEnKernelSolas DEF Reemplazo, Control
<1>4. CASE Pedidos
  <2>1. /\ Control(p)' /\ UNCHANGED <<fila, marco>>
        /\ pcCpu' = pcCpu \/ pcCpu' = "traduce"
        /\ pcKer' = pcKer \/ pcKer' \in {"crea", "asigna", "suspende", "exit"}
        BY <1>1, <1>4, ControlEnPedido
  <2>2. /\ pcCpu' # "marco" \/ UNCHANGED <<pcCpu, frame, pagina>>
        /\ pcCpu' = pcCpu \/ pcCpu \in {"libre", "accede"}
        /\ pcCpu' = pcCpu => UNCHANGED <<vieja, frame, pagina>>
        /\ UNCHANGED <<pcKer, paginaKer>> \/ pcKer = "libre"
        BY <1>4 DEF Pedidos, PideSuspenderTarde, CpuPide, CpuPideOrigen, PidePasarAReady, PideSuspender,
                    PidePasarAExit, Pide, PasoCpu, PasoKer, cpu, kernel
  <2>3. MismoLugar(fila, fila')
        BY <2>1 DEF MismoLugar
  <2>4. FilasBien(p)'
        BY <2>1, <2>2, <2>3, FilasBienQuietas DEF Reemplazo, Copiando
  <2>5. Ligadas(p)'
        BY <2>1, <2>2, <2>3, LigadasQuietas DEF Reemplazo
  <2>6. QED
        BY <2>1, <2>4, <2>5 DEF Reemplazo, Control
<1>5. CASE UNCHANGED vars
  <2>1. /\ UNCHANGED <<orden, fila, marco, pcCpu, pid, pagina, frame, vieja, pcKer,
                       pidKer, paginaKer, carga>>
        /\ MismoLugar(fila, fila')
        BY <1>5 DEF vars, tablas, memoria, cpu, kernel, externo, MismoLugar
  <2>2. FilasBien(p)' /\ Ligadas(p)'
        BY <2>1, FilasBienQuietas, LigadasQuietas DEF Reemplazo, Copiando
  <2>3. Ocupa(p)' /\ Creadas(p)'
        BY <2>1 DEF Reemplazo, Ocupa, LoPedido, Creadas
  <2>4. QED
        BY <2>2, <2>3 DEF Reemplazo
<1>6. QED
      BY <1>2, <1>3, <1>4, <1>5 DEF Next

LEMMA FilasDeUnoSigue ==
    ASSUME Tipos, FilasDeUno, [Next]_vars
    PROVE  FilasDeUno'
BY SoloAntes, TardeQueda, ReemplazoSigue DEF FilasDeUno

LEMMA FilasDeUnoAlInicio == ASSUME Init PROVE FilasDeUno
<1> SUFFICES ASSUME NEW p \in Pid PROVE Reemplazo(p)
    BY DEF FilasDeUno
<1>1. /\ orden = <<>> /\ carga = [q \in Pid |-> "nuevo"] /\ pid = Nadie /\ pidKer = Nadie
      /\ pcCpu = "libre" /\ pcKer = "libre"
      /\ fila = [q \in Pid |-> [n \in Filas(q) |-> FilaNueva(q, n)]]
      BY DEF Init
<1>2. \A q \in Pid : \A n \in Filas(q) :
        fila[q][n].presencia # 1 /\ fila[q][n].nroFrame = SinFrame
      BY <1>1 DEF FilaNueva
<1>3. Ocupa(p) /\ Creadas(p)
      BY <1>1, NadieNoEsProceso DEF Ocupa, LoPedido, Creadas
<1>4. FilasBien(p) /\ Ligadas(p)
      BY <1>1, <1>2 DEF FilasBien, Ligadas, Presente
<1>5. QED
      BY <1>3, <1>4 DEF Reemplazo

\* The process with tables, when there is one only.
LEMMA UnaTablaEsSolo ==
    ASSUME Tipos, UnaTabla
    PROVE  (\A p \in Pid : Solo(p)) \/ \E p \in Pid : Solo(p)
<1>1. CASE orden = <<>>
      BY <1>1 DEF Solo
<1>2. CASE orden # <<>>
  <2>1. 1 \in DOMAIN orden /\ orden[1][1] \in Pid
        BY <1>2 DEF Tipos, TiposKernel
  <2>2. Solo(orden[1][1])
        BY <2>1 DEF Solo, UnaTabla
  <2>3. QED
        BY <2>1, <2>2
<1>3. QED
      BY <1>1, <1>2

LEMMA FilasDeUnoDice ==
    ASSUME Tipos, FilasDeUno, UnaTabla
    PROVE  FrameDeLaFila
<1> SUFFICES ASSUME ~Tarde PROVE FrameDeLaFila
    BY DEF FrameDeLaFila
<1>1. ASSUME NEW p \in Pid, Solo(p)
      PROVE  \A n \in Filas(p) :
                fila[p][n].presencia = 1 /\ ~(pcCpu = "marco" /\ pid = p /\ pagina = n)
                => marco[fila[p][n].nroFrame] = [idProceso |-> p, nroPagina |-> n]
  <2>1. Reemplazo(p) /\ (pcCpu = "marco" => pid = p)
        BY <1>1, Turno DEF FilasDeUno, Reemplazo
  <2>2. QED
        BY <2>1 DEF Reemplazo, Ligadas, Presente
<1>2. ASSUME NEW p \in Pid, Solo(p), NEW q \in Pid, q # p
      PROVE  \A n \in Filas(q) : fila[q][n].presencia # 1
      BY <1>2 DEF FilasDeUno, Reemplazo, FilasBien, Presente
<1>3. QED
      BY <1>1, <1>2, UnaTablaEsSolo DEF FrameDeLaFila

\* Page tables and the table of frames agree while one process has tables and
\* no SUSPENDER has come late: no order of replacements, COPYs, exits and
\* suspensions of blocked processes leaves a present page with a frame that
\* has another page (reemplazarEnRam, suspender and pasarAExit, which look
\* rows up by page number and frames by page number).
THEOREM TablasConcuerdan == Spec => [](UnaTabla => FrameDeLaFila)
<1>1. Init => Tipos /\ FilasDeUno
      BY TiposAlInicio, FilasDeUnoAlInicio
<1>2. Tipos /\ FilasDeUno /\ [Next]_vars => Tipos' /\ FilasDeUno'
      BY TiposSiguen, FilasDeUnoSigue
<1>3. Tipos /\ FilasDeUno => (UnaTabla => FrameDeLaFila)
      BY FilasDeUnoDice
<1>4. QED
      BY <1>1, <1>2, <1>3, PTL DEF Spec

-----------------------------------------------------------------------------
(* Contents.  The last row of the last table is of no page: it is the one  *)
(* that reemplazarEnRam takes for the old page when the frame had none.    *)

UltimaFilaSobra ==
    \A p \in Pid : CantTablas(p) * ENTRADAS_POR_TABLA - 1 \notin PagAUsar(p)

PorLiberar(f) ==
    /\ pcKer \in {"paginas", "copia", "libera"}
    /\ \E i \in DOMAIN aLiberar : aLiberar[i] = f

\* A frame with a page is of p, and of the row of that page unless suspender
\* is about to free it.
DeVuelta(p) ==
    \A f \in Frames :
        marco[f].nroPagina # SinPagina /\ ~(pcCpu = "marco" /\ f = frame) =>
            /\ marco[f].idProceso = p /\ marco[f].nroPagina \in PagAUsar(p)
            /\ IF Presente(p, marco[f].nroPagina)
               THEN fila[p][marco[f].nroPagina].nroFrame = f
               ELSE PorLiberar(f)

\* The page that the CPU asked for is present when it is answered from its
\* row, or absent until it has been loaded; the CPU accesses the frame of its
\* row.
Pedida(p) ==
    /\ pcCpu \in {"usa", "lee"} => Presente(p, pagina)
    /\ pcCpu \in {"busca", "reloj", "gira", "vieja", "carga", "tablas"} =>
        ~Presente(p, pagina)
    /\ pcCpu \in {"marco", "accede"} =>
        Presente(p, pagina) /\ fila[p][pagina].nroFrame = frame

Contenidos(p) ==
    carga[p] # "fin" =>
        /\ \A n \in PagAUsar(p) : Contenido(p, n) = ultimo[p][n]
        /\ pcCpu = "tablas" => ram[frame] = ultimo[p][pagina]

Escrito(p) == DeVuelta(p) /\ Pedida(p) /\ Contenidos(p)

LoEscrito ==
    /\ destino = SinDestino /\ EsArchivo(ultimo)
    /\ ~Tarde => \A p \in Pid : Solo(p) => Escrito(p)

\* The row of the old page is the one of the frame, or of no page.
LEMMA FilaDeLaVieja ==
    ASSUME Tipos, NEW p \in Pid, Reemplazo(p), DeVuelta(p), UltimaFilaSobra,
           pcCpu \in {"carga", "tablas"}
    PROVE  /\ vieja[1] = p /\ vieja[2] \in Filas(p) /\ frame \in Frames
           /\ vieja[2] \in PagAUsar(p) =>
                /\ Presente(p, vieja[2]) /\ fila[p][vieja[2]].nroFrame = frame
                /\ marco[frame].nroPagina = vieja[2]
           /\ \A n \in Filas(p) : Presente(p, n) /\ n # vieja[2] => fila[p][n].nroFrame # frame
<1> DEFINE k == marco[frame].nroPagina
<1>1. vieja = <<p, Encontrada(p, k)>> /\ Encontrada(p, k) \in Filas(p) /\ frame \in Frames
      BY EncontradaEnFilas DEF Reemplazo, Ligadas, Tipos, TiposCpu, Cargando
<1>2. ASSUME vieja[2] \in PagAUsar(p) PROVE vieja[2] = k
      BY <1>1, <1>2 DEF UltimaFilaSobra, Encontrada
<1>3. ASSUME vieja[2] \in PagAUsar(p)
      PROVE  Presente(p, vieja[2]) /\ fila[p][vieja[2]].nroFrame = frame
  <2>1. vieja[2] # SinPagina /\ pcKer \in {"libre", "crea"}
        BY <1>3, Turno, PaginasNaturales DEF Reemplazo, SinPagina
  <2>2. QED
        BY <1>1, <1>2, <1>3, <2>1 DEF DeVuelta, PorLiberar
<1>4. ASSUME NEW n \in Filas(p), Presente(p, n), fila[p][n].nroFrame = frame
      PROVE  n = vieja[2]
  <2>1. marco[frame] = [idProceso |-> p, nroPagina |-> n]
        BY <1>4, FilaPresente
  <2>2. k = n
        BY <2>1
  <2>3. QED
        BY <1>1, <2>2 DEF Encontrada
<1>5. QED
      BY <1>1, <1>2, <1>3, <1>4

\* A step that moves no page and writes nothing.
LEMMA EscritoQuieto ==
    ASSUME Tipos, NEW p \in Pid, MismoLugar(fila, fila'),
           UNCHANGED <<ram, swap, ultimo, aLiberar>>,
           \A n : Copiando(n)' <=> Copiando(n),
           pcCpu # "tablas", pcCpu' # "tablas",
           carga'[p] # "fin" => carga[p] # "fin", Contenidos(p)
    PROVE  Contenidos(p)'
<1>1. ASSUME NEW n \in PagAUsar(p)
      PROVE  (Presente(p, n)' <=> Presente(p, n)) /\ fila'[p][n].nroFrame = fila[p][n].nroFrame
      BY PaginaConFila DEF Presente, MismoLugar
<1>2. QED
      BY <1>1 DEF Contenidos, Contenido

LEMMA DeVueltaQuieta ==
    ASSUME Tipos, NEW p \in Pid, MismoLugar(fila, fila'), marco' = marco,
           pcCpu # "marco", \A f : PorLiberar(f) => PorLiberar(f)', DeVuelta(p)
    PROVE  DeVuelta(p)'
<1>1. ASSUME NEW n \in PagAUsar(p)
      PROVE  (Presente(p, n)' <=> Presente(p, n)) /\ fila'[p][n].nroFrame = fila[p][n].nroFrame
      BY PaginaConFila DEF Presente, MismoLugar
<1>2. QED
      BY <1>1 DEF DeVuelta

LEMMA EscritoEnCarga ==
    ASSUME Tipos, NEW p \in Pid, Reemplazo(p), Escrito(p), Carga,
           ALGORITMO = "CLOCK", UltimaFilaSobra
    PROVE  Escrito(p)'
<1> DEFINE m == vieja[2]
<1>1. /\ pcCpu = "carga" /\ pcCpu' = "tablas"
      /\ ram' = [ram EXCEPT ![frame] = swap[pid][pagina]]
      /\ swap' = write_frame(pid, posicionSwap(vieja[1], m), ram[frame])
      /\ UNCHANGED <<fila, marco, pagina, frame, vieja, pcKer, aLiberar, carga, ultimo>>
      BY DEF Carga, PasoCpu, GuardaVieja, read_in_swap, tablas, kernel
<1>2. /\ pid = p /\ pagina \in PagAUsar(p) /\ pcKer \in {"libre", "crea"}
      /\ carga[p] # "fin"
      BY <1>1, Turno DEF Reemplazo
<1>3. /\ vieja[1] = p /\ frame \in Frames
      /\ m \in PagAUsar(p) => /\ Presente(p, m) /\ fila[p][m].nroFrame = frame
      /\ \A n \in Filas(p) : Presente(p, n) /\ n # m => fila[p][n].nroFrame # frame
      BY <1>1, FilaDeLaVieja DEF Escrito
<1>4. \A n \in PagAUsar(p) : n # -1 /\ n \in Filas(p)
      BY PaginasNaturales, PaginaConFila
<1> HIDE DEF m
<1>5. \A n \in PagAUsar(p) : swap'[p][n] = IF n = m THEN ram[frame] ELSE swap[p][n]
      BY <1>1, <1>2, <1>3, <1>4 DEF write_frame, posicionSwap, Tipos, EsArchivo
<1>6. \A f \in Frames : ram'[f] = IF f = frame THEN swap[p][pagina] ELSE ram[f]
      BY <1>1, <1>2 DEF Tipos, TiposMarco
<1>7. \A n : ~Copiando(n) /\ ~Copiando(n)'
      BY <1>1, <1>2 DEF Copiando
<1>8. ~Presente(p, pagina)
      BY <1>1 DEF Escrito, Pedida
<1>9. \A n \in PagAUsar(p) : Contenido(p, n) = ultimo[p][n]
      BY <1>2 DEF Escrito, Contenidos
<1>10. ram'[frame'] = ultimo'[p][pagina']
      BY <1>1, <1>2, <1>3, <1>6, <1>7, <1>8, <1>9 DEF Contenido
<1>11. ASSUME NEW n \in PagAUsar(p)
       PROVE  Contenido(p, n)' = ultimo'[p][n]
  <2>1. CASE n = m
    <3>1. Contenido(p, n) = ram[frame]
          BY <1>1, <1>3, <1>11, <2>1 DEF Contenido
    <3>2. Contenido(p, n)' = swap'[p][n]
          BY <1>1, <1>7, <2>1 DEF Contenido, m
    <3>3. QED
          BY <1>1, <1>5, <1>9, <1>11, <2>1, <3>1, <3>2
  <2>2. CASE n # m /\ Presente(p, n)
    <3>1. fila[p][n].nroFrame # frame /\ fila[p][n].nroFrame \in Frames
          BY <1>3, <1>4, <1>11, <2>2, FilaPresente
    <3>2. Contenido(p, n) = ram[fila[p][n].nroFrame]
          BY <1>1, <2>2 DEF Contenido
    <3>3. Contenido(p, n)' = ram'[fila[p][n].nroFrame]
          BY <1>1, <2>2 DEF Contenido, Presente, m
    <3>4. QED
          BY <1>1, <1>6, <1>9, <3>1, <3>2, <3>3
  <2>3. CASE n # m /\ ~Presente(p, n)
    <3>1. Contenido(p, n) = swap[p][n] /\ Contenido(p, n)' = swap'[p][n]
          BY <1>1, <1>7, <2>3 DEF Contenido, Presente
    <3>2. QED
          BY <1>1, <1>5, <1>9, <1>11, <2>3, <3>1
  <2>4. QED
        BY <2>1, <2>2, <2>3
<1>12. Contenidos(p)'
       BY <1>10, <1>11 DEF Contenidos
<1>13. DeVuelta(p)'
       BY <1>1 DEF Escrito, DeVuelta, PorLiberar, Presente
<1>14. Pedida(p)'
       BY <1>1, <1>8 DEF Pedida, Presente
<1>15. QED
       BY <1>12, <1>13, <1>14 DEF Escrito

LEMMA EscritoEnActualiza ==
    ASSUME Tipos, NEW p \in Pid, Reemplazo(p), Escrito(p), ActualizaTablas, UltimaFilaSobra
    PROVE  Escrito(p)'
<1> DEFINE m == vieja[2]
<1>1. /\ pcCpu = "tablas" /\ pcCpu' = "marco"
      /\ UNCHANGED <<marco, ram, swap, pagina, frame, pcKer, carga, ultimo>>
      BY DEF ActualizaTablas, PasoCpu, memoria, kernel, externo
<1>2. /\ pagina \in PagAUsar(p) /\ pcKer \in {"libre", "crea"} /\ carga[p] # "fin"
      BY <1>1, Turno DEF Reemplazo
<1>3. /\ m \in PagAUsar(p) => /\ Presente(p, m) /\ marco[frame].nroPagina = m
      /\ \A n \in Filas(p) : Presente(p, n) /\ n # m => fila[p][n].nroFrame # frame
      BY <1>1, FilaDeLaVieja DEF Escrito
<1>4. ~Presente(p, pagina)
      BY <1>1 DEF Escrito, Pedida
<1>5. pagina # m /\ frame \in Frames
      BY <1>1, <1>2, <1>3, <1>4, FilaDeLaVieja DEF Escrito
<1> HIDE DEF m
<1>6. \A n \in PagAUsar(p) :
        /\ n \in Filas(p)
        /\ Presente(p, n)' <=> n = pagina \/ (n # m /\ Presente(p, n))
        /\ fila'[p][n].nroFrame = IF n = m THEN SinFrame
                                  ELSE IF n = pagina THEN frame ELSE fila[p][n].nroFrame
  <2>1. \A n \in Filas(p) :
            /\ fila'[p][n].presencia = IF n = m THEN 0
                                       ELSE IF n = pagina THEN 1 ELSE fila[p][n].presencia
            /\ fila'[p][n].nroFrame = IF n = m THEN SinFrame
                                      ELSE IF n = pagina THEN frame ELSE fila[p][n].nroFrame
        BY LugarEnActualiza DEF Reemplazo, Control, m
  <2>2. QED
        BY <1>5, <2>1, PaginaConFila DEF Presente
<1>7. \A n : ~Copiando(n) /\ ~Copiando(n)' /\ ~PorLiberar(n)
      BY <1>1, <1>2 DEF Copiando, PorLiberar
<1>8. \A n \in PagAUsar(p) : Contenido(p, n) = ultimo[p][n]
      BY <1>2 DEF Escrito, Contenidos
<1>9. ASSUME NEW n \in PagAUsar(p)
      PROVE  Contenido(p, n)' = ultimo'[p][n]
  <2>1. CASE n = m
    <3>1. Contenido(p, n) = swap[p][n]
          BY <1>1, <1>7, <2>1 DEF Contenido, m
    <3>2. Contenido(p, n)' = swap'[p][n]
          BY <1>5, <1>6, <1>7, <2>1 DEF Contenido
    <3>3. QED
          BY <1>1, <1>8, <3>1, <3>2
  <2>2. CASE n = pagina
    <3>1. Contenido(p, n)' = ram'[frame]
          BY <1>1, <1>5, <1>6, <2>2 DEF Contenido
    <3>2. QED
          BY <1>1, <1>2, <2>2, <3>1 DEF Escrito, Contenidos
  <2>3. CASE n # m /\ n # pagina
    <3>1. Contenido(p, n)' = Contenido(p, n)
          BY <1>1, <1>6, <1>7, <2>3 DEF Contenido, m
    <3>2. QED
          BY <1>1, <1>8, <3>1
  <2>4. QED
        BY <2>1, <2>2, <2>3
<1>10. Contenidos(p)'
       BY <1>1, <1>9 DEF Contenidos
<1>11. Pedida(p)'
       BY <1>1, <1>2, <1>5, <1>6 DEF Pedida
<1>12. ASSUME NEW f \in Frames, f # frame, marco[f].nroPagina # SinPagina
       PROVE  \E n \in PagAUsar(p) :
                /\ marco[f].idProceso = p /\ marco[f].nroPagina = n
                /\ Presente(p, n)' /\ fila'[p][n].nroFrame = f
  <2>1. PICK n \in PagAUsar(p) :
            /\ marco[f].idProceso = p /\ n = marco[f].nroPagina
            /\ Presente(p, n) /\ fila[p][n].nroFrame = f
        BY <1>1, <1>7, <1>12 DEF Escrito, DeVuelta
  <2>2. m \in PagAUsar(p) => Presente(p, m) /\ fila[p][m].nroFrame = frame
        BY <1>1, FilaDeLaVieja DEF Escrito, m
  <2>3. n # m /\ n # pagina
        BY <1>4, <1>12, <2>1, <2>2
  <2>4. Presente(p, n)' /\ fila'[p][n].nroFrame = f
        BY <1>6, <2>1, <2>3
  <2>5. QED
        BY <2>1, <2>4
<1>13. DeVuelta(p)'
       BY <1>1, <1>12 DEF DeVuelta
<1>14. QED
       BY <1>10, <1>11, <1>13 DEF Escrito

LEMMA EscritoEnFrames ==
    ASSUME Tipos, NEW p \in Pid, Reemplazo(p), Escrito(p), ActualizaFrames
    PROVE  Escrito(p)'
<1>1. /\ pcCpu = "marco" /\ pcCpu' = "accede"
      /\ marco' = [marco EXCEPT ![frame] = [idProceso |-> pid, nroPagina |-> pagina]]
      /\ UNCHANGED <<fila, ram, swap, pagina, frame, pcKer, paginaKer, aLiberar, carga, ultimo>>
      BY DEF ActualizaFrames, PasoCpu, tablas, kernel, externo
<1>2. pid = p /\ pagina \in PagAUsar(p) /\ pagina \in Filas(p) /\ frame \in Frames
      /\ pagina # SinPagina
      BY <1>1, Turno, PaginasNaturales DEF Reemplazo, Tipos, TiposCpu, Cargando, SinPagina
<1>3. Presente(p, pagina) /\ fila[p][pagina].nroFrame = frame
      BY <1>1 DEF Escrito, Pedida
<1>4. \A f \in Frames :
        marco'[f] = IF f = frame THEN [idProceso |-> p, nroPagina |-> pagina] ELSE marco[f]
      BY <1>1, <1>2 DEF Tipos, TiposMarco
<1>5. ASSUME NEW f \in Frames, marco'[f].nroPagina # SinPagina
      PROVE  /\ marco'[f].idProceso = p /\ marco'[f].nroPagina \in PagAUsar(p)
             /\ IF Presente(p, marco[f].nroPagina)'
                THEN fila'[p][marco'[f].nroPagina].nroFrame = f
                ELSE PorLiberar(f)'
  <2>1. CASE f = frame
    <3>1. marco'[f] = [idProceso |-> p, nroPagina |-> pagina]
          BY <1>4, <2>1
    <3>2. marco'[f].idProceso = p /\ marco'[f].nroPagina = pagina
          BY <3>1
    <3>3. QED
          BY <1>1, <1>2, <1>3, <2>1, <3>2 DEF Presente
  <2>2. CASE f # frame
    <3>1. marco'[f] = marco[f]
          BY <1>4, <2>2
    <3>2. QED
          BY <1>1, <1>5, <2>2, <3>1 DEF Escrito, DeVuelta, PorLiberar, Presente
  <2>3. QED
        BY <2>1, <2>2
<1>6. DeVuelta(p)'
      BY <1>5 DEF DeVuelta
<1>7. Pedida(p)'
      BY <1>1, <1>3 DEF Pedida, Presente
<1>8. Contenidos(p)'
      BY <1>1 DEF Escrito, Contenidos, Contenido, Presente, Copiando
<1>9. QED
      BY <1>6, <1>7, <1>8 DEF Escrito

LEMMA EscritoEnWrite ==
    ASSUME Tipos, EsArchivo(ultimo), NEW p \in Pid, Reemplazo(p), Escrito(p),
           NEW v \in Valores, accesoMemoriaWrite(v)
    PROVE  Escrito(p)'
<1>1. /\ pcCpu = "accede" /\ pcCpu' = "escrita"
      /\ EscribeRam(frame, v)
      /\ ultimo' = [ultimo EXCEPT ![pid][pagina] = v]
      /\ UNCHANGED <<fila, marco, swap, pagina, frame, pcKer, aLiberar, carga>>
      BY DEF accesoMemoriaWrite, PasoCpu, tablas, kernel
<1>2. /\ pid = p /\ pagina \in PagAUsar(p) /\ pagina \in Filas(p)
      /\ pcKer \in {"libre", "crea"} /\ carga[p] # "fin"
      /\ Presente(p, pagina) /\ fila[p][pagina].nroFrame = frame
      BY <1>1, Turno DEF Reemplazo, Escrito, Pedida
<1>3. frame \in Frames
      BY <1>2, FilaPresente
<1>4. /\ \A f \in Frames : ram'[f] = IF f = frame THEN v ELSE ram[f]
      /\ \A n \in PagAUsar(p) : ultimo'[p][n] = IF n = pagina THEN v ELSE ultimo[p][n]
      BY <1>1, <1>2, <1>3 DEF EscribeRam, Tipos, TiposMarco, EsArchivo
<1>5. \A n : ~Copiando(n) /\ ~Copiando(n)'
      BY <1>1, <1>2 DEF Copiando
<1>6. ASSUME NEW n \in PagAUsar(p)
      PROVE  Contenido(p, n)' = ultimo'[p][n]
  <2>1. Contenido(p, n) = ultimo[p][n]
        BY <1>2, <1>6 DEF Escrito, Contenidos
  <2>2. CASE n = pagina
    <3>1. Contenido(p, n)' = ram'[frame]
          BY <1>1, <1>2, <2>2 DEF Contenido, Presente
    <3>2. QED
          BY <1>3, <1>4, <1>6, <2>2, <3>1
  <2>3. CASE n # pagina /\ Presente(p, n)
    <3>1. /\ n \in Filas(p) /\ fila[p][n].nroFrame \in Frames
          /\ marco[fila[p][n].nroFrame] = [idProceso |-> p, nroPagina |-> n]
          BY <1>1, <1>6, <2>3, PaginaConFila, FilaPresente
    <3>2. marco[frame] = [idProceso |-> p, nroPagina |-> pagina]
          BY <1>1, <1>2, <1>3, FilaPresente
    <3>3. fila[p][n].nroFrame # frame
          BY <2>3, <3>1, <3>2
    <3>4. /\ Contenido(p, n) = ram[fila[p][n].nroFrame]
          /\ Contenido(p, n)' = ram'[fila[p][n].nroFrame]
          BY <1>1, <2>3 DEF Contenido, Presente
    <3>5. QED
          BY <1>4, <1>6, <2>1, <2>3, <3>1, <3>3, <3>4
  <2>4. CASE n # pagina /\ ~Presente(p, n)
    <3>1. Contenido(p, n) = swap[p][n] /\ Contenido(p, n)' = swap[p][n]
          BY <1>1, <1>5, <2>4 DEF Contenido, Presente
    <3>2. QED
          BY <1>4, <1>6, <2>1, <2>4, <3>1
  <2>5. QED
        BY <2>2, <2>3, <2>4
<1>7. Contenidos(p)'
      BY <1>1, <1>6 DEF Contenidos
<1>8. DeVuelta(p)' /\ Pedida(p)'
      BY <1>1 DEF Escrito, DeVuelta, Pedida, PorLiberar, Presente
<1>9. QED
      BY <1>7, <1>8 DEF Escrito

LEMMA EscritoEnCPU ==
    ASSUME Tipos, EsArchivo(ultimo), NEW p \in Pid, Reemplazo(p), Escrito(p), conexionCPU,
           ALGORITMO = "CLOCK", UltimaFilaSobra, destino = SinDestino
    PROVE  Escrito(p)'
<1>1. CASE Carga
      BY <1>1, EscritoEnCarga
<1>2. CASE ActualizaTablas
      BY <1>2, EscritoEnActualiza
<1>3. CASE ActualizaFrames
      BY <1>3, EscritoEnFrames
<1>4. CASE \E v \in Valores \ {Blanco} : accesoMemoriaWrite(v)
      BY <1>4, EscritoEnWrite
<1>5. CASE ~(Carga \/ ActualizaTablas \/ ActualizaFrames
             \/ \E v \in Valores \ {Blanco} : accesoMemoriaWrite(v))
  <2>1. /\ UNCHANGED <<memoria, ultimo, carga, kernel>>
        /\ pcCpu \notin {"tablas", "marco"} /\ pcCpu' \notin {"tablas", "marco"}
        BY <1>5 DEF conexionCPU, BuscaPagina, Mira, TraduceEnRam, TraduceAusente,
             UsaPagina, LeeFrame, HayFrameLibre,
             NoHayFrameLibre, TomaFrames, GiraVictima, GiraSigue, FinVuelta, BuscaVieja,
             Marca, accesoMemoriaRead, accesoMemoriaCopy, PasoCpu, externo
  <2>2. MismoLugar(fila, fila')
        BY <1>5, LugarEnCPU
  <2>3. Contenidos(p)' /\ DeVuelta(p)'
        BY <2>1, <2>2, EscritoQuieto, DeVueltaQuieta
           DEF Escrito, memoria, kernel, Copiando, PorLiberar
  <2>4. Pedida(p)'
    <3>1. CASE pcCpu \in {"traduce", "mira", "usa", "lee"}
      <4>1. pid = p /\ pagina \in Filas(p) /\ (EnRam(p, pagina) <=> Presente(p, pagina))
            BY <3>1, Turno DEF Reemplazo, FilasBien, EnRam, Presente
      <4>2. /\ UNCHANGED pagina
            /\ \/ pcCpu' = "mira"
               \/ pcCpu' = "usa" /\ EnRam(p, pagina)
               \/ pcCpu' = "busca" /\ ~EnRam(p, pagina)
               \/ pcCpu = "usa" /\ pcCpu' = "lee"
               \/ /\ pcCpu = "lee" /\ pcCpu' = "accede"
                  /\ frame' = fila[p][pagina].nroFrame
            BY <1>5, <3>1, <4>1 DEF conexionCPU, BuscaPagina, Mira, TraduceEnRam, TraduceAusente,
             UsaPagina, LeeFrame, HayFrameLibre,
             NoHayFrameLibre, TomaFrames, GiraVictima, GiraSigue, FinVuelta, BuscaVieja,
             Marca, accesoMemoriaRead, accesoMemoriaCopy, PasoCpu
      <4>3. (Presente(p, pagina)' <=> Presente(p, pagina))
            /\ fila'[p][pagina'].nroFrame = fila[p][pagina].nroFrame
            BY <2>2, <4>1, <4>2 DEF MismoLugar, Presente
      <4>4. QED
            BY <4>1, <4>2, <4>3 DEF Escrito, Pedida
    <3>2. CASE pcCpu \notin {"traduce", "mira", "usa", "lee"}
      <4>1. \/ pcCpu' \in {"libre", "leida", "escrita", "copiada"}
            \/ /\ pcCpu \in {"busca", "reloj", "gira", "vieja"} /\ UNCHANGED pagina
               /\ pcCpu' \in {"reloj", "gira", "vieja", "carga"}
            BY <1>5, <3>2 DEF conexionCPU, BuscaPagina, Mira, TraduceEnRam, TraduceAusente,
             UsaPagina, LeeFrame, HayFrameLibre,
             NoHayFrameLibre, TomaFrames, GiraVictima, GiraSigue, FinVuelta, BuscaVieja,
             Marca, accesoMemoriaRead, accesoMemoriaCopy, PasoCpu
      <4>2. pcCpu # "libre" => pagina \in Filas(p)
            BY Turno DEF Reemplazo
      <4>3. QED
            BY <2>2, <4>1, <4>2 DEF Escrito, Pedida, MismoLugar, Presente
    <3>3. QED
          BY <3>1, <3>2
  <2>5. QED
        BY <2>3, <2>4 DEF Escrito
<1>6. QED
      BY <1>1, <1>2, <1>3, <1>4, <1>5

LEMMA EscritoEnSuspende ==
    ASSUME Tipos, NEW p \in Pid, Reemplazo(p), Escrito(p), SuspendePagina, pidKer = p,
           pcCpu = "libre"
    PROVE  Contenidos(p)' /\ DeVuelta(p)'
<1>1. PICK n \in PagAUsar(p), f \in Frames :
        /\ EsMenor(n, ASuspender(p)) /\ EsMenor(f, FramesDeNumero(n))
        /\ fila' = [fila EXCEPT ![p][n] = Bajada(fila[p][n])]
        /\ aLiberar' = Append(aLiberar, f) /\ paginaKer' = n
      BY DEF SuspendePagina
<1>2. /\ pcKer = "paginas" /\ pcKer' = "copia"
      /\ UNCHANGED <<marco, ram, swap, pcCpu, carga, ultimo>> /\ pcCpu' = "libre"
      BY DEF SuspendePagina, PasoKer, memoria, cpu, externo
<1>3. n \in Filas(p) /\ Presente(p, n) /\ n # SinPagina /\ marco[f].nroPagina = n
      BY <1>1, PaginaConFila, PaginasNaturales
         DEF EsMenor, ASuspender, FramesDeNumero, Presente, SinPagina
<1>4. fila[p][n].nroFrame = f
      BY <1>2, <1>3 DEF Escrito, DeVuelta
<1> DEFINE v == Bajada(fila[p][n])
<1>5. CambiaUna(fila, fila', p, n, v) /\ v.presencia = 0
  <2>1. fila[p][n] \in TipoFila
        BY <1>3, FilaTipada DEF Tipos
  <2>2. CambiaUna(fila, fila', p, n, v)
        BY <1>1, CambioDeFila DEF Tipos
  <2>3. QED
        BY <2>1, <2>2 DEF TipoFila, Bajada
<1> HIDE DEF v
<1>6. \A m \in PagAUsar(p) :
        /\ Presente(p, m)' <=> m # n /\ Presente(p, m)
        /\ m # n => fila'[p][m].nroFrame = fila[p][m].nroFrame
      BY <1>1, <1>3, <1>5, PaginaConFila DEF CambiaUna, Presente
<1>7. /\ Last(aLiberar') = f /\ \E i \in DOMAIN aLiberar' : aLiberar'[i] = f
      /\ \A i \in DOMAIN aLiberar : i \in DOMAIN aLiberar' /\ aLiberar'[i] = aLiberar[i]
  <2>1. aLiberar \in Seq(Frames)
        BY DEF Tipos, TiposKernel
  <2>2. Len(aLiberar') = Len(aLiberar) + 1 /\ aLiberar'[Len(aLiberar) + 1] = f
        /\ Len(aLiberar) + 1 \in DOMAIN aLiberar'
        BY <1>1, <2>1
  <2>3. \A i \in DOMAIN aLiberar : i \in DOMAIN aLiberar' /\ aLiberar'[i] = aLiberar[i]
        BY <1>1, <2>1
  <2>4. QED
        BY <2>2, <2>3 DEF Last
<1>8. ASSUME carga[p] # "fin", NEW m \in PagAUsar(p)
      PROVE  Contenido(p, m)' = ultimo'[p][m]
  <2>1. Contenido(p, m) = ultimo[p][m]
        BY <1>8 DEF Escrito, Contenidos
  <2>2. CASE m = n
    <3>1. Contenido(p, m) = ram[f]
          BY <1>3, <1>4, <2>2 DEF Contenido
    <3>2. Contenido(p, m)' = ram'[f]
          BY <1>1, <1>2, <1>6, <1>7, <2>2 DEF Contenido, Copiando
    <3>3. QED
          BY <1>2, <2>1, <3>1, <3>2
  <2>3. CASE m # n
    <3>1. Contenido(p, m)' = Contenido(p, m)
          BY <1>1, <1>2, <1>6, <2>3 DEF Contenido, Copiando
    <3>2. QED
          BY <1>2, <2>1, <3>1
  <2>4. QED
        BY <2>2, <2>3
<1>9. Contenidos(p)'
      BY <1>2, <1>8 DEF Contenidos
<1>10. ASSUME NEW g \in Frames, marco[g].nroPagina # SinPagina
       PROVE  \E m \in PagAUsar(p) :
                /\ marco[g].idProceso = p /\ marco[g].nroPagina = m
                /\ IF Presente(p, m)' THEN fila'[p][m].nroFrame = g ELSE PorLiberar(g)'
  <2>1. PICK m \in PagAUsar(p) :
            /\ marco[g].idProceso = p /\ m = marco[g].nroPagina
            /\ IF Presente(p, m) THEN fila[p][m].nroFrame = g ELSE PorLiberar(g)
        BY <1>2, <1>10 DEF Escrito, DeVuelta
  <2>2. PorLiberar(g) \/ g = f => PorLiberar(g)'
        BY <1>2, <1>7 DEF PorLiberar
  <2>3. QED
        BY <1>3, <1>4, <1>6, <2>1, <2>2
<1>11. DeVuelta(p)'
       BY <1>2, <1>10 DEF DeVuelta
<1>12. QED
       BY <1>9, <1>11

LEMMA EscritoEnCopia ==
    ASSUME Tipos, NEW p \in Pid, Reemplazo(p), Escrito(p), CopiaPagina, pidKer = p,
           pcCpu = "libre"
    PROVE  Contenidos(p)' /\ DeVuelta(p)'
<1> DEFINE n == paginaKer
           w == [fila[p][n] EXCEPT !.nroFrame = SinFrame]
<1>1. /\ pcKer = "copia" /\ pcKer' = "paginas" /\ pcCpu' = "libre"
      /\ swap' = write_frame(p, n, ram[Last(aLiberar)])
      /\ fila' = [fila EXCEPT ![p][n] = w]
      /\ UNCHANGED <<marco, ram, aLiberar, carga, ultimo>>
      BY DEF CopiaPagina, PasoKer, cpu, externo
<1>2. CambiaUna(fila, fila', p, n, w)
      BY <1>1, CambioDeFila DEF Tipos
<1>3. n \in Filas(p) => ~Presente(p, n) /\ w.presencia = fila[p][n].presencia
  <2>1. n \in Filas(p) => fila[p][n] \in TipoFila
        BY FilaTipada DEF Tipos
  <2>2. QED
        BY <1>1, <2>1 DEF TipoFila, Reemplazo, FilasBien, Copiando
<1> HIDE DEF w
<1>4. \A m \in PagAUsar(p) :
        /\ Presente(p, m)' <=> Presente(p, m)
        /\ Presente(p, m) => m # n /\ fila'[p][m].nroFrame = fila[p][m].nroFrame
        /\ swap'[p][m] = IF m = n THEN ram[Last(aLiberar)] ELSE swap[p][m]
  <2> SUFFICES ASSUME NEW m \in PagAUsar(p)
               PROVE  /\ Presente(p, m)' <=> Presente(p, m)
                      /\ Presente(p, m) => m # n /\ fila'[p][m].nroFrame = fila[p][m].nroFrame
                      /\ swap'[p][m] = IF m = n THEN ram[Last(aLiberar)] ELSE swap[p][m]
        OBVIOUS
  <2>1. m \in Filas(p)
        BY PaginaConFila
  <2> HIDE DEF n
  <2>2. swap'[p][m] = IF m = n THEN ram[Last(aLiberar)] ELSE swap[p][m]
        BY <1>1 DEF write_frame, Tipos, EsArchivo
  <2>3. QED
        BY <1>2, <1>3, <2>1, <2>2 DEF CambiaUna, Presente
<1>5. ASSUME carga[p] # "fin", NEW m \in PagAUsar(p)
      PROVE  Contenido(p, m)' = ultimo'[p][m]
  <2>1. Contenido(p, m) = ultimo[p][m]
        BY <1>5 DEF Escrito, Contenidos
  <2>2. Contenido(p, m)' = Contenido(p, m)
        BY <1>1, <1>4 DEF Contenido, Copiando
  <2>3. QED
        BY <1>1, <2>1, <2>2
<1>6. DeVuelta(p)'
      BY <1>1, <1>4 DEF Escrito, DeVuelta, PorLiberar
<1>7. QED
      BY <1>1, <1>5, <1>6 DEF Contenidos

LEMMA EscritoEnAsigna ==
    ASSUME Tipos, NEW p \in Pid, Reemplazo(p), Escrito(p), AsignaFrames, pidKer = p,
           pcCpu = "libre"
    PROVE  Contenidos(p)' /\ DeVuelta(p)'
<1>1. /\ pcKer = "asigna" /\ pcKer' = "libre" /\ pcCpu' = "libre"
      /\ UNCHANGED <<fila, ram, swap, aLiberar, ultimo>> /\ carga[p] = "entra"
      BY DEF AsignaFrames, PasoKer, tablas, cpu, Reemplazo, Ocupa, LoPedido
<1>2. \A f \in Frames : marco'[f].nroPagina # SinPagina => marco'[f] = marco[f]
  <2> SUFFICES ASSUME NEW f \in Frames, marco'[f].nroPagina # SinPagina
               PROVE  marco'[f] = marco[f]
        OBVIOUS
  <2>1. marco'[f] = IF f \in ALosQueToca THEN [marco[f] EXCEPT !.idProceso = pidKer]
                    ELSE marco[f]
        BY DEF AsignaFrames
  <2>2. f \in ALosQueToca => marco'[f].nroPagina = SinPagina
        BY <2>1 DEF ALosQueToca, Libre, Tipos, TiposMarco
  <2>3. QED
        BY <2>1, <2>2
<1>3. DeVuelta(p)'
      BY <1>1, <1>2 DEF Escrito, DeVuelta, PorLiberar, Presente
<1>4. Contenidos(p)'
      BY <1>1 DEF Escrito, Contenidos, Contenido, Presente, Copiando
<1>5. QED
      BY <1>3, <1>4

LEMMA EscritoEnLibera ==
    ASSUME Tipos, NEW p \in Pid, Reemplazo(p), Escrito(p), LiberaSuspendido, pidKer = p,
           pcCpu = "libre"
    PROVE  Contenidos(p)' /\ DeVuelta(p)'
<1> DEFINE g == Head(aLiberar)
<1>1. /\ pcKer = "libera" /\ pcKer' = "libera" /\ pcCpu' = "libre" /\ aLiberar # <<>>
      /\ aLiberar' = Tail(aLiberar) /\ UNCHANGED <<fila, swap, carga, ultimo>>
      /\ marco' = [f \in Frames |-> IF f = g THEN Vacio ELSE marco[f]]
      BY DEF LiberaSuspendido, liberarFrame_Tabla, PasoKer, tablas, cpu, externo
<1>2. \A n \in PagAUsar(p) : ~Presente(p, n) /\ ~Presente(p, n)'
      BY <1>1, PaginaConFila DEF Reemplazo, FilasBien, Presente
<1>3. Contenidos(p)'
      BY <1>1, <1>2 DEF Escrito, Contenidos, Contenido, Copiando
<1>4. ASSUME NEW f \in Frames, f # g, PorLiberar(f) PROVE PorLiberar(f)'
  <2>1. PICK i \in DOMAIN aLiberar : aLiberar[i] = f
        BY <1>4 DEF PorLiberar
  <2>2. aLiberar \in Seq(Frames) /\ i # 1
        BY <1>1, <1>4, <2>1 DEF Tipos, TiposKernel
  <2>3. i - 1 \in DOMAIN aLiberar' /\ aLiberar'[i - 1] = f
        BY <1>1, <2>1, <2>2
  <2>4. QED
        BY <1>1, <2>3 DEF PorLiberar
<1>5. ASSUME NEW f \in Frames, marco'[f].nroPagina # SinPagina
      PROVE  /\ f # g /\ marco'[f] = marco[f]
             /\ marco[f].idProceso = p /\ marco[f].nroPagina \in PagAUsar(p)
             /\ PorLiberar(f)
  <2>1. f # g /\ marco'[f] = marco[f]
        BY <1>1, <1>5 DEF Vacio
  <2>2. QED
        BY <1>1, <1>2, <1>5, <2>1 DEF Escrito, DeVuelta
<1> HIDE DEF g
<1>6. DeVuelta(p)'
      BY <1>1, <1>2, <1>4, <1>5 DEF DeVuelta
<1>7. QED
      BY <1>3, <1>6

LEMMA EscritoEnExit ==
    ASSUME Tipos, NEW p \in Pid, Reemplazo(p), Escrito(p), LiberaPagina, pidKer = p,
           pcCpu = "libre"
    PROVE  Contenidos(p)' /\ DeVuelta(p)'
<1> DEFINE k == paginaKer
           g == fila[p][k].nroFrame
           w == [Bajada(fila[p][k]) EXCEPT !.nroFrame = SinFrame]
<1>1. /\ pcKer = "salida" /\ pcKer' = "salida" /\ pcCpu' = "libre" /\ k \in PagAUsar(p)
      /\ fila' = [fila EXCEPT ![p][k] = w]
      /\ marco' = [f \in Frames |-> IF f = g THEN Vacio ELSE marco[f]]
      /\ UNCHANGED carga /\ carga[p] = "fin"
      BY DEF LiberaPagina, liberarFrame_Tabla, PasoKer, cpu, externo,
             Reemplazo, Ocupa, LoPedido
<1>2. CambiaUna(fila, fila', p, k, w)
      BY <1>1, CambioDeFila DEF Tipos
<1> HIDE DEF w
<1>3. ASSUME NEW f \in Frames, marco'[f].nroPagina # SinPagina
      PROVE  \E n \in PagAUsar(p) :
                /\ marco'[f].idProceso = p /\ marco'[f].nroPagina = n
                /\ Presente(p, n)' /\ fila'[p][n].nroFrame = f
  <2>1. f # g /\ marco'[f] = marco[f]
        BY <1>1, <1>3 DEF Vacio
  <2>2. PICK n \in PagAUsar(p) :
            /\ marco[f].idProceso = p /\ n = marco[f].nroPagina
            /\ Presente(p, n) /\ fila[p][n].nroFrame = f
        BY <1>1, <1>3, <2>1 DEF Escrito, DeVuelta, PorLiberar
  <2>3. n # k /\ n \in Filas(p)
        BY <2>1, <2>2, PaginaConFila
  <2> HIDE DEF k
  <2>4. Presente(p, n)' /\ fila'[p][n].nroFrame = f
        BY <1>2, <2>2, <2>3 DEF CambiaUna, Presente
  <2>5. QED
        BY <2>1, <2>2, <2>4
<1>4. DeVuelta(p)'
      BY <1>3 DEF DeVuelta
<1>5. QED
      BY <1>1, <1>4 DEF Contenidos

LEMMA EscritoEnKernel ==
    ASSUME Tipos, NEW p \in Pid, Reemplazo(p), Escrito(p), conexionKernel, pidKer = p,
           pcCpu = "libre"
    PROVE  Escrito(p)'
<1>1. pcCpu' = "libre"
      BY DEF conexionKernel, CreaTabla, AsignaFrames, suspender, pasarAExit, Toma2N,
             SuspendePagina, CopiaPagina, SuspendeSinFrame, FinSuspender,
             LiberaSuspendido, Suspendido, LiberaPagina, FinExit, cpu
<1>2. Contenidos(p)' /\ DeVuelta(p)'
  <2>1. CASE \/ SuspendePagina \/ CopiaPagina \/ AsignaFrames \/ LiberaSuspendido
             \/ LiberaPagina
        BY <2>1, EscritoEnSuspende, EscritoEnCopia, EscritoEnAsigna, EscritoEnLibera,
           EscritoEnExit
  <2>2. ~SuspendeSinFrame
    <3> SUFFICES ASSUME SuspendeSinFrame PROVE FALSE
          OBVIOUS
    <3>1. PICK n \in PagAUsar(p) : Presente(p, n) /\ FramesDeNumero(n) = {}
          BY DEF SuspendeSinFrame, EsMenor, ASuspender, Presente
    <3>2. /\ fila[p][n].nroFrame \in Frames
          /\ marco[fila[p][n].nroFrame] = [idProceso |-> p, nroPagina |-> n]
          BY <3>1, PaginaConFila, FilaPresente
    <3>3. marco[fila[p][n].nroFrame].nroPagina = n
          BY <3>2
    <3>4. QED
          BY <3>1, <3>2, <3>3 DEF FramesDeNumero
  <2>3. CASE \/ CreaTabla \/ Toma2N("suspende", "paginas") \/ Toma2N("exit", "salida")
             \/ FinSuspender \/ Suspendido \/ FinExit
    <3>1. /\ UNCHANGED <<fila, marco, ram, swap, ultimo, aLiberar, carga>>
          /\ pcKer # "copia" /\ pcKer' # "copia"
          /\ \/ pcKer \notin {"paginas", "copia", "libera"}
             \/ pcKer' \in {"paginas", "copia", "libera"}
             \/ aLiberar = <<>>
          BY <2>3 DEF CreaTabla, Toma2N, FinSuspender, Suspendido, FinExit, PasoKer,
                      tablas, memoria, externo
    <3>2. \A f : PorLiberar(f) => PorLiberar(f)'
          BY <3>1 DEF PorLiberar
    <3>3. MismoLugar(fila, fila') /\ \A n : Copiando(n)' <=> Copiando(n)
          BY <3>1 DEF MismoLugar, Copiando
    <3>4. QED
          BY <1>1, <3>1, <3>2, <3>3, EscritoQuieto, DeVueltaQuieta DEF Escrito
  <2>4. QED
        BY <2>1, <2>2, <2>3 DEF conexionKernel, suspender, pasarAExit
<1>3. Pedida(p)'
      BY <1>1 DEF Pedida
<1>4. QED
      BY <1>2, <1>3 DEF Escrito

LEMMA EscritoEnPedido ==
    ASSUME Tipos, NEW p \in Pid, Reemplazo(p), Escrito(p), Solo(p), Pedidos, ~Copia,
           ~Tarde, \A q \in Pid : ~PideSuspenderTarde(q)
    PROVE  Escrito(p)'
<1>1. UNCHANGED <<fila, marco, ram, swap, ultimo>>
      BY ControlEnPedido DEF Reemplazo, Control
<1>2. \/ /\ pcCpu = "libre" /\ pcCpu' = "traduce" /\ UNCHANGED <<kernel, carga>>
      \/ /\ pcKer = "libre" /\ pcKer' # "copia" /\ UNCHANGED cpu
         /\ carga'[p] # "fin" => carga[p] # "fin"
  <2>1. ASSUME NEW q \in Pid, NEW de, NEW a, NEW pc, "fin" \notin de, pc # "copia",
               Pide(q, de, a, pc)
        PROVE  /\ pcKer = "libre" /\ pcKer' # "copia" /\ UNCHANGED cpu
               /\ carga'[p] # "fin" => carga[p] # "fin"
        BY <2>1 DEF Pide, PasoKer, Reemplazo, Ocupa
  <2>2. CASE \E q \in Pid : PidePasarAReady(q) \/ PideSuspender(q) \/ PidePasarAExit(q)
        BY <2>1, <2>2 DEF PidePasarAReady, Fuera, PideSuspender, PidePasarAExit
  <2>3. CASE \E q \in Pid : \E n \in PagAUsar(q) : CpuPide(q, n)
        BY <2>3 DEF CpuPide, PasoCpu, externo
  <2>4. ~\E q \in Pid : pid = q /\ \E n \in PagAUsar(q) : CpuPideOrigen(n)
        BY DEF CpuPideOrigen
  <2>5. QED
        BY <2>2, <2>3, <2>4 DEF Pedidos
<1>3. DeVuelta(p)'
      BY <1>1, <1>2 DEF Escrito, DeVuelta, PorLiberar, Presente, cpu, kernel
<1>4. Pedida(p)'
      BY <1>1, <1>2 DEF Escrito, Pedida, Presente, cpu
<1>5. Contenidos(p)'
      BY <1>1, <1>2 DEF Escrito, Contenidos, Contenido, Copiando, Presente, cpu, kernel
<1>6. QED
      BY <1>3, <1>4, <1>5 DEF Escrito

LEMMA LoEscritoSigue ==
    ASSUME Tipos, FilasDeUno, LoEscrito, [Next]_vars,
           ALGORITMO = "CLOCK", ~Copia, UltimaFilaSobra
    PROVE  LoEscrito'
<1>1. destino' = SinDestino /\ EsArchivo(ultimo')
  <2>1. CASE conexionCPU
    <3>1. ~accesoMemoriaCopy
          BY DEF LoEscrito, accesoMemoriaCopy
    <3>2. destino' \in {destino, SinDestino}
          BY <2>1 DEF conexionCPU, BuscaPagina, Mira, TraduceEnRam, TraduceAusente,
             UsaPagina, LeeFrame, HayFrameLibre, NoHayFrameLibre,
               TomaFrames, GiraVictima, GiraSigue, FinVuelta, BuscaVieja, Carga,
               ActualizaTablas, ActualizaFrames, Marca, accesoMemoriaRead,
               accesoMemoriaCopy, accesoMemoriaWrite
    <3>3. \/ ultimo' = ultimo
          \/ \E v \in Valores : ultimo' = [ultimo EXCEPT ![pid][pagina] = v]
          BY <2>1, <3>1 DEF conexionCPU, BuscaPagina, Mira, TraduceEnRam, TraduceAusente,
             UsaPagina, LeeFrame, HayFrameLibre,
               NoHayFrameLibre, TomaFrames, GiraVictima, GiraSigue, FinVuelta, BuscaVieja,
               Carga, ActualizaTablas, ActualizaFrames, Marca, accesoMemoriaRead,
               accesoMemoriaWrite, externo
    <3>4. ASSUME NEW v, NEW n, v \in Valores
          PROVE  EsArchivo([ultimo EXCEPT ![pid][n] = v])
          BY <3>4 DEF LoEscrito, EsArchivo
    <3>5. EsArchivo(ultimo')
      <4>1. EsArchivo(ultimo)
            BY DEF LoEscrito
      <4>2. CASE ultimo' = ultimo
            BY <4>1, <4>2
      <4>3. ASSUME NEW v \in Valores, ultimo' = [ultimo EXCEPT ![pid][pagina] = v]
            PROVE  EsArchivo(ultimo')
        <5>1. EsArchivo([ultimo EXCEPT ![pid][pagina] = v])
              BY <3>4, <4>3
        <5>2. QED
              BY <4>3, <5>1
      <4>4. QED
            BY <3>3, <4>2, <4>3
    <3>6. QED
          BY <3>2, <3>5 DEF LoEscrito
  <2>2. CASE conexionKernel
    <3>1. UNCHANGED <<destino, ultimo>>
          BY <2>2 DEF conexionKernel, CreaTabla, AsignaFrames, suspender, pasarAExit, Toma2N,
               SuspendePagina, CopiaPagina, SuspendeSinFrame, FinSuspender,
               LiberaSuspendido, Suspendido, LiberaPagina, FinExit, cpu, externo
    <3>2. QED
          BY <3>1 DEF LoEscrito
  <2>3. CASE Pedidos \/ UNCHANGED vars
    <3>1. UNCHANGED <<destino, ultimo>>
          BY <2>3 DEF Pedidos, PidePasarAReady, PideSuspender, PideSuspenderTarde,
               PidePasarAExit, Pide, CpuPide, CpuPideOrigen, cpu, externo, vars
    <3>2. QED
          BY <3>1 DEF LoEscrito
  <2>4. QED
        BY <2>1, <2>2, <2>3 DEF Next
<1>2. ASSUME ~Tarde', NEW p \in Pid, Solo(p)'
      PROVE  Escrito(p)'
  <2> ~Tarde /\ \A q \in Pid : ~PideSuspenderTarde(q)
        BY <1>2, TardeQueda
  <2>1. Solo(p) /\ Reemplazo(p) /\ Escrito(p)
        BY <1>2, SoloAntes DEF FilasDeUno, LoEscrito
  <2>2. CASE conexionCPU
        BY <2>1, <2>2, EscritoEnCPU DEF LoEscrito
  <2>3. CASE conexionKernel
        BY <1>2, <2>1, <2>3, ControlEnKernel, EscritoEnKernel DEF Reemplazo, Control
  <2>4. CASE Pedidos
        BY <2>1, <2>4, EscritoEnPedido
  <2>5. CASE UNCHANGED vars
        BY <2>1, <2>5 DEF vars, tablas, memoria, cpu, kernel, externo, Escrito, DeVuelta,
             Pedida, Contenidos, Contenido, Copiando, PorLiberar, Presente
  <2>6. QED
        BY <2>2, <2>3, <2>4, <2>5 DEF Next
<1>3. QED
      BY <1>1, <1>2 DEF LoEscrito

LEMMA LoEscritoAlInicio == ASSUME Init PROVE LoEscrito
<1>1. /\ pcCpu = "libre" /\ pcKer = "libre" /\ destino = SinDestino
      /\ fila = [q \in Pid |-> [n \in Filas(q) |-> FilaNueva(q, n)]]
      /\ marco = [f \in Frames |-> Vacio]
      /\ swap = [q \in Pid |-> write_pid_completo(q)]
      /\ ultimo = [q \in Pid |-> [n \in PagAUsar(q) |-> Blanco]]
      BY DEF Init
<1>2. ASSUME NEW p \in Pid
      PROVE  Escrito(p)
  <2>1. \A n \in PagAUsar(p) : ~Presente(p, n) /\ swap[p][n] = ultimo[p][n]
        BY <1>1, PaginaConFila DEF FilaNueva, Presente, write_pid_completo
  <2>2. QED
        BY <1>1, <2>1 DEF Escrito, DeVuelta, Pedida, Contenidos, Contenido, Copiando, Vacio
<1>3. EsArchivo(ultimo)
      BY <1>1, BlancoEsValor DEF EsArchivo
<1>4. QED
      BY <1>1, <1>2, <1>3 DEF LoEscrito

LEMMA LoEscritoDice ==
    ASSUME Tipos, FilasDeUno, LoEscrito, UnaTabla
    PROVE  LeeLoEscrito
<1> SUFFICES ASSUME pcCpu = "accede", ~Tarde PROVE ram[frame] = ultimo[pid][pagina]
    BY DEF LeeLoEscrito
<1>1. PICK p \in Pid : Solo(p)
      BY UnaTablaEsSolo DEF Tipos, TiposCpu
<1>2. Reemplazo(p) /\ Escrito(p)
      BY <1>1 DEF FilasDeUno, LoEscrito
<1>3. pid = p /\ pagina \in PagAUsar(p) /\ carga[p] # "fin"
      BY <1>2, Turno DEF Reemplazo
<1>4. Presente(p, pagina) /\ fila[p][pagina].nroFrame = frame
      BY <1>2 DEF Escrito, Pedida
<1>5. Contenido(p, pagina) = ultimo[p][pagina]
      BY <1>2, <1>3 DEF Escrito, Contenidos
<1>6. QED
      BY <1>3, <1>4, <1>5 DEF Contenido

\* Under CLOCK a program reads what it wrote, for every size of the memory and
\* of the program and whatever is replaced, suspended while it is blocked or
\* loaded again in between (reemplazarEnRam, suspender, accesoMemoriaWrite),
\* until a SUSPENDER comes late (Kernel.c:353-362): suspender may then free
\* the frame between its choice and the write.  Each hypothesis is needed:
\* CLOCK-M loses what was written (peticiones.c:395), the second operand
\* of a COPY may take the frame of the first one, and a process that fills its
\* last table has its last page taken for the old one of an empty frame
\* (peticiones.c:421).
THEOREM SeLeeLoEscrito ==
    ASSUME ALGORITMO = "CLOCK", ~Copia, UltimaFilaSobra
    PROVE  Spec => [](UnaTabla => LeeLoEscrito)
<1>1. Init => Tipos /\ FilasDeUno /\ LoEscrito
      BY TiposAlInicio, FilasDeUnoAlInicio, LoEscritoAlInicio
<1>2. Tipos /\ FilasDeUno /\ LoEscrito /\ [Next]_vars
        => Tipos' /\ FilasDeUno' /\ LoEscrito'
      BY TiposSiguen, FilasDeUnoSigue, LoEscritoSigue
<1>3. Tipos /\ FilasDeUno /\ LoEscrito => (UnaTabla => LeeLoEscrito)
      BY LoEscritoDice
<1>4. QED
      BY <1>1, <1>2, <1>3, PTL DEF Spec

-----------------------------------------------------------------------------
(* What a program sees of the memory.                                      *)

UnProceso == \A p, q \in Pid : p = q

\* What each page should hold.
Esperado ==
    [p \in Pid |-> [n \in PagAUsar(p) |->
        IF carga[p] = "fin" THEN Blanco ELSE ultimo[p][n]]]

SegunLoEscrito == ~Tarde => PorPagina = Esperado

LEMMA SoloUno ==
    ASSUME UnProceso, Tipos, FilasDeUno, LoEscrito, ~Tarde, NEW p \in Pid
    PROVE  Reemplazo(p) /\ Escrito(p)
<1>1. orden \in Seq(Pid \X Nat)
      BY DEF Tipos, TiposKernel
<1>2. \A i \in DOMAIN orden : orden[i][1] \in Pid
      BY <1>1
<1>3. Solo(p)
      BY <1>2 DEF Solo, UnProceso
<1>4. QED
      BY <1>3 DEF FilasDeUno, LoEscrito

LEMMA PaginasSegunLoEscrito ==
    ASSUME UnProceso, Tipos, FilasDeUno, LoEscrito
    PROVE  SegunLoEscrito
<1> SUFFICES ASSUME ~Tarde PROVE PorPagina = Esperado
    BY DEF SegunLoEscrito
<1>1. ASSUME NEW p \in Pid, NEW n \in PagAUsar(p), carga[p] # "fin"
      PROVE  Contenido(p, n) = ultimo[p][n]
      BY <1>1, SoloUno DEF Escrito, Contenidos
<1>2. \A p \in Pid : \A n \in PagAUsar(p) :
        (IF carga[p] = "fin" THEN Blanco ELSE Contenido(p, n)) =
        (IF carga[p] = "fin" THEN Blanco ELSE ultimo[p][n])
      BY <1>1
<1>3. QED
      BY <1>2, Zenon DEF PorPagina, Esperado

LEMMA ProgramasAlInicio == ASSUME Init, SegunLoEscrito PROVE Programas!Init
<1>1. /\ carga = [p \in Pid |-> "nuevo"] /\ pcCpu = "libre"
      /\ ultimo = [p \in Pid |-> [n \in PagAUsar(p) |-> Blanco]]
      BY DEF Init
<1>2. Esperado = [p \in Pid |-> [n \in PagAUsar(p) |-> Blanco]]
  <2>1. \A p \in Pid : \A n \in PagAUsar(p) :
            (IF carga[p] = "fin" THEN Blanco ELSE ultimo[p][n]) = Blanco
        BY <1>1
  <2>2. QED
        BY <2>1, Zenon DEF Esperado
<1>3. ~Tarde /\ PorPagina = [p \in Pid |-> Programas!EnBlanco(p)]
      BY <1>2 DEF Init, Tarde, SegunLoEscrito, Programas!EnBlanco, Programas!PagAUsar, PagAUsar
<1>4. Servido = {} /\ Contestado = {} /\ {p \in Pid : carga[p] = "fin"} = {}
      BY <1>1 DEF Servido, Contestado
<1>5. QED
      BY <1>3, <1>4 DEF Programas!Init

\* A step that no program sees.
LEMMA NadaSeVe ==
    ASSUME SegunLoEscrito, SegunLoEscrito', ~Tarde, ~Tarde',
           UNCHANGED <<ultimo, Servido, Contestado>>,
           \A p \in Pid : carga'[p] = "fin" <=> carga[p] = "fin"
    PROVE  UNCHANGED Programas!vars
<1>1. Esperado' = Esperado
      BY DEF Esperado
<1>2. {p \in Pid : carga'[p] = "fin"} = {p \in Pid : carga[p] = "fin"}
      OBVIOUS
<1>3. Tarde' = Tarde
      BY DEF Tarde
<1>4. QED
      BY <1>1, <1>2, <1>3 DEF SegunLoEscrito, Programas!vars

LEMMA ProgramasEnCPU ==
    ASSUME UnProceso, Tipos, FilasDeUno, LoEscrito, conexionCPU,
           SegunLoEscrito, SegunLoEscrito', ~Tarde, ~Tarde'
    PROVE  Programas!Sirve \/ UNCHANGED Programas!vars
<1>1. PICK p \in Pid, n \in PagAUsar(pid) : p = pid /\ n = pagina
  <2>1. pcCpu # "libre"
        BY DEF conexionCPU, BuscaPagina, Mira, TraduceEnRam, TraduceAusente,
             UsaPagina, LeeFrame, HayFrameLibre, NoHayFrameLibre,
           TomaFrames, GiraVictima, GiraSigue, FinVuelta, BuscaVieja, Carga,
           ActualizaTablas, ActualizaFrames, Marca, accesoMemoriaRead, accesoMemoriaCopy,
           accesoMemoriaWrite, PasoCpu
  <2>2. QED
        BY <2>1 DEF Tipos, TiposCpu
<1>2. Reemplazo(p) /\ Escrito(p) /\ n \in Programas!PagAUsar(p)
      BY <1>1, SoloUno DEF Programas!PagAUsar, PagAUsar
<1>3. pcCpu # "libre" => carga[p] # "fin"
      BY <1>2, Turno DEF Reemplazo
<1>4. CASE Marca
  <2>1. /\ pcCpu \in {"leida", "escrita", "copiada"} /\ pcCpu' = "libre"
        /\ UNCHANGED <<carga, ultimo>>
        BY <1>4 DEF Marca, externo
  <2>2. Esperado' = Esperado
        BY <2>1 DEF Esperado
  <2>3. Contestado # {} /\ Contestado' = {} /\ Servido' = {}
        BY <2>1 DEF Contestado, Servido
  <2>4. Programas!Contesta
        BY <2>1, <2>2, <2>3 DEF Programas!Contesta, SegunLoEscrito
  <2>5. QED
        BY <2>4 DEF Programas!Sirve
<1>5. CASE accesoMemoriaRead
  <2>1. /\ pcCpu = "accede" /\ pcCpu' = "leida"
        /\ UNCHANGED <<carga, ultimo, pid, pagina, ram, frame>>
        BY <1>5 DEF accesoMemoriaRead, PasoCpu, externo, memoria
  <2>2. Esperado' = Esperado
        BY <2>1 DEF Esperado
  <2>3. Servido = {<<p, n>>} /\ Servido' = {<<p, n>>} /\ Contestado = {}
        BY <1>1, <2>1 DEF Contestado, Servido
  <2>4. ram[frame] = PorPagina[p][n]
    <3>1. Contenido(p, n) = ram[frame]
          BY <1>1, <1>2, <2>1 DEF Escrito, Pedida, Contenido
    <3>2. PorPagina[p][n] = Contenido(p, n)
          BY <1>1, <1>3, <2>1 DEF PorPagina
    <3>3. QED
          BY <3>1, <3>2
  <2>5. Contestado' = {PorPagina[p][n]}
        BY <2>1, <2>4 DEF Contestado
  <2>6. Programas!Lee(p, n)
        BY <2>1, <2>2, <2>3, <2>5 DEF Programas!Lee, SegunLoEscrito
  <2>7. QED
        BY <1>2, <2>6 DEF Programas!Sirve, Programas!Accede
<1>6. ASSUME NEW v \in Valores, accesoMemoriaWrite(v)
      PROVE  Programas!Escribe(p, n, v)
  <2>1. /\ pcCpu = "accede" /\ pcCpu' = "escrita"
        /\ UNCHANGED <<carga, pid, pagina, frame>>
        /\ EscribeRam(frame, v) /\ ultimo' = [ultimo EXCEPT ![pid][pagina] = v]
        BY <1>6 DEF accesoMemoriaWrite, PasoCpu
  <2>2. Servido = {<<p, n>>} /\ Servido' = {<<p, n>>} /\ Contestado = {}
        BY <1>1, <2>1 DEF Contestado, Servido
  <2>3. Contestado' = {v}
    <3>1. Presente(p, n) /\ fila[p][n].nroFrame = frame /\ n \in Filas(p)
          BY <1>1, <1>2, <2>1, PaginaConFila DEF Escrito, Pedida
    <3>2. frame \in Frames /\ DOMAIN ram = Frames
          BY <1>2, <3>1, FilaPresente DEF Tipos, TiposMarco
    <3>3. QED
          BY <2>1, <3>2 DEF Contestado, EscribeRam
  <2>4. \A q \in Pid : \A m \in PagAUsar(q) :
            ultimo'[q][m] = IF q = p /\ m = n THEN v ELSE ultimo[q][m]
        BY <1>1, <2>1 DEF LoEscrito, EsArchivo
  <2>5. Esperado' = [Esperado EXCEPT ![p][n] = v]
    <3>1. \A q \in Pid : \A m \in PagAUsar(q) :
            Esperado'[q][m] = IF q = p /\ m = n THEN v ELSE Esperado[q][m]
          BY <1>3, <2>1, <2>4 DEF Esperado
    <3>2. /\ Esperado' = [q \in Pid |-> [m \in PagAUsar(q) |-> Esperado'[q][m]]]
          /\ Esperado = [q \in Pid |-> [m \in PagAUsar(q) |-> Esperado[q][m]]]
          BY DEF Esperado
    <3>3. QED
          BY <1>1, <3>1, <3>2
  <2>6. QED
        BY <2>1, <2>2, <2>3, <2>5 DEF Programas!Escribe, SegunLoEscrito
<1>7. CASE ~Marca /\ ~accesoMemoriaRead /\ ~\E v \in Valores : accesoMemoriaWrite(v)
  <2>1. ~accesoMemoriaCopy
        BY DEF LoEscrito, accesoMemoriaCopy
  <2>2. /\ pcCpu \notin {"libre", "leida", "escrita", "copiada"}
        /\ pcCpu' \notin {"libre", "leida", "escrita", "copiada"}
        /\ UNCHANGED <<carga, ultimo, pid, pagina>>
        BY <1>7, <2>1 DEF conexionCPU, BuscaPagina, Mira, TraduceEnRam, TraduceAusente,
             UsaPagina, LeeFrame, HayFrameLibre,
           NoHayFrameLibre, TomaFrames, GiraVictima, GiraSigue, FinVuelta, BuscaVieja,
           Carga, ActualizaTablas, ActualizaFrames, PasoCpu, externo
  <2>3. UNCHANGED <<Servido, Contestado>>
        BY <2>2 DEF Servido, Contestado
  <2>4. QED
        BY <2>2, <2>3, NadaSeVe
<1>8. QED
  <2>1. CASE \E v \in Valores : accesoMemoriaWrite(v)
        BY <1>2, <1>6, <2>1 DEF Programas!Sirve, Programas!Accede
  <2>2. QED
        BY <1>4, <1>5, <1>7, <2>1

LEMMA ProgramasEnKernel ==
    ASSUME UnProceso, Tipos, FilasDeUno, LoEscrito, conexionKernel,
           SegunLoEscrito, SegunLoEscrito', ~Tarde, ~Tarde'
    PROVE  UNCHANGED Programas!vars
<1>1. UNCHANGED <<cpu, ultimo>>
      BY DEF conexionKernel, CreaTabla, AsignaFrames, suspender, pasarAExit, Toma2N,
         SuspendePagina, CopiaPagina, SuspendeSinFrame, FinSuspender, LiberaSuspendido,
         Suspendido, LiberaPagina, FinExit, externo
<1>2. pcCpu # "libre" => ram' = ram
  <2>1. pcCpu # "libre" => pcKer \in {"libre", "crea"}
        BY SoloUno, Turno DEF Reemplazo, Tipos, TiposCpu
  <2>2. pcKer \in {"libre", "crea"} => ram' = ram
        BY DEF conexionKernel, CreaTabla, AsignaFrames, suspender, pasarAExit, Toma2N,
           SuspendePagina, CopiaPagina, SuspendeSinFrame, FinSuspender, LiberaSuspendido,
           Suspendido, LiberaPagina, FinExit, PasoKer, memoria
  <2>3. QED
        BY <2>1, <2>2
<1>3. UNCHANGED <<Servido, Contestado>>
      BY <1>1, <1>2 DEF cpu, Servido, Contestado
<1>4. \A p \in Pid : carga'[p] = "fin" <=> carga[p] = "fin"
  <2>1. CASE AsignaFrames
    <3>1. pcKer = "asigna" /\ carga' = [carga EXCEPT ![pidKer] = "listo"]
          BY <2>1 DEF AsignaFrames, PasoKer
    <3>2. \A p \in Pid : Ocupa(p)
          BY SoloUno DEF Reemplazo
    <3>3. QED
          BY <3>1, <3>2 DEF Ocupa, LoPedido
  <2>2. CASE ~AsignaFrames
        BY <2>2 DEF conexionKernel, CreaTabla, suspender, pasarAExit, Toma2N,
           SuspendePagina, CopiaPagina, SuspendeSinFrame, FinSuspender, LiberaSuspendido,
           Suspendido, LiberaPagina, FinExit, externo
  <2>3. QED
        BY <2>1, <2>2
<1>5. QED
      BY <1>1, <1>3, <1>4, NadaSeVe

LEMMA ProgramasEnPedido ==
    ASSUME UnProceso, ~Copia, Tipos, FilasDeUno, LoEscrito, Pedidos,
           SegunLoEscrito, SegunLoEscrito', ~Tarde, ~Tarde',
           \A q \in Pid : ~PideSuspenderTarde(q)
    PROVE  Programas!Sirve \/ UNCHANGED Programas!vars
<1>1. DOMAIN carga = Pid
  <2>1. PICK p \in Pid : TRUE
        BY DEF Pedidos
  <2>2. QED
        BY <2>1, SoloUno DEF Reemplazo, Ocupa
<1>2. ASSUME NEW p \in Pid, PidePasarAReady(p) \/ PideSuspender(p)
      PROVE  UNCHANGED Programas!vars
  <2>1. /\ carga[p] # "fin" /\ \E a : a # "fin" /\ carga' = [carga EXCEPT ![p] = a]
        /\ UNCHANGED <<cpu, ram, ultimo>>
        BY <1>2 DEF PidePasarAReady, Fuera, PideSuspender, Pide, memoria
  <2>2. \A q \in Pid : carga'[q] = "fin" <=> carga[q] = "fin"
        BY <1>1, <2>1
  <2>3. UNCHANGED <<Servido, Contestado>>
        BY <2>1 DEF cpu, Servido, Contestado
  <2>4. QED
        BY <2>1, <2>2, <2>3, NadaSeVe
<1>3. ASSUME NEW p \in Pid, PidePasarAExit(p)
      PROVE  Programas!Sale(p)
  <2>1. /\ carga[p] = "listo" /\ pid # p /\ carga' = [carga EXCEPT ![p] = "fin"]
        /\ UNCHANGED <<cpu, ram, ultimo>>
        BY <1>3 DEF PidePasarAExit, Pide, memoria
  <2>2. UNCHANGED <<Servido, Contestado>>
        BY <2>1 DEF cpu, Servido, Contestado
  <2>3. \A n : <<p, n>> \notin Servido
        BY <2>1 DEF Servido
  <2>4. {q \in Pid : carga'[q] = "fin"} = {q \in Pid : carga[q] = "fin"} \cup {p}
        BY <1>1, <2>1
  <2>5. Esperado' = [Esperado EXCEPT ![p] = [n \in PagAUsar(p) |-> Blanco]]
        BY <1>1, <2>1 DEF Esperado
  <2>6. QED
        BY <2>1, <2>2, <2>3, <2>4, <2>5 DEF Programas!Sale, Programas!EnBlanco,
           Programas!PagAUsar, PagAUsar, SegunLoEscrito
<1>4. ASSUME NEW p \in Pid, NEW n \in PagAUsar(p), CpuPide(p, n)
      PROVE  Programas!Pide(p, n)
  <2>1. /\ pcCpu = "libre" /\ pcCpu' = "traduce" /\ carga[p] = "listo"
        /\ pid' = p /\ pagina' = n /\ UNCHANGED <<carga, ultimo>>
        BY <1>4 DEF CpuPide, PasoCpu, externo
  <2>2. Esperado' = Esperado
        BY <2>1 DEF Esperado
  <2>3. Servido = {} /\ Servido' = {<<p, n>>} /\ Contestado = {} /\ Contestado' = {}
        BY <2>1 DEF Servido, Contestado
  <2>4. QED
        BY <2>1, <2>2, <2>3 DEF Programas!Pide, Programas!PagAUsar, PagAUsar,
           SegunLoEscrito
<1>5. ~\E n : CpuPideOrigen(n)
      BY DEF CpuPideOrigen
<1>6. CASE \E p \in Pid : PidePasarAReady(p) \/ PideSuspender(p)
      BY <1>2, <1>6
<1>7. CASE \E p \in Pid : PidePasarAExit(p)
      BY <1>3, <1>7 DEF Programas!Sirve
<1>8. CASE \E p \in Pid : \E n \in PagAUsar(p) : CpuPide(p, n)
      BY <1>4, <1>8 DEF Programas!Sirve, Programas!Accede, Programas!PagAUsar, PagAUsar
<1>9. QED
      BY <1>5, <1>6, <1>7, <1>8 DEF Pedidos

\* The memory of one process implements a value for each page, until a
\* SUSPENDER comes late: no order of loads, replacements, suspensions of the
\* process while it is blocked and reloads changes what a page holds, where it
\* is at that moment being a frame, the file or the frame that suspender is
\* about to copy (reemplazarEnRam, suspender, pasarAReady).
THEOREM UnaMemoriaDeValores ==
    ASSUME ALGORITMO = "CLOCK", ~Copia, UltimaFilaSobra, UnProceso
    PROVE  Spec => ImplementaMemoria
<1>1. Init => Tipos /\ FilasDeUno /\ LoEscrito
      BY TiposAlInicio, FilasDeUnoAlInicio, LoEscritoAlInicio
<1>2. Tipos /\ FilasDeUno /\ LoEscrito /\ [Next]_vars
        => Tipos' /\ FilasDeUno' /\ LoEscrito'
      BY TiposSiguen, FilasDeUnoSigue, LoEscritoSigue
<1>3. Tipos /\ FilasDeUno /\ LoEscrito => SegunLoEscrito
      BY PaginasSegunLoEscrito
<1>4. Init /\ SegunLoEscrito => Programas!Init
      BY ProgramasAlInicio
<1>5. Tipos /\ FilasDeUno /\ LoEscrito /\ SegunLoEscrito /\ SegunLoEscrito' /\ [Next]_vars
        => [Programas!Next]_(Programas!vars)
  <2> SUFFICES ASSUME Tipos, FilasDeUno, LoEscrito, SegunLoEscrito, SegunLoEscrito',
                      [Next]_vars
               PROVE  Programas!Next \/ UNCHANGED Programas!vars
      OBVIOUS
  <2>1. CASE Tarde'
        BY <2>1 DEF Programas!Next
  <2>2. CASE ~Tarde'
    <3>1. ~Tarde /\ \A p \in Pid : ~PideSuspenderTarde(p)
          BY <2>2, TardeQueda
    <3>2. CASE UNCHANGED vars
          BY <2>2, <3>1, <3>2, NadaSeVe DEF vars, cpu, memoria, externo, Servido, Contestado
    <3>3. CASE Next
      <4>1. Programas!Sirve \/ UNCHANGED Programas!vars
            BY <2>2, <3>1, <3>3, ProgramasEnCPU, ProgramasEnKernel, ProgramasEnPedido
               DEF Next
      <4>2. QED
            BY <2>2, <3>1, <4>1 DEF Programas!Next
    <3>4. QED
          BY <3>2, <3>3
  <2>3. QED
        BY <2>1, <2>2
<1>6. QED
      BY <1>1, <1>2, <1>3, <1>4, <1>5, PTL DEF Spec, ImplementaMemoria,
         Programas!MemoriaSpec

=============================================================================
