-------------------------- MODULE CpuMemoriaProofs --------------------------
(***************************************************************************)
(* The CPU over MemoriaSwap: while no SUSPENDER comes late the composition *)
(* implements the CPU; while the Kernel suspends no process the            *)
(* translations that the CPU keeps are of frames of the process that runs; *)
(* while one process has tables and no SUSPENDER came late its rows and    *)
(* the newest translation agree with the table of frames.                  *)
(***************************************************************************)
EXTENDS CpuMemoriaPropiedades, MemoriaFilas, SequenceTheorems

EnCurso == {"fetch", "traduce", "primer_llamado", "segundo_llamado", "acceso", "revisa"}

\* What the memory may answer.
Respuestas == Frames \cup {SinFrame}

\* The dispatch thread, and what it has from the memory.
Enlace ==
    /\ pcDispatch \in EnCurso => pcb \in Pid /\ operandos \in Seq(PagAUsar(pcb))
    /\ pcDispatch \notin EnCurso => pcb = Nadie /\ operandos = <<>>
    /\ marcos \in Seq(Respuestas)
    /\ pcDispatch \in {"traduce", "primer_llamado", "segundo_llamado"} => Len(operandos) >= 1
    /\ pcDispatch \in {"primer_llamado", "segundo_llamado"} => Len(marcos) < Len(operandos)
    /\ pid # Nadie => pid = pcb
    /\ pcCpu = "libre" => pid = Nadie
    /\ pcCpu # "libre" => pcDispatch \in {"segundo_llamado", "acceso"}

LEMMA ListaVacia == \A S : <<>> \in Seq(S)
OBVIOUS

LEMMA SistemaAlInicio == ASSUME SistemaInit PROVE C!CpuInit /\ Tipos /\ Enlace
<1>1. Init /\ C!CpuInit
      BY DEF SistemaInit
<1>2. /\ marcos = <<>> /\ pcDispatch = "libre" /\ pcb = Nadie /\ operandos = <<>>
      /\ pid = Nadie /\ pcCpu = "libre"
      BY <1>1 DEF C!CpuInit, Init
<1>3. marcos \in Seq(Respuestas)
      BY <1>2, ListaVacia
<1>4. QED
      BY <1>1, <1>2, <1>3, TiposAlInicio DEF Enlace, EnCurso

-----------------------------------------------------------------------------
(* Each step of the composition, for the memory.                           *)

\* The last of a list.
LEMMA UltimoDe ==
    ASSUME NEW S, NEW s \in Seq(S), Len(s) >= 1
    PROVE  Last(s) \in S
BY DEF Last

LEMMA PasoDeMemoria ==
    ASSUME Enlace, [SistemaNext]_sistema
    PROVE  \/ [Next]_vars
           \/ RespondeTraduccion
           \/ PideAcceso
<1>1. CASE SoloCpu \/ UNCHANGED sistema
      BY <1>1 DEF SoloCpu, sistema
<1>2. CASE PideTraduccion
  <2>1. pcb \in Pid /\ CpuPide(pcb, C!Pagina) /\ C!Pagina \in PagAUsar(pcb)
        BY <1>2 DEF PideTraduccion, CpuPide, C!SegundoLlamado, C!PasoDispatch, Enlace,
                    EnCurso
  <2>2. QED
        BY <2>1 DEF Next, Pedidos
<1>3. CASE RespondeAcceso
      BY <1>3 DEF RespondeAcceso, Next, conexionCPU
<1>4. CASE SoloMemoria
  <2>1. Busqueda \/ Acceso => conexionCPU
        BY DEF Busqueda, Acceso, conexionCPU
  <2>2. PedidosKernel => Pedidos
        BY DEF PedidosKernel, Pedidos
  <2>3. QED
        BY <1>4, <2>1, <2>2 DEF SoloMemoria, Next
<1>5. QED
      BY <1>1, <1>2, <1>3, <1>4 DEF SistemaNext

\* What PideAcceso sends.
LEMMA AccesoTipado ==
    ASSUME Enlace, PideAcceso
    PROVE  /\ pid' \in Pid /\ pid' = pcb /\ pagina' \in PagAUsar(pcb)
           /\ Len(marcos) >= 1 /\ frame' = Last(marcos) /\ frame' \in Respuestas
<1>1. /\ pcDispatch = "traduce" /\ ~(Len(marcos) < Len(operandos))
      /\ pid' = pcb /\ pagina' = Last(operandos) /\ frame' = Last(marcos)
      BY DEF PideAcceso, C!Accede, C!PasoDispatch, C!Falta
<1>2. /\ pcb \in Pid /\ operandos \in Seq(PagAUsar(pcb)) /\ Len(operandos) >= 1
      /\ marcos \in Seq(Respuestas)
      BY <1>1 DEF Enlace, EnCurso
<1>3. Len(marcos) >= 1
      BY <1>1, <1>2
<1>4. QED
      BY <1>1, <1>2, <1>3, UltimoDe

LEMMA TiposDelSistema ==
    ASSUME Tipos, Enlace, [SistemaNext]_sistema
    PROVE  Tipos'
<1>1. CASE [Next]_vars
      BY <1>1, TiposSiguen
<1>2. CASE RespondeTraduccion
  <2>1. /\ UNCHANGED <<tablas, memoria, posicionClock, mutexes, vuelta, giro, kernel,
                       frame, externo>>
        /\ pcCpu' = "libre" /\ pid' = Nadie
        BY <1>2 DEF RespondeTraduccion, PasoCpu
  <2>2. TiposCpu'
        BY <2>1 DEF Tipos, TiposCpu, PcCpu, Cargando
  <2>3. QED
        BY <2>1, <2>2 DEF Tipos, TiposMarco, TiposKernel, TiposPedidos, tablas, memoria,
                          mutexes, kernel, externo, pedidas
<1>3. CASE PideAcceso
  <2>1. /\ UNCHANGED <<tablas, memoria, posicionClock, mutexes, vuelta, giro, kernel,
                       externo>>
        /\ pcCpu' = "accede"
        BY <1>3 DEF PideAcceso, PasoCpu
  <2>2. pid' \in Pid /\ pagina' \in PagAUsar(pid') /\ frame' \in Frames \cup {SinFrame}
        BY <1>3, AccesoTipado DEF Respuestas
  <2>3. TiposCpu'
        BY <2>1, <2>2 DEF Tipos, TiposCpu, PcCpu, Cargando
  <2>4. QED
        BY <2>1, <2>3 DEF Tipos, TiposMarco, TiposKernel, TiposPedidos, tablas, memoria,
                          mutexes, kernel, externo, pedidas
<1>4. QED
      BY <1>1, <1>2, <1>3, PasoDeMemoria

-----------------------------------------------------------------------------
(* Each step of the composition, for the CPU.                              *)

LEMMA ListasCortas ==
    \A S : \A a, b \in S : <<a>> \in Seq(S) /\ <<a, b>> \in Seq(S)
OBVIOUS

\* The instructions of a program.
LEMMA OperandosPropios ==
    ASSUME pcb \in Pid, Instrucciones
    PROVE  /\ \/ /\ pcDispatch' \in {"revisa", "limpia"} /\ operandos' = <<>>
                 /\ (pcDispatch' = "limpia" => pcb' = Nadie)
                 /\ (pcDispatch' = "revisa" => pcb' = pcb)
              \/ /\ pcDispatch' = "traduce" /\ pcb' = pcb
                 /\ operandos' \in Seq(PagAUsar(pcb)) /\ Len(operandos') >= 1
           /\ pcDispatch = "fetch" /\ marcos' = <<>>
<1> USE DEF C!Instruccion, C!PasoDispatch
<1>1. CASE C!NoOp \/ C!Devuelve
      BY <1>1 DEF C!NoOp, C!Devuelve, C!SinMarcos
<1>2. CASE \E n \in PagAUsar(pcb) : C!Read(n) \/ C!Write(n)
  <2>1. PICK n \in PagAUsar(pcb) : operandos' = <<n>>
        BY <1>2 DEF C!Read, C!Write
  <2>2. operandos' \in Seq(PagAUsar(pcb)) /\ Len(operandos') >= 1
        BY <2>1, ListasCortas
  <2>3. QED
        BY <1>2, <2>2 DEF C!Read, C!Write
<1>3. CASE \E n, m \in PagAUsar(pcb) : C!Copy(n, m)
  <2>1. PICK n \in PagAUsar(pcb), m \in PagAUsar(pcb) : operandos' = <<m, n>>
        BY <1>3 DEF C!Copy
  <2>2. operandos' \in Seq(PagAUsar(pcb)) /\ Len(operandos') >= 1
        BY <2>1, ListasCortas
  <2>3. QED
        BY <1>3, <2>2 DEF C!Copy
<1>4. QED
      BY <1>1, <1>2, <1>3 DEF Instrucciones

LEMMA EnlaceEnSoloCpu ==
    ASSUME Enlace, SoloCpu
    PROVE  Enlace'
<1> USE DEF Enlace, EnCurso, C!PasoDispatch
<1>1. pid' = pid /\ pcCpu' = pcCpu
      BY DEF SoloCpu, vars, cpu
<1>2. CASE pcb \in Pid /\ Instrucciones
  <2>1. /\ \/ /\ pcDispatch' \in {"revisa", "limpia"} /\ operandos' = <<>>
              /\ (pcDispatch' = "limpia" => pcb' = Nadie)
              /\ (pcDispatch' = "revisa" => pcb' = pcb)
           \/ /\ pcDispatch' = "traduce" /\ pcb' = pcb
              /\ operandos' \in Seq(PagAUsar(pcb)) /\ Len(operandos') >= 1
        /\ pcDispatch = "fetch" /\ marcos' = <<>>
        BY <1>2, OperandosPropios
  <2>2. marcos' \in Seq(Respuestas) /\ <<>> \in Seq(PagAUsar(pcb))
        BY <2>1, ListaVacia
  <2>3. QED
        BY <1>1, <1>2, <2>1, <2>2
<1>3. CASE \E f \in Frames : C!Acierta(f)
  <2>1. PICK f \in Frames : C!Acierta(f)
        BY <1>3
  <2>2. /\ UNCHANGED <<pcb, operandos, pcDispatch>> /\ pcDispatch = "traduce"
        /\ marcos' = Append(marcos, f)
        BY <2>1 DEF C!Acierta
  <2>3. marcos' \in Seq(Respuestas)
        BY <2>2 DEF Respuestas
  <2>4. QED
        BY <1>1, <2>2, <2>3
<1>4. CASE \E p \in Pid : Recibe(p)
  <2>1. PICK p \in Pid : C!Recibe(p)
        BY <1>4 DEF Recibe
  <2>2. /\ pcDispatch = "libre" /\ pcDispatch' = "fetch" /\ pcb' = p
        /\ UNCHANGED <<operandos, marcos>>
        BY <2>1 DEF C!Recibe, C!ciclo
  <2>3. operandos' \in Seq(PagAUsar(p))
        BY <2>2, ListaVacia
  <2>4. QED
        BY <1>1, <2>2, <2>3
<1>5. CASE C!Sigue \/ C!Desaloja
  <2>1. /\ pcDispatch = "revisa" /\ operandos' = <<>> /\ marcos' = <<>>
        /\ \/ pcDispatch' = "fetch" /\ pcb' = pcb
           \/ pcDispatch' = "baja" /\ pcb' = Nadie
        BY <1>5 DEF C!Sigue, C!Desaloja, C!SinMarcos
  <2>2. marcos' \in Seq(Respuestas) /\ <<>> \in Seq(PagAUsar(pcb))
        BY <2>1, ListaVacia
  <2>3. QED
        BY <1>1, <2>1, <2>2
<1>6. CASE C!Falla \/ C!Baja \/ C!Limpia \/ C!iniciarInterrupt
  <2>1. /\ UNCHANGED <<pcb, operandos, marcos>>
        /\ \/ pcDispatch = "traduce" /\ pcDispatch' = "primer_llamado"
           \/ pcDispatch = "baja" /\ pcDispatch' = "limpia"
           \/ pcDispatch = "limpia" /\ pcDispatch' = "libre"
           \/ pcDispatch' = pcDispatch
        BY <1>6 DEF C!Falla, C!Baja, C!Limpia, C!iniciarInterrupt, C!ciclo
  <2>2. pcDispatch' = "primer_llamado" => Len(marcos) < Len(operandos)
        BY <1>6 DEF C!Falla, C!Baja, C!Limpia, C!iniciarInterrupt, C!Falta
  <2>3. QED
        BY <1>1, <2>1, <2>2
<1>7. QED
      BY <1>2, <1>3, <1>4, <1>5, <1>6 DEF SoloCpu

LEMMA EnlaceEnSoloMemoria ==
    ASSUME Tipos, Enlace, SoloMemoria
    PROVE  Enlace'
<1>1. UNCHANGED <<pcDispatch, pcb, operandos, marcos>>
      BY DEF SoloMemoria, cpuVars
<1>2. CASE Busqueda \/ Acceso
  <2>1. pcCpu # "libre" /\ pcCpu' # "libre" /\ pid' = pid
        BY <1>2 DEF Busqueda, Acceso, PasoCpu, BuscaPagina, Mira, TraduceEnRam, TraduceAusente,
             UsaPagina, LeeFrame,
             HayFrameLibre, NoHayFrameLibre, TomaFrames, GiraVictima, GiraSigue, FinVuelta,
             BuscaVieja, Carga, ActualizaTablas, ActualizaFrames, accesoMemoriaRead,
             accesoMemoriaCopy, accesoMemoriaWrite
  <2>2. QED
        BY <1>1, <2>1 DEF Enlace
<1>3. CASE conexionKernel
  <2>1. pcCpu' = pcCpu /\ pid' = pid
        BY <1>3 DEF conexionKernel, suspender, pasarAExit, CreaTabla, AsignaFrames, Toma2N,
             SuspendePagina, CopiaPagina, SuspendeSinFrame, FinSuspender, LiberaSuspendido,
             Suspendido, LiberaPagina, FinExit, cpu
  <2>2. QED
        BY <1>1, <2>1 DEF Enlace
<1>4. CASE PedidosKernel
  <2>1. pcCpu' = pcCpu /\ pid' = pid
        BY <1>4 DEF PedidosKernel, PidePasarAReady, PideSuspender, PideSuspenderTarde,
             PidePasarAExit, Pide, cpu
  <2>2. QED
        BY <1>1, <2>1 DEF Enlace
<1>5. QED
      BY <1>2, <1>3, <1>4 DEF SoloMemoria

LEMMA EnlaceSigue ==
    ASSUME Tipos, Enlace, [SistemaNext]_sistema
    PROVE  Enlace'
<1> USE DEF Enlace, EnCurso, C!PasoDispatch, PasoCpu
<1>1. CASE UNCHANGED sistema
      BY <1>1 DEF sistema, vars, cpuVars, cpu
<1>2. CASE PideTraduccion
      BY <1>2 DEF PideTraduccion, CpuPide, C!SegundoLlamado, C!ciclo
<1>3. CASE RespondeTraduccion
  <2>1. /\ pcDispatch = "segundo_llamado" /\ pcDispatch' = "traduce"
        /\ UNCHANGED <<pcb, operandos>> /\ marcos' = Append(marcos, frame)
        /\ pcCpu = "accede" /\ pcCpu' = "libre" /\ pid' = Nadie
        BY <1>3 DEF RespondeTraduccion, C!Traduce
  <2>2. frame \in Respuestas
        BY DEF Tipos, TiposCpu, Respuestas
  <2>3. marcos' \in Seq(Respuestas)
        BY <2>1, <2>2
  <2>4. QED
        BY <2>1, <2>3
<1>4. CASE PideAcceso
      BY <1>4 DEF PideAcceso, C!Accede, C!ciclo
<1>5. CASE RespondeAcceso
      BY <1>5 DEF RespondeAcceso, Marca, C!Respuesta, C!ciclo
<1>6. QED
      BY <1>1, <1>2, <1>3, <1>4, <1>5, EnlaceEnSoloCpu, EnlaceEnSoloMemoria DEF SistemaNext

LEMMA PasoDeCpu ==
    ASSUME Enlace, RespondeTraduccion => frame \in Frames, [SistemaNext]_sistema
    PROVE  [C!CpuNext]_(C!cpuVars)
<1> USE DEF C!CpuNext, C!cicloInstruccion, C!Fetch, C!Traduccion
<1>1. \A p \in Pid : PagAUsar(p) \subseteq NumerosDePagina
      BY DEF NumerosDePagina
<1>2. CASE SoloCpu
  <2>1. CASE pcb \in Pid /\ Instrucciones
    <3>1. PagAUsar(pcb) \subseteq NumerosDePagina
          BY <1>1, <2>1
    <3>2. \/ C!NoOp \/ C!Devuelve
          \/ \E n \in NumerosDePagina :
                C!Read(n) \/ C!Write(n) \/ \E m \in NumerosDePagina : C!Copy(n, m)
          BY <2>1, <3>1 DEF Instrucciones
    <3>3. C!Fetch
          BY <3>2
    <3>4. QED
          BY <3>3
  <2>2. QED
        BY <1>2, <2>1 DEF SoloCpu, Recibe
<1>3. CASE SoloMemoria \/ UNCHANGED sistema
      BY <1>3 DEF SoloMemoria, sistema, cpuVars, C!cpuVars, C!ciclo, C!cuentas, C!tlb
<1>4. CASE PideTraduccion \/ PideAcceso \/ RespondeAcceso
      BY <1>4 DEF PideTraduccion, PideAcceso, RespondeAcceso
<1>5. CASE RespondeTraduccion
  <2>1. frame \in Frames /\ C!Traduce(frame)
        BY <1>5 DEF RespondeTraduccion
  <2>2. QED
        BY <2>1
<1>6. QED
      BY <1>2, <1>3, <1>4, <1>5 DEF SistemaNext

-----------------------------------------------------------------------------
(* Without suspensions the translations are of the process that runs.      *)

EntradasDe(p) == [nroPagina : NumerosDePagina, nroFrame : DeProceso(p)]

\* The process that the CPU has is loaded, and it is its owner of the frames
\* of its translations.  While the TLB waits to be emptied no process runs.
Traducidas ==
    /\ size \in Nat \ {0}
    /\ pcDispatch \in EnCurso =>
        /\ carga[pcb] = "listo"
        /\ entradas \in Seq(EntradasDe(pcb)) /\ marcos \in Seq(DeProceso(pcb))
    /\ pcDispatch = "libre" => entradas = <<>>
    /\ pcDispatch \notin EnCurso => marcos = <<>>

LEMMA TraducidasDice == Enlace /\ Traducidas => TraduccionesPropias
<1> SUFFICES ASSUME Enlace, Traducidas, pcb # Nadie
             PROVE  TraduccionesPropias
    BY DEF TraduccionesPropias
<1>1. entradas \in Seq(EntradasDe(pcb)) /\ marcos \in Seq(DeProceso(pcb))
      BY DEF Enlace, Traducidas
<1>2. \A i \in DOMAIN entradas : entradas[i].nroFrame \in DeProceso(pcb)
  <2>1. \A i \in DOMAIN entradas : entradas[i] \in EntradasDe(pcb)
        BY <1>1
  <2>2. QED
        BY <2>1 DEF EntradasDe
<1>3. \A i \in DOMAIN marcos : marcos[i] \in DeProceso(pcb)
      BY <1>1
<1>4. QED
      BY <1>2, <1>3 DEF DeProceso, TraduccionesPropias

LEMMA TraducidasAlInicio == ASSUME SistemaInit PROVE Traducidas
<1>1. /\ size \in ENTRADAS_TLB /\ pcDispatch = "libre" /\ entradas = <<>> /\ marcos = <<>>
      BY DEF SistemaInit, C!CpuInit, C!iniciar_TLB
<1>2. ENTRADAS_TLB \subseteq Nat \ {0}
      BY EntradasDeLaTLB
<1>3. QED
      BY <1>1, <1>2 DEF Traducidas, EnCurso

-----------------------------------------------------------------------------
(* What a step leaves in the TLB.                                          *)

LEMMA SinUna ==
    ASSUME NEW S, NEW s \in Seq(S), NEW i \in 1..Len(s)
    PROVE  C!Quitar(s, i) \in Seq(S)
<1>1. SubSeq(s, 1, i - 1) \in Seq(S) /\ SubSeq(s, i + 1, Len(s)) \in Seq(S)
      OBVIOUS
<1>2. QED
      BY <1>1, ConcatProperties DEF C!Quitar

LEMMA ConUna ==
    ASSUME NEW S, NEW s \in Seq(S), NEW e \in S
    PROVE  C!AlFrente(e, s) \in Seq(S)
BY DEF C!AlFrente

LEMMA BuscaDeja ==
    ASSUME NEW S, entradas \in Seq(S), NEW n, NEW f, C!buscar_en_TLB(n, f)
    PROVE  /\ entradas' \in Seq(S) /\ size' = size
           /\ \E e \in S : f = e.nroFrame
<1>1. PICK i \in DOMAIN entradas :
        /\ f = entradas[i].nroFrame
        /\ entradas' = IF algoritmo = "LRU"
                       THEN C!AlFrente(entradas[i], C!Quitar(entradas, i))
                       ELSE entradas
      BY DEF C!buscar_en_TLB
<1>2. i \in 1..Len(entradas) /\ entradas[i] \in S
      OBVIOUS
<1>3. C!AlFrente(entradas[i], C!Quitar(entradas, i)) \in Seq(S)
      BY <1>2, SinUna, ConUna
<1>4. QED
      BY <1>1, <1>2, <1>3 DEF C!buscar_en_TLB

LEMMA FallaDeja ==
    ASSUME NEW S, entradas \in Seq(S), C!Falla
    PROVE  entradas' \in Seq(S) /\ size' = size
<1>1. PICK n, f : UNCHANGED C!tlb \/ C!buscar_en_TLB(n, f)
      BY DEF C!Falla, C!buscar_en_vano
<1>2. QED
      BY <1>1, BuscaDeja DEF C!tlb

LEMMA ActualizaDeja ==
    ASSUME NEW S, entradas \in Seq(S), size \in Nat \ {0}, NEW n, NEW f,
           [nroPagina |-> n, nroFrame |-> f] \in S, C!actualizar_TLB(n, f)
    PROVE  entradas' \in Seq(S) /\ size' = size
<1> DEFINE e == [nroPagina |-> n, nroFrame |-> f]
           Sale(i) == ~C!tlbTieneEntradasLibres /\ entradas' = C!AlFrente(e, C!Quitar(entradas, i))
<1>1. /\ \/ entradas' = C!AlFrente(e, entradas)
         \/ Sale(Len(entradas)) \/ Sale(size)
      /\ size' = size
      BY DEF C!actualizar_TLB, C!llenar_TLB, C!reemplazo_lru, C!reemplazo_fifo
<1>2. CASE Sale(Len(entradas)) \/ Sale(size)
  <2>1. PICK i : Sale(i) /\ (i = Len(entradas) \/ i = size)
        BY <1>2
  <2>2. i \in 1..Len(entradas)
        BY <2>1 DEF C!tlbTieneEntradasLibres
  <2>3. C!Quitar(entradas, i) \in Seq(S)
        BY <2>2, SinUna
  <2>4. QED
        BY <1>1, <2>1, <2>3, ConUna
<1>3. CASE entradas' = C!AlFrente(e, entradas)
      BY <1>1, <1>3, ConUna
<1>4. QED
      BY <1>1, <1>2, <1>3

-----------------------------------------------------------------------------
(* The owners, in each step.                                               *)

LEMMA PropiedadDelSistema ==
    ASSUME Tipos, Propiedad, Enlace, Traducidas, MaxSuspensiones = 0, [SistemaNext]_sistema
    PROVE  Propiedad'
<1>1. CASE [Next]_vars
      BY <1>1, PropiedadSigue
<1> USE DEF Propiedad, FilasVacias, FramesDeFilas, FilaUsada, DeProceso, Tarde, tablas,
            memoria, kernel, externo, pedidas
<1>2. CASE RespondeTraduccion
  <2>1. UNCHANGED <<tablas, memoria, kernel, externo>> /\ pcCpu' = "libre" /\ pid' = Nadie
        BY <1>2 DEF RespondeTraduccion, PasoCpu
  <2>2. QED
        BY <2>1 DEF UsaElFrame, Cargando
<1>3. CASE PideAcceso
  <2>1. /\ UNCHANGED <<tablas, memoria, kernel, externo>> /\ pcCpu' = "accede"
        /\ pcDispatch = "traduce"
        BY <1>3 DEF PideAcceso, PasoCpu, C!Accede, C!PasoDispatch
  <2>2. pid' = pcb /\ pcb \in Pid /\ Len(marcos) >= 1 /\ frame' = Last(marcos)
        BY <1>3, AccesoTipado
  <2>3. carga[pcb] = "listo" /\ marcos \in Seq(DeProceso(pcb))
        BY <2>1 DEF Traducidas, EnCurso
  <2>4. frame' \in DeProceso(pcb)
        BY <2>2, <2>3, UltimoDe
  <2>5. frame' \in Frames /\ marco'[frame'].idProceso = pid'
        BY <2>1, <2>2, <2>4
  <2>6. (pcCpu \in {"usa", "lee"} => FilaUsada)'
        BY <2>1
  <2> HIDE DEF FilaUsada
  <2>7. QED
        BY <2>1, <2>2, <2>3, <2>5, <2>6
<1>4. QED
      BY <1>1, <1>2, <1>3, PasoDeMemoria

\* The process that the CPU runs keeps its frames.
LEMMA ConservaSusFrames ==
    ASSUME Tipos, Propiedad, Enlace, Traducidas, MaxSuspensiones = 0, [SistemaNext]_sistema,
           pcDispatch \in EnCurso, NEW p, p = pcb
    PROVE  /\ p \in Pid /\ carga'[p] = "listo"
           /\ DeProceso(p) \subseteq DeProceso(p)'
<1>1. carga[p] = "listo" /\ p \in Pid
      BY DEF Traducidas, Enlace
<1>2. SUFFICES carga'[p] = "listo" /\ \A f \in DeProceso(p) : marco'[f].idProceso = p
      BY <1>1 DEF DeProceso
<1>3. CASE UNCHANGED <<marco, carga>>
      BY <1>1, <1>3 DEF DeProceso
<1>4. CASE conexionCPU
  <2>1. MismosDuenios /\ carga' = carga
        BY <1>4, PropiedadEnCPU DEF conexionCPU, BuscaPagina, Mira, TraduceEnRam, TraduceAusente,
             UsaPagina, LeeFrame, HayFrameLibre,
             NoHayFrameLibre, TomaFrames, GiraVictima, GiraSigue, FinVuelta, BuscaVieja,
             Carga, ActualizaTablas, ActualizaFrames, Marca, accesoMemoriaRead,
             accesoMemoriaCopy, accesoMemoriaWrite, externo
  <2>2. QED
        BY <1>1, <2>1 DEF MismosDuenios, DeProceso
<1>5. CASE AsignaFrames
  <2>1. pidKer \in Pid /\ carga[pidKer] = "entra"
        BY <1>5 DEF AsignaFrames, PasoKer, Propiedad, Tipos, TiposKernel
  <2>2. \A f \in DeProceso(p) : f \notin ALosQueToca
        BY <1>1, NadieNoEsProceso DEF DeProceso, ALosQueToca, Libre
  <2>3. QED
        BY <1>1, <1>5, <2>1, <2>2 DEF AsignaFrames, DeProceso, Propiedad
<1>6. CASE LiberaPagina
  <2>1. /\ pidKer \in Pid /\ carga[pidKer] = "fin" /\ carga' = carga
        /\ paginaKer \in PagAUsar(pidKer)
        /\ marco' = [g \in Frames |->
                IF g = fila[pidKer][paginaKer].nroFrame THEN Vacio ELSE marco[g]]
        BY <1>6 DEF LiberaPagina, liberarFrame_Tabla, PasoKer, Propiedad, Tipos, TiposKernel,
                    externo
  <2>2. FramesDeFilas(pidKer, {pidKer, Nadie}) /\ paginaKer \in Filas(pidKer)
        BY <2>1, PaginaConFila DEF Propiedad
  <2>3. \A f \in DeProceso(p) : f # fila[pidKer][paginaKer].nroFrame
        BY <1>1, <2>1, <2>2, NadieNoEsProceso, FramesNaturales DEF FramesDeFilas, DeProceso
  <2>4. QED
        BY <1>1, <2>1, <2>3 DEF DeProceso
<1>7. CASE conexionKernel /\ ~AsignaFrames /\ ~LiberaPagina
  <2>1. pcKer \in {"libre", "crea", "asigna", "exit", "salida"}
        BY DEF Propiedad
  <2>2. UNCHANGED <<marco, carga>>
        BY <1>7, <2>1 DEF conexionKernel, suspender, pasarAExit, CreaTabla, Toma2N,
             SuspendePagina, CopiaPagina, SuspendeSinFrame, FinSuspender, LiberaSuspendido,
             Suspendido, FinExit, PasoKer, memoria, externo
  <2>3. QED
        BY <1>3, <2>2
<1>8. CASE PedidosKernel
  <2>1. PICK q \in Pid \ {pcb} : PidePasarAReady(q) \/ PidePasarAExit(q)
    <3>1. ~Cuenta
          BY DEF Cuenta, Tipos, TiposPedidos
    <3>2. QED
          BY <1>8, <3>1 DEF PedidosKernel, PideSuspender, PideSuspenderTarde
  <2>2. marco' = marco /\ \E a : carga' = [carga EXCEPT ![q] = a]
        BY <2>1 DEF PidePasarAReady, PideSuspender, PideSuspenderTarde,
             PidePasarAExit, Pide, memoria
  <2>3. QED
        BY <1>1, <2>1, <2>2 DEF DeProceso
<1>9. CASE PideTraduccion \/ RespondeTraduccion \/ PideAcceso \/ SoloCpu \/ UNCHANGED sistema
  <2>1. UNCHANGED <<marco, carga>>
        BY <1>9 DEF PideTraduccion, CpuPide, RespondeTraduccion, PideAcceso, SoloCpu, sistema,
                    vars, memoria, externo
  <2>2. QED
        BY <1>3, <2>1
<1>10. CASE Busqueda \/ Acceso \/ RespondeAcceso
  <2>1. conexionCPU
        BY <1>10 DEF Busqueda, Acceso, RespondeAcceso, conexionCPU
  <2>2. QED
        BY <1>4, <2>1
<1>11. QED
      BY <1>5, <1>6, <1>7, <1>8, <1>9, <1>10 DEF SistemaNext, SoloMemoria

-----------------------------------------------------------------------------
(* The translations, in each step.                                         *)

LEMMA MasFrames ==
    ASSUME NEW p, DeProceso(p) \subseteq DeProceso(p)'
    PROVE  /\ \A s : s \in Seq(EntradasDe(p)) => s \in Seq(EntradasDe(p)')
           /\ \A s : s \in Seq(DeProceso(p)) => s \in Seq(DeProceso(p)')
<1>1. EntradasDe(p) \subseteq EntradasDe(p)'
      BY DEF EntradasDe, NumerosDePagina, PagAUsar
<1>2. \A S, T : S \subseteq T => \A s : s \in Seq(S) => s \in Seq(T)
      OBVIOUS
<1>3. QED
      BY <1>1, <1>2

\* A step of a process that the CPU has and keeps.
LEMMA SigueEnCurso ==
    ASSUME Tipos, Propiedad, Enlace, Traducidas, MaxSuspensiones = 0, [SistemaNext]_sistema,
           pcDispatch \in EnCurso, pcDispatch' \in EnCurso, size' = size,
           NEW p, p = pcb, p = pcb',
           entradas' \in Seq(EntradasDe(p)), marcos' \in Seq(DeProceso(p))
    PROVE  Traducidas'
<1>1. carga'[p] = "listo" /\ DeProceso(p) \subseteq DeProceso(p)'
      BY ConservaSusFrames
<1>2. entradas' \in Seq(EntradasDe(p)') /\ marcos' \in Seq(DeProceso(p)')
      BY <1>1, MasFrames
<1>3. (EntradasDe(pcb))' = EntradasDe(p)' /\ (DeProceso(pcb))' = DeProceso(p)'
      BY DEF EntradasDe, DeProceso
<1>4. QED
      BY <1>1, <1>2, <1>3 DEF Traducidas, EnCurso

LEMMA TraducidasEnSoloCpu ==
    ASSUME Tipos, Propiedad, Enlace, Traducidas, MaxSuspensiones = 0, SoloCpu
    PROVE  Traducidas'
<1> USE DEF C!PasoDispatch, C!tlb, C!SinMarcos
<1>1. [SistemaNext]_sistema /\ carga' = carga
      BY DEF SistemaNext, SoloCpu, vars, externo
<1>2. CASE pcb \in Pid /\ Instrucciones
  <2>1. /\ pcDispatch = "fetch" /\ marcos' = <<>> /\ UNCHANGED <<size, entradas>>
        /\ \/ pcDispatch' = "limpia"
           \/ pcDispatch' \in {"revisa", "traduce"} /\ pcb' = pcb
    <3>1. UNCHANGED <<size, entradas>>
          BY <1>2 DEF Instrucciones, C!NoOp, C!Devuelve, C!Read, C!Write, C!Copy,
                      C!Instruccion
    <3>2. QED
          BY <1>2, <3>1, OperandosPropios
  <2>2. CASE pcDispatch' = "limpia"
        BY <2>1, <2>2 DEF Traducidas, EnCurso
  <2>3. CASE pcDispatch' # "limpia"
    <3>1. PICK p : p = pcb
          OBVIOUS
    <3>2. entradas' \in Seq(EntradasDe(p)) /\ marcos' \in Seq(DeProceso(p))
          BY <2>1, <3>1, ListaVacia DEF Traducidas, EnCurso
    <3>3. pcDispatch \in EnCurso /\ pcDispatch' \in EnCurso
          BY <2>1, <2>3 DEF EnCurso
    <3>4. QED
          BY <1>1, <2>1, <2>3, <3>1, <3>2, <3>3, SigueEnCurso
  <2>4. QED
        BY <2>2, <2>3
<1>3. CASE \E f \in Frames : C!Acierta(f)
  <2>1. PICK f \in Frames : C!Acierta(f)
        BY <1>3
  <2>2. PICK p : p = pcb
        OBVIOUS
  <2>3. /\ pcDispatch = "traduce" /\ pcDispatch' = "traduce" /\ pcb' = pcb
        /\ C!buscar_en_TLB(C!Pagina, f) /\ marcos' = Append(marcos, f)
        BY <2>1 DEF C!Acierta
  <2>4. entradas \in Seq(EntradasDe(p)) /\ marcos \in Seq(DeProceso(p))
        BY <2>2, <2>3 DEF Traducidas, EnCurso
  <2>5. PICK n : n = C!Pagina
        OBVIOUS
  <2>6. /\ entradas' \in Seq(EntradasDe(p)) /\ size' = size
        /\ \E e \in EntradasDe(p) : f = e.nroFrame
        BY <2>3, <2>4, <2>5, BuscaDeja
  <2>7. f \in DeProceso(p)
        BY <2>6 DEF EntradasDe
  <2>8. marcos' \in Seq(DeProceso(p))
        BY <2>3, <2>4, <2>7
  <2>9. pcDispatch \in EnCurso /\ pcDispatch' \in EnCurso
        BY <2>3 DEF EnCurso
  <2>10. QED
        BY <1>1, <2>2, <2>3, <2>6, <2>8, <2>9, SigueEnCurso
<1>4. CASE \E p \in Pid : Recibe(p)
  <2>1. PICK p \in Pid : carga[p] = "listo" /\ C!Recibe(p)
        BY <1>4 DEF Recibe
  <2>2. /\ pcDispatch = "libre" /\ pcDispatch' = "fetch" /\ pcb' = p
        /\ UNCHANGED <<size, entradas, marcos>>
        BY <2>1 DEF C!Recibe, C!ciclo
  <2>3. entradas' = <<>> /\ marcos' = <<>>
        BY <2>2 DEF Traducidas, EnCurso
  <2>4. entradas' \in Seq((EntradasDe(pcb))') /\ marcos' \in Seq((DeProceso(pcb))')
        BY <2>3, ListaVacia
  <2>5. QED
        BY <1>1, <2>1, <2>2, <2>3, <2>4 DEF Traducidas
<1>5. CASE C!Desaloja \/ C!Baja \/ C!Limpia
      BY <1>5 DEF C!Desaloja, C!Baja, C!Limpia, C!limpiar_entradas_TLB, C!ciclo, Traducidas,
                  EnCurso
<1>6. CASE C!Sigue \/ C!Falla \/ (C!iniciarInterrupt /\ pcDispatch \in EnCurso)
  <2>1. /\ pcDispatch \in EnCurso /\ pcDispatch' \in EnCurso /\ pcb' = pcb
        /\ marcos' \in {<<>>, marcos}
        BY <1>6 DEF C!Sigue, C!Falla, C!iniciarInterrupt, C!ciclo, EnCurso
  <2>2. PICK p : p = pcb
        OBVIOUS
  <2>3. entradas \in Seq(EntradasDe(p)) /\ marcos' \in Seq(DeProceso(p))
        BY <2>1, <2>2, ListaVacia DEF Traducidas
  <2>4. entradas' \in Seq(EntradasDe(p)) /\ size' = size
        BY <1>6, <2>3, FallaDeja DEF C!Sigue, C!iniciarInterrupt
  <2>5. QED
        BY <1>1, <2>1, <2>2, <2>3, <2>4, SigueEnCurso
<1>7. CASE C!iniciarInterrupt /\ pcDispatch \notin EnCurso
      BY <1>7 DEF C!iniciarInterrupt, C!ciclo, Traducidas, EnCurso
<1>8. QED
      BY <1>2, <1>3, <1>4, <1>5, <1>6, <1>7 DEF SoloCpu

LEMMA TraducidasSigue ==
    ASSUME Tipos, Propiedad, Enlace, Traducidas, MaxSuspensiones = 0, [SistemaNext]_sistema
    PROVE  Traducidas'
<1> USE DEF C!PasoDispatch, C!tlb
<1>1. CASE RespondeTraduccion
  <2>1. /\ pcDispatch = "segundo_llamado" /\ pcDispatch' = "traduce" /\ pcb' = pcb
        /\ C!actualizar_TLB(C!Pagina, frame) /\ marcos' = Append(marcos, frame)
        /\ pcCpu = "accede" /\ operandos \in Seq(PagAUsar(pcb)) /\ pcb \in Pid
        BY <1>1 DEF RespondeTraduccion, C!Traduce, PasoCpu, Enlace, EnCurso
  <2>2. PICK p, n, f : p = pcb /\ n = C!Pagina /\ f = frame
        OBVIOUS
  <2>3. entradas \in Seq(EntradasDe(p)) /\ marcos \in Seq(DeProceso(p)) /\ size \in Nat \ {0}
        BY <2>1, <2>2 DEF Traducidas, EnCurso
  <2>4. f \in DeProceso(p)
        BY <2>1, <2>2, NadieNoEsProceso
           DEF Tipos, TiposCpu, Cargando, Enlace, Propiedad, UsaElFrame, DeProceso
  <2>5. n \in NumerosDePagina
    <3>1. Len(marcos) + 1 \in 1..Len(operandos)
          BY <2>1 DEF Enlace
    <3>2. n \in PagAUsar(pcb)
          BY <2>1, <2>2, <3>1 DEF C!Pagina
    <3>3. QED
          BY <2>1, <3>2 DEF NumerosDePagina
  <2>6. [nroPagina |-> n, nroFrame |-> f] \in EntradasDe(p)
        BY <2>4, <2>5 DEF EntradasDe
  <2>7. entradas' \in Seq(EntradasDe(p)) /\ size' = size
        BY <2>1, <2>2, <2>3, <2>6, ActualizaDeja
  <2>8. marcos' \in Seq(DeProceso(p))
        BY <2>1, <2>2, <2>3, <2>4
  <2>9. pcDispatch \in EnCurso /\ pcDispatch' \in EnCurso
        BY <2>1 DEF EnCurso
  <2>10. QED
        BY <2>1, <2>2, <2>7, <2>8, <2>9, SigueEnCurso
<1>2. CASE ~RespondeTraduccion /\ ~SoloCpu /\ pcDispatch \in EnCurso
  <2>1. /\ pcDispatch' \in EnCurso /\ UNCHANGED <<size, entradas, marcos, pcb>>
        BY <1>2 DEF SistemaNext, SoloMemoria, PideTraduccion, PideAcceso, RespondeAcceso,
                    C!SegundoLlamado, C!Accede, C!Respuesta, C!ciclo, EnCurso, sistema,
                    cpuVars
  <2>2. PICK p : p = pcb
        OBVIOUS
  <2>3. entradas' \in Seq(EntradasDe(p)) /\ marcos' \in Seq(DeProceso(p))
        BY <1>2, <2>1, <2>2 DEF Traducidas
  <2>4. QED
        BY <1>2, <2>1, <2>2, <2>3, SigueEnCurso
<1>3. CASE ~RespondeTraduccion /\ ~SoloCpu /\ pcDispatch \notin EnCurso
  <2>1. UNCHANGED <<size, entradas, marcos, pcDispatch>>
        BY <1>3 DEF SistemaNext, SoloMemoria, PideTraduccion, PideAcceso, RespondeAcceso,
                    C!SegundoLlamado, C!Accede, C!Respuesta, C!ciclo, EnCurso, sistema,
                    cpuVars
  <2>2. QED
        BY <1>3, <2>1 DEF Traducidas
<1>4. QED
      BY <1>1, <1>2, <1>3, TraducidasEnSoloCpu

Sano == Tipos /\ Propiedad /\ Enlace /\ Traducidas

LEMMA SanoAlInicio == SistemaInit => Sano
BY SistemaAlInicio, PropiedadAlInicio, TraducidasAlInicio DEF SistemaInit, Sano

LEMMA SanoSigue == Sano /\ MaxSuspensiones = 0 /\ [SistemaNext]_sistema => Sano'
BY TiposDelSistema, PropiedadDelSistema, EnlaceSigue, TraducidasSigue DEF Sano

\* Isolation beyond the memory: without suspensions the translations that the
\* CPU keeps, in its TLB and in a COPY, are of frames of the process it runs,
\* although the memory replaces their pages without telling it.
THEOREM TraduccionesDelProceso == ASSUME MaxSuspensiones = 0 PROVE Sistema => []TraduccionesPropias
<1>1. Sano => TraduccionesPropias
      BY TraducidasDice DEF Sano
<1>2. Sano /\ [SistemaNext]_sistema => Sano'
      BY SanoSigue
<1>3. QED
      BY <1>1, <1>2, SanoAlInicio, PTL DEF Sistema

\* And so the accesses, which go with frames and not with pages, stay in the
\* frames of the process.
THEOREM AccesosAislados == ASSUME MaxSuspensiones = 0 PROVE Sistema => []Aislado
<1>1. Sano => Aislado
      BY PropiedadDice DEF Sano
<1>2. Sano /\ [SistemaNext]_sistema => Sano'
      BY SanoSigue
<1>3. QED
      BY <1>1, <1>2, SanoAlInicio, PTL DEF Sistema

-----------------------------------------------------------------------------
(* Shares and owners, with the CPU.                                        *)

\* What is new in the composition takes no frame.
LEMMA MismosFrames ==
    ASSUME RespondeTraduccion \/ PideAcceso
    PROVE  marco' = marco
BY DEF RespondeTraduccion, PideAcceso, memoria

\* Quota: no order of translations, hits and replacements takes more frames
\* for a process than MARCOS_POR_PROCESO.
THEOREM CupoConLaCpu == ASSUME MaxSuspensiones = 0 PROVE Sistema => []CupoDeMarcos
<1>1. SistemaInit => Sano /\ Cupo
      BY SanoAlInicio, CupoAlInicio DEF SistemaInit
<1>2. Sano /\ Cupo /\ [SistemaNext]_sistema => Sano' /\ Cupo'
  <2> SUFFICES ASSUME Sano, Cupo, [SistemaNext]_sistema PROVE Sano' /\ Cupo'
      OBVIOUS
  <2>1. CASE [Next]_vars
        BY <2>1, CupoSigue, SanoSigue DEF Sano
  <2>2. CASE RespondeTraduccion \/ PideAcceso
        BY <2>2, MismosFrames, SanoSigue DEF Cupo, DeProceso
  <2>3. QED
        BY <2>1, <2>2, PasoDeMemoria DEF Sano
<1>3. Cupo => CupoDeMarcos
      BY DEF Cupo, CupoDeMarcos
<1>4. QED
      BY <1>1, <1>2, <1>3, PTL DEF Sistema

\* A frame with a page changes owner only by being freed, also while the CPU
\* uses it through its translations, in every configuration.
THEOREM DueniosConLaCpu == Sistema => DuenioEstable
<1>1. SistemaInit => Tipos /\ Enlace /\ Duenios
      BY SistemaAlInicio, DueniosAlInicio DEF SistemaInit
<1>2. Tipos /\ Enlace /\ Duenios /\ [SistemaNext]_sistema
        => Tipos' /\ Enlace' /\ Duenios' /\ [NoCambiaDeDuenio]_vars
  <2> SUFFICES ASSUME Tipos, Enlace, Duenios, [SistemaNext]_sistema
               PROVE  Duenios' /\ [NoCambiaDeDuenio]_vars
      BY TiposDelSistema, EnlaceSigue
  <2>1. CASE [Next]_vars
        BY <2>1, DueniosPaso
  <2>2. CASE RespondeTraduccion
    <3>1. UNCHANGED <<marco, pidKer, pagina>> /\ pid' = Nadie /\ pcCpu' = "libre"
          BY <2>2 DEF RespondeTraduccion, PasoCpu, memoria, kernel
    <3>2. QED
          BY <3>1 DEF Duenios, MarcosBienFormados, Elegido, Cargando, NoCambiaDeDuenio
  <2>3. CASE PideAcceso
    <3>1. /\ UNCHANGED <<marco, pidKer>> /\ pcCpu' = "accede" /\ pid' = pcb /\ pcb \in Pid
          /\ pagina' \in PagAUsar(pcb)
          BY <2>3, AccesoTipado DEF PideAcceso, PasoCpu, memoria, kernel
    <3>2. pagina' \in Nat
          BY <3>1, PaginasNaturales
    <3>3. QED
          BY <3>1, <3>2 DEF Duenios, MarcosBienFormados, Elegido, Cargando,
                            NoCambiaDeDuenio
  <2>4. QED
        BY <2>1, <2>2, <2>3, PasoDeMemoria
<1>3. QED
      BY <1>1, <1>2, PTL DEF Sistema, DuenioEstable

-----------------------------------------------------------------------------
(* While one process has tables: its rows, with the CPU.                   *)

\* A new entry is first; the search leaves it first when there is no other.
LEMMA Primera ==
    ASSUME NEW S, NEW s \in Seq(S), NEW e \in S
    PROVE  /\ C!AlFrente(e, s) # <<>> /\ Head(C!AlFrente(e, s)) = e
           /\ Len(C!AlFrente(e, s)) = Len(s) + 1
<1>1. Len(<<e>> \o s) = Len(s) + 1 /\ (<<e>> \o s)[1] = e /\ <<e>> \o s \in Seq(S)
      OBVIOUS
<1>2. QED
      BY <1>1 DEF C!AlFrente

LEMMA LargoSinUna ==
    ASSUME NEW S, NEW s \in Seq(S), NEW i \in 1..Len(s)
    PROVE  Len(C!Quitar(s, i)) = Len(s) - 1
<1>1. /\ SubSeq(s, 1, i - 1) \in Seq(S) /\ SubSeq(s, i + 1, Len(s)) \in Seq(S)
      /\ Len(SubSeq(s, 1, i - 1)) = i - 1 /\ Len(SubSeq(s, i + 1, Len(s))) = Len(s) - i
      OBVIOUS
<1> DEFINE a == SubSeq(s, 1, i - 1)
           b == SubSeq(s, i + 1, Len(s))
<1>2. a \in Seq(S) /\ b \in Seq(S) /\ Len(a) = i - 1 /\ Len(b) = Len(s) - i
      BY <1>1
<1>3. C!Quitar(s, i) = a \o b
      BY DEF C!Quitar
<1> HIDE DEF a, b
<1>4. Len(a \o b) = Len(a) + Len(b)
      BY <1>2, ConcatProperties
<1>5. QED
      BY <1>2, <1>3, <1>4

\* What the TLB may have, after a late SUSPENDER too.
EntradasPosibles == [nroPagina : NumerosDePagina, nroFrame : Respuestas]

\* The TLB within its size, the process of the CPU loaded, and which page the
\* memory translates for it.
Vigente ==
    /\ size \in Nat \ {0} /\ entradas \in Seq(EntradasPosibles) /\ Len(entradas) <= size
    /\ pcDispatch = "libre" => entradas = <<>>
    /\ DOMAIN carga = Pid /\ (pcDispatch \in EnCurso => carga[pcb] = "listo")
    /\ pcDispatch = "segundo_llamado" => pagina = C!Pagina
    /\ pcDispatch = "acceso" => pcCpu \in {"accede", "leida", "escrita", "copiada"}

\* The newest translation, and the one that the memory is about to answer.
MasNueva ==
    ~Tarde /\ pcb # Nadie /\ Solo(pcb) /\ (algoritmo = "FIFO" \/ size = 1) =>
        /\ entradas # <<>> /\ pcDispatch # "segundo_llamado" =>
            marco[Head(entradas).nroFrame] =
                [idProceso |-> pcb, nroPagina |-> Head(entradas).nroPagina]
        /\ pcDispatch = "segundo_llamado" /\ pcCpu \in {"usa", "lee"} =>
            Presente(pcb, pagina)
        /\ pcDispatch = "segundo_llamado" /\ pcCpu = "accede" =>
            marco[frame] = [idProceso |-> pcb, nroPagina |-> pagina]

\* The CPU goes on with its process, or takes one.
LEMMA MismoProceso ==
    ASSUME [SistemaNext]_sistema, pcDispatch' \in EnCurso
    PROVE  \/ pcDispatch \in EnCurso /\ pcb' = pcb /\ UNCHANGED <<size, algoritmo>>
           \/ \E p \in Pid : Recibe(p) /\ UNCHANGED vars
<1> USE DEF C!PasoDispatch, C!tlb, C!ciclo, EnCurso
<1>1. CASE SoloCpu
  <2>1. CASE pcb \in Pid /\ Instrucciones
        BY <2>1 DEF Instrucciones, C!NoOp, C!Devuelve, C!Read, C!Write, C!Copy, C!Instruccion
  <2>2. CASE \E f \in Frames : C!Acierta(f)
        BY <2>2 DEF C!Acierta, C!buscar_en_TLB
  <2>3. CASE C!Falla \/ C!Sigue \/ C!Desaloja \/ C!Baja \/ C!Limpia \/ C!iniciarInterrupt
        BY <2>3 DEF C!Falla, C!buscar_en_vano, C!buscar_en_TLB, C!Sigue, C!Desaloja, C!Baja,
                    C!Limpia, C!iniciarInterrupt
  <2>4. QED
        BY <1>1, <2>1, <2>2, <2>3 DEF SoloCpu
<1>2. CASE SoloMemoria \/ UNCHANGED sistema
      BY <1>2 DEF SoloMemoria, sistema, cpuVars
<1>3. CASE PideTraduccion \/ RespondeTraduccion \/ PideAcceso \/ RespondeAcceso
      BY <1>3 DEF PideTraduccion, RespondeTraduccion, PideAcceso, RespondeAcceso,
                  C!SegundoLlamado, C!Traduce, C!actualizar_TLB, C!Accede, C!Respuesta
<1>4. QED
      BY <1>1, <1>2, <1>3 DEF SistemaNext

LEMMA CargadoSigue ==
    ASSUME Enlace, Vigente, [SistemaNext]_sistema
    PROVE  DOMAIN carga' = Pid /\ (pcDispatch' \in EnCurso => carga'[pcb'] = "listo")
<1>1. \/ UNCHANGED carga
      \/ carga' = [carga EXCEPT ![pidKer] = "listo"]
      \/ \E q, a : carga' = [carga EXCEPT ![q] = a] /\ (q = pcb => a = carga[q])
  <2>1. CASE SoloMemoria /\ (Busqueda \/ Acceso)
        BY <2>1 DEF Busqueda, Acceso, BuscaPagina, Mira, TraduceEnRam, TraduceAusente,
             UsaPagina, LeeFrame,
             HayFrameLibre, NoHayFrameLibre, TomaFrames, GiraVictima, GiraSigue, FinVuelta,
             BuscaVieja, Carga, ActualizaTablas, ActualizaFrames, accesoMemoriaRead,
             accesoMemoriaCopy, accesoMemoriaWrite, externo
  <2>2. CASE SoloMemoria /\ conexionKernel
        BY <2>2 DEF conexionKernel, suspender, pasarAExit, CreaTabla, AsignaFrames, Toma2N,
             SuspendePagina, CopiaPagina, SuspendeSinFrame, FinSuspender, LiberaSuspendido,
             Suspendido, LiberaPagina, FinExit, externo
  <2>3. CASE SoloMemoria /\ PedidosKernel
    <3>1. CASE \E q \in Pid : PideSuspenderTarde(q)
      <4>1. PICK q \in Pid : carga' = [carga EXCEPT ![q] = carga[q]]
            BY <3>1 DEF PideSuspenderTarde, Pide
      <4>2. QED
            BY <4>1
    <3>2. CASE \E q \in Pid \ {pcb} :
                    PidePasarAReady(q) \/ PideSuspender(q) \/ PidePasarAExit(q)
      <4>1. PICK q \in Pid \ {pcb} : \E a : carga' = [carga EXCEPT ![q] = a]
            BY <3>2 DEF PidePasarAReady, PideSuspender, PidePasarAExit, Pide
      <4>2. PICK a : carga' = [carga EXCEPT ![q] = a]
            BY <4>1
      <4>3. q # pcb
            OBVIOUS
      <4>4. QED
            BY <4>2, <4>3
    <3>3. QED
          BY <2>3, <3>1, <3>2 DEF PedidosKernel
  <2>4. CASE ~SoloMemoria
        BY <2>4 DEF SistemaNext, SoloCpu, PideTraduccion, CpuPide, RespondeTraduccion,
             PideAcceso, RespondeAcceso, Marca, sistema, vars, externo
  <2>5. QED
        BY <2>1, <2>2, <2>3, <2>4 DEF SoloMemoria
<1>2. DOMAIN carga' = Pid
      BY <1>1 DEF Vigente
<1>3. ASSUME pcDispatch' \in EnCurso PROVE carga'[pcb'] = "listo"
  <2>1. CASE pcDispatch \in EnCurso /\ pcb' = pcb
    <3>1. carga[pcb] = "listo" /\ pcb \in Pid
          BY <2>1 DEF Vigente, Enlace
    <3>2. QED
          BY <1>1, <2>1, <3>1 DEF Vigente
  <2>2. CASE \E p \in Pid : Recibe(p) /\ UNCHANGED vars
    <3>1. PICK p \in Pid : carga[p] = "listo" /\ pcb' = p /\ UNCHANGED carga
          BY <2>2 DEF Recibe, C!Recibe, vars, externo
    <3>2. QED
          BY <3>1
  <2>3. QED
        BY <1>3, <2>1, <2>2, MismoProceso
<1>4. QED
      BY <1>2, <1>3

\* The TLB: what changes it, and that a hit leaves the newest first when the
\* algorithm is FIFO or there is one entry.
LEMMA EntradasSiguen ==
    ASSUME Tipos, Enlace, Vigente, [SistemaNext]_sistema
    PROVE  /\ size' = size /\ entradas' \in Seq(EntradasPosibles) /\ Len(entradas') <= size
           /\ \/ /\ RespondeTraduccion /\ entradas' # <<>>
                 /\ Head(entradas') = [nroPagina |-> C!Pagina, nroFrame |-> frame]
              \/ /\ ~RespondeTraduccion
                 /\ \/ entradas' = entradas
                    \/ entradas' = <<>>
                    \/ /\ entradas # <<>>
                       /\ algoritmo = "FIFO" \/ size = 1 => Head(entradas') = Head(entradas)
<1> DEFINE S == EntradasPosibles
<1>1. /\ size \in Nat \ {0} /\ entradas \in Seq(S) /\ Len(entradas) <= size
      BY DEF Vigente
<1>2. CASE RespondeTraduccion
  <2>1. /\ pcDispatch = "segundo_llamado" /\ C!actualizar_TLB(C!Pagina, frame)
        /\ pcCpu = "accede" /\ operandos \in Seq(PagAUsar(pcb)) /\ pcb \in Pid
        BY <1>2 DEF RespondeTraduccion, C!Traduce, C!PasoDispatch, PasoCpu, Enlace, EnCurso
  <2>2. C!Pagina \in NumerosDePagina /\ frame \in Respuestas
    <3>1. Len(marcos) + 1 \in 1..Len(operandos)
          BY <2>1 DEF Enlace
    <3>2. C!Pagina \in PagAUsar(pcb)
          BY <2>1, <3>1 DEF C!Pagina
    <3>3. QED
          BY <2>1, <3>2 DEF NumerosDePagina, Tipos, TiposCpu, Respuestas
  <2>3. PICK n, f : n = C!Pagina /\ f = frame
        OBVIOUS
  <2> DEFINE e == [nroPagina |-> n, nroFrame |-> f]
  <2>4. e \in S /\ C!actualizar_TLB(n, f)
        BY <2>1, <2>2, <2>3 DEF EntradasPosibles
  <2>5. entradas' \in Seq(S) /\ size' = size
        BY <1>1, <2>4, ActualizaDeja
  <2>6. \/ Len(entradas) < size /\ entradas' = C!AlFrente(e, entradas)
        \/ /\ ~(Len(entradas) < size)
           /\ \E i \in {Len(entradas), size} : entradas' = C!AlFrente(e, C!Quitar(entradas, i))
        BY <1>1, <2>4 DEF C!actualizar_TLB, C!tlbTieneEntradasLibres, C!llenar_TLB,
                          C!reemplazo_lru, C!reemplazo_fifo
  <2> HIDE DEF e, S
  <2>7. Len(entradas') <= size /\ entradas' # <<>> /\ Head(entradas') = e
    <3>1. CASE Len(entradas) < size
      <4>1. entradas' = C!AlFrente(e, entradas)
            BY <2>6, <3>1
      <4>2. QED
            BY <1>1, <2>4, <3>1, <4>1, Primera
    <3>2. CASE ~(Len(entradas) < size)
      <4>1. Len(entradas) \in 1..Len(entradas) /\ size = Len(entradas)
            BY <1>1, <3>2
      <4>2. entradas' = C!AlFrente(e, C!Quitar(entradas, Len(entradas)))
            BY <2>6, <3>2, <4>1
      <4>3. /\ C!Quitar(entradas, Len(entradas)) \in Seq(S)
            /\ Len(C!Quitar(entradas, Len(entradas))) = Len(entradas) - 1
            BY <1>1, <4>1, SinUna, LargoSinUna
      <4>4. QED
            BY <2>4, <4>1, <4>2, <4>3, Primera
    <3>3. QED
          BY <3>1, <3>2
  <2>8. QED
        BY <1>2, <2>3, <2>5, <2>7 DEF e, S
<1>3. CASE SoloCpu /\ ~RespondeTraduccion /\ \E n, f : C!buscar_en_TLB(n, f)
  <2>1. PICK n, f : C!buscar_en_TLB(n, f)
        BY <1>3
  <2>2. PICK i \in DOMAIN entradas :
            entradas' = IF algoritmo = "LRU"
                        THEN C!AlFrente(entradas[i], C!Quitar(entradas, i)) ELSE entradas
        BY <2>1 DEF C!buscar_en_TLB
  <2>3. entradas' \in Seq(S) /\ size' = size
        BY <1>1, <2>1, BuscaDeja
  <2> HIDE DEF S
  <2>4. i \in 1..Len(entradas) /\ entradas[i] \in S /\ entradas # <<>>
        BY <1>1, <2>2
  <2>5. CASE algoritmo = "LRU"
    <3>1. C!Quitar(entradas, i) \in Seq(S) /\ Len(C!Quitar(entradas, i)) = Len(entradas) - 1
          BY <1>1, <2>4, SinUna, LargoSinUna
    <3>2. /\ Len(entradas') = Len(entradas) - 1 + 1 /\ Head(entradas') = entradas[i]
          BY <2>2, <2>4, <2>5, <3>1, Primera
    <3>3. size = 1 => i = 1
          BY <1>1, <2>4
    <3>4. size = 1 => Head(entradas') = Head(entradas)
          BY <1>1, <2>4, <3>2, <3>3
    <3>5. QED
          BY <1>1, <1>3, <2>3, <2>4, <2>5, <3>2, <3>4 DEF S
  <2>6. CASE algoritmo # "LRU"
        BY <1>1, <1>3, <2>2, <2>3, <2>6 DEF S
  <2>7. QED
        BY <2>5, <2>6
<1>4. CASE SoloCpu /\ ~RespondeTraduccion /\ ~\E n, f : C!buscar_en_TLB(n, f)
  <2>1. size' = size /\ entradas' \in {entradas, <<>>}
    <3> USE DEF C!tlb, C!ciclo
    <3>1. CASE \E p \in Pid : Recibe(p)
          BY <3>1 DEF Recibe, C!Recibe
    <3>2. CASE pcb \in Pid /\ Instrucciones
          BY <3>2 DEF Instrucciones, C!NoOp, C!Devuelve, C!Read, C!Write, C!Copy,
                      C!Instruccion
    <3>3. CASE C!Falla \/ C!Sigue \/ C!Desaloja \/ C!Baja \/ C!Limpia \/ C!iniciarInterrupt
          BY <1>4, <3>3 DEF C!Falla, C!buscar_en_vano, C!Sigue, C!Desaloja, C!Baja,
                      C!Limpia, C!iniciarInterrupt, C!limpiar_entradas_TLB
    <3>4. ~\E f \in Frames : C!Acierta(f)
          BY <1>4 DEF C!Acierta
    <3>5. QED
          BY <1>4, <3>1, <3>2, <3>3, <3>4 DEF SoloCpu
  <2>2. entradas' \in Seq(S) /\ Len(entradas') <= size
    <3>1. CASE entradas' = entradas
          BY <1>1, <3>1
    <3>2. CASE entradas' = <<>>
          BY <1>1, <3>2, ListaVacia
    <3>3. QED
          BY <2>1, <3>1, <3>2
  <2>3. QED
        BY <1>4, <2>1, <2>2
<1>5. CASE ~SoloCpu /\ ~RespondeTraduccion
  <2>1. UNCHANGED <<size, entradas>>
        BY <1>5 DEF SistemaNext, SoloMemoria, PideTraduccion, PideAcceso, RespondeAcceso,
                    C!SegundoLlamado, C!Accede, C!Respuesta, C!tlb, sistema, cpuVars
  <2>2. QED
        BY <1>1, <1>5, <2>1
<1>6. QED
      BY <1>2, <1>3, <1>4, <1>5

LEMMA VigenteSigue ==
    ASSUME Tipos, Enlace, Vigente, [SistemaNext]_sistema
    PROVE  Vigente'
<1> USE DEF C!PasoDispatch, C!tlb, C!ciclo, PasoCpu
<1>1. /\ size' \in Nat \ {0} /\ entradas' \in Seq(EntradasPosibles) /\ Len(entradas') <= size'
      BY EntradasSiguen DEF Vigente
<1>2. DOMAIN carga' = Pid /\ (pcDispatch' \in EnCurso => carga'[pcb'] = "listo")
      BY CargadoSigue
<1>3. pcDispatch' = "libre" => entradas' = <<>>
  <2>1. CASE SoloCpu
    <3>1. CASE pcb \in Pid /\ Instrucciones
          BY <3>1 DEF Instrucciones, C!NoOp, C!Devuelve, C!Read, C!Write, C!Copy,
                      C!Instruccion
    <3>2. CASE (\E f \in Frames : C!Acierta(f)) \/ \E p \in Pid : Recibe(p)
          BY <3>2 DEF C!Acierta, Recibe, C!Recibe
    <3>3. CASE C!Falla \/ C!Sigue \/ C!Desaloja \/ C!Baja \/ C!Limpia \/ C!iniciarInterrupt
          BY <3>3 DEF C!Falla, C!Sigue, C!Desaloja, C!Baja, C!Limpia, C!iniciarInterrupt,
                      C!limpiar_entradas_TLB, Vigente
    <3>4. QED
          BY <2>1, <3>1, <3>2, <3>3 DEF SoloCpu
  <2>2. CASE ~SoloCpu
        BY <2>2 DEF SistemaNext, SoloMemoria, PideTraduccion, RespondeTraduccion, PideAcceso,
                    RespondeAcceso, C!SegundoLlamado, C!Traduce, C!Accede, C!Respuesta,
                    sistema, cpuVars, Vigente
  <2>3. QED
        BY <2>1, <2>2
<1>4. /\ pcDispatch' = "segundo_llamado" => pagina' = (C!Pagina)'
      /\ pcDispatch' = "acceso" => pcCpu' \in {"accede", "leida", "escrita", "copiada"}
  <2>1. CASE SoloCpu
    <3>1. UNCHANGED <<pagina, pcCpu>>
          BY <2>1 DEF SoloCpu, vars, cpu
    <3>2. CASE pcb \in Pid /\ Instrucciones
          BY <3>2 DEF Instrucciones, C!NoOp, C!Devuelve, C!Read, C!Write, C!Copy,
                      C!Instruccion
    <3>3. CASE (\E f \in Frames : C!Acierta(f)) \/ \E p \in Pid : Recibe(p)
          BY <3>3 DEF C!Acierta, Recibe, C!Recibe
    <3>4. CASE C!Falla \/ C!Sigue \/ C!Desaloja \/ C!Baja \/ C!Limpia
          BY <3>4 DEF C!Falla, C!Sigue, C!Desaloja, C!Baja, C!Limpia
    <3>5. CASE C!iniciarInterrupt
          BY <3>1, <3>5 DEF C!iniciarInterrupt, C!Pagina, Vigente
    <3>6. QED
          BY <2>1, <3>2, <3>3, <3>4, <3>5 DEF SoloCpu
  <2>2. CASE SoloMemoria
    <3>1. UNCHANGED <<pcDispatch, operandos, marcos>>
          BY <2>2 DEF SoloMemoria, cpuVars
    <3>2. \/ UNCHANGED <<pagina, pcCpu>>
          \/ UNCHANGED pagina /\ pcCpu \notin {"accede", "leida", "escrita", "copiada"}
          \/ UNCHANGED pagina /\ pcCpu' \in {"leida", "escrita", "copiada"}
      <4>1. CASE Busqueda
            BY <4>1 DEF Busqueda, BuscaPagina, Mira, TraduceEnRam, TraduceAusente,
             UsaPagina, LeeFrame, HayFrameLibre,
             NoHayFrameLibre, TomaFrames, GiraVictima, GiraSigue, FinVuelta, BuscaVieja,
             Carga, ActualizaTablas, ActualizaFrames
      <4>2. CASE Acceso
            BY <4>2 DEF Acceso, accesoMemoriaRead, accesoMemoriaCopy, accesoMemoriaWrite
      <4>3. CASE conexionKernel
            BY <4>3 DEF conexionKernel, suspender, pasarAExit, CreaTabla, AsignaFrames,
             Toma2N, SuspendePagina, CopiaPagina, SuspendeSinFrame, FinSuspender,
             LiberaSuspendido, Suspendido, LiberaPagina, FinExit, cpu
      <4>4. CASE PedidosKernel
            BY <4>4 DEF PedidosKernel, PidePasarAReady, PideSuspender, PideSuspenderTarde,
             PidePasarAExit, Pide,
             cpu
      <4>5. QED
            BY <2>2, <4>1, <4>2, <4>3, <4>4 DEF SoloMemoria
    <3>3. QED
          BY <3>1, <3>2 DEF Vigente, C!Pagina
  <2>3. CASE PideTraduccion
        BY <2>3 DEF PideTraduccion, CpuPide, C!SegundoLlamado, C!Pagina
  <2>4. CASE RespondeTraduccion \/ PideAcceso \/ RespondeAcceso
        BY <2>4 DEF RespondeTraduccion, PideAcceso, RespondeAcceso, C!Traduce, C!Accede,
                    C!Respuesta
  <2>5. CASE UNCHANGED sistema
        BY <2>5 DEF sistema, vars, cpu, cpuVars, Vigente, C!Pagina
  <2>6. QED
        BY <2>1, <2>2, <2>3, <2>4, <2>5 DEF SistemaNext
<1>5. QED
      BY <1>1, <1>2, <1>3, <1>4 DEF Vigente

\* The rows of the process with tables, in the steps that Memoria has not.
LEMMA FilasDelSistema ==
    ASSUME Tipos, Enlace, Vigente, FilasDeUno, [SistemaNext]_sistema
    PROVE  FilasDeUno'
<1>1. CASE [Next]_vars
      BY <1>1, FilasDeUnoSigue
<1>2. CASE RespondeTraduccion \/ PideAcceso
  <2> SUFFICES ASSUME ~Tarde', NEW p \in Pid, Solo(p)' PROVE Reemplazo(p)'
      BY DEF FilasDeUno
  <2>0. ~Tarde
        BY <1>2 DEF RespondeTraduccion, PideAcceso, externo, pedidas, Tarde
  <2>1. /\ UNCHANGED <<orden, fila, marco, carga, pcKer, pidKer, paginaKer>>
        /\ pcCpu \in {"libre", "accede"} /\ pcCpu' \in {"libre", "accede"}
        /\ pid' \in {Nadie, pcb} /\ pcDispatch \in EnCurso
        BY <1>2 DEF RespondeTraduccion, PideAcceso, PasoCpu, tablas, memoria, kernel, externo,
                    C!Traduce, C!Accede, C!PasoDispatch, EnCurso
  <2>2. Solo(p) /\ Reemplazo(p)
        BY <2>0, <2>1 DEF Solo, FilasDeUno
  <2>3. carga[pcb] = "listo" /\ pcb \in Pid
        BY <2>1 DEF Vigente, Enlace
  <2>4. pcb = p
        BY <2>2, <2>3 DEF Reemplazo, Ocupa
  <2>5. Ocupa(p)'
    <3>1. pid' = p => carga'[p] = "listo"
          BY <2>1, <2>3, <2>4
    <3>2. QED
          BY <2>1, <2>2, <2>4, <3>1 DEF Reemplazo, Ocupa, LoPedido
  <2>6. Creadas(p)'
        BY <2>1, <2>2 DEF Reemplazo, Creadas
  <2>7. MismoLugar(fila, fila')
        BY <2>1, MismoLugarQuieto
  <2>8. FilasBien(p)' /\ Ligadas(p)'
        BY <2>1, <2>2, <2>7, FilasBienQuietas, LigadasQuietas DEF Reemplazo, Copiando
  <2>9. QED
        BY <2>5, <2>6, <2>8 DEF Reemplazo
<1>3. QED
      BY <1>1, <1>2, PasoDeMemoria

-----------------------------------------------------------------------------
(* The newest translation.                                                 *)

LEMMA MarcoDelSistema ==
    ASSUME Enlace, Vigente, [SistemaNext]_sistema, pcKer \in {"libre", "crea"}
    PROVE  \/ marco' = marco
           \/ ActualizaFrames /\ pcDispatch' = "segundo_llamado"
<1>1. CASE SoloMemoria /\ conexionKernel
      BY <1>1 DEF conexionKernel, suspender, pasarAExit, CreaTabla, AsignaFrames, Toma2N,
             SuspendePagina, CopiaPagina, SuspendeSinFrame, FinSuspender, LiberaSuspendido,
             Suspendido, LiberaPagina, FinExit, PasoKer, memoria
<1>2. CASE SoloMemoria /\ Busqueda
  <2>1. CASE ActualizaFrames
    <3>1. pcCpu = "marco" /\ pcDispatch' = pcDispatch
          BY <1>2, <2>1 DEF ActualizaFrames, PasoCpu, SoloMemoria, cpuVars
    <3>2. pcDispatch = "segundo_llamado"
          BY <3>1 DEF Enlace, Vigente
    <3>3. QED
          BY <2>1, <3>1, <3>2
  <2>2. CASE ~ActualizaFrames
        BY <1>2, <2>2 DEF Busqueda, BuscaPagina, Mira, TraduceEnRam, TraduceAusente,
             UsaPagina, LeeFrame, HayFrameLibre,
             NoHayFrameLibre, TomaFrames, GiraVictima, GiraSigue, FinVuelta, BuscaVieja,
             Carga, ActualizaTablas, memoria
  <2>3. QED
        BY <2>1, <2>2
<1>3. CASE SoloMemoria /\ (Acceso \/ PedidosKernel)
      BY <1>3 DEF Acceso, accesoMemoriaRead, accesoMemoriaCopy, accesoMemoriaWrite,
             PedidosKernel, PidePasarAReady, PideSuspender, PideSuspenderTarde,
             PidePasarAExit, Pide, memoria
<1>4. CASE ~SoloMemoria
      BY <1>4 DEF SistemaNext, SoloCpu, PideTraduccion, CpuPide, RespondeTraduccion,
             PideAcceso, RespondeAcceso, Marca, sistema, vars, memoria
<1>5. QED
      BY <1>1, <1>2, <1>3, <1>4 DEF SoloMemoria

\* What happens while the dispatch thread waits for a translation.
LEMMA EsperaTraduccion ==
    ASSUME [SistemaNext]_sistema, pcDispatch' = "segundo_llamado"
    PROVE  \/ pcCpu' = "traduce"
           \/ /\ pcDispatch = "segundo_llamado"
              /\ UNCHANGED <<frame, pagina, pcCpu>> \/ TraduceEnRam \/ UsaPagina
                    \/ LeeFrame \/ ActualizaFrames
                    \/ pcCpu' \notin {"usa", "lee", "accede"}
<1> USE DEF C!PasoDispatch, PasoCpu
<1>1. CASE SoloCpu
  <2>1. UNCHANGED <<frame, pagina, pcCpu>>
        BY <1>1 DEF SoloCpu, vars, cpu
  <2>2. CASE pcb \in Pid /\ Instrucciones
        BY <2>2 DEF Instrucciones, C!NoOp, C!Devuelve, C!Read, C!Write, C!Copy, C!Instruccion
  <2>3. CASE (\E f \in Frames : C!Acierta(f)) \/ \E p \in Pid : Recibe(p)
        BY <2>3 DEF C!Acierta, Recibe, C!Recibe
  <2>4. CASE C!Falla \/ C!Sigue \/ C!Desaloja \/ C!Baja \/ C!Limpia \/ C!iniciarInterrupt
        BY <2>1, <2>4 DEF C!Falla, C!Sigue, C!Desaloja, C!Baja, C!Limpia,
                          C!iniciarInterrupt
  <2>5. QED
        BY <1>1, <2>2, <2>3, <2>4 DEF SoloCpu
<1>2. CASE SoloMemoria
  <2>1. pcDispatch = "segundo_llamado"
        BY <1>2 DEF SoloMemoria, cpuVars
  <2>2. CASE Busqueda
        BY <2>1, <2>2 DEF Busqueda, BuscaPagina, Mira, TraduceAusente, HayFrameLibre,
             NoHayFrameLibre, TomaFrames, GiraVictima, GiraSigue, FinVuelta, BuscaVieja, Carga,
             ActualizaTablas
  <2>3. CASE Acceso
        BY <2>1, <2>3 DEF Acceso
  <2>4. CASE conexionKernel
        BY <2>1, <2>4 DEF conexionKernel, suspender, pasarAExit, CreaTabla, AsignaFrames,
             Toma2N, SuspendePagina, CopiaPagina, SuspendeSinFrame, FinSuspender,
             LiberaSuspendido, Suspendido, LiberaPagina, FinExit, cpu
  <2>5. CASE PedidosKernel
        BY <2>1, <2>5 DEF PedidosKernel, PidePasarAReady, PideSuspender, PideSuspenderTarde,
             PidePasarAExit, Pide, cpu
  <2>6. QED
        BY <1>2, <2>2, <2>3, <2>4, <2>5 DEF SoloMemoria
<1>3. CASE PideTraduccion \/ RespondeTraduccion \/ PideAcceso \/ RespondeAcceso
      BY <1>3 DEF PideTraduccion, CpuPide, RespondeTraduccion, PideAcceso, RespondeAcceso,
                  C!Traduce, C!Accede, C!Respuesta
<1>4. CASE UNCHANGED sistema
      BY <1>4 DEF sistema, vars, cpu, cpuVars
<1>5. QED
      BY <1>1, <1>2, <1>3, <1>4 DEF SistemaNext

\* It waits until the answer.
LEMMA SegundoLlamadoEspera ==
    ASSUME [SistemaNext]_sistema, ~RespondeTraduccion, pcDispatch = "segundo_llamado"
    PROVE  pcDispatch' = "segundo_llamado"
<1> USE DEF C!PasoDispatch
<1>1. CASE SoloCpu
  <2>1. CASE pcb \in Pid /\ Instrucciones
        BY <2>1 DEF Instrucciones, C!NoOp, C!Devuelve, C!Read, C!Write, C!Copy, C!Instruccion
  <2>2. CASE (\E f \in Frames : C!Acierta(f)) \/ \E p \in Pid : Recibe(p)
        BY <2>2 DEF C!Acierta, Recibe, C!Recibe
  <2>3. CASE C!Falla \/ C!Sigue \/ C!Desaloja \/ C!Baja \/ C!Limpia \/ C!iniciarInterrupt
        BY <2>3 DEF C!Falla, C!Sigue, C!Desaloja, C!Baja, C!Limpia, C!iniciarInterrupt
  <2>4. QED
        BY <1>1, <2>1, <2>2, <2>3 DEF SoloCpu
<1>2. CASE SoloMemoria \/ UNCHANGED sistema
      BY <1>2 DEF SoloMemoria, sistema, cpuVars
<1>3. CASE PideTraduccion \/ PideAcceso \/ RespondeAcceso
      BY <1>3 DEF PideTraduccion, PideAcceso, RespondeAcceso, C!SegundoLlamado, C!Accede,
                  C!Respuesta
<1>4. QED
      BY <1>1, <1>2, <1>3 DEF SistemaNext

LEMMA SoloDelSistema ==
    ASSUME Tipos, Enlace, [SistemaNext]_sistema, NEW p \in Pid, Solo(p)'
    PROVE  Solo(p)
<1>1. CASE [Next]_vars
      BY <1>1, SoloAntes
<1>2. CASE RespondeTraduccion \/ PideAcceso
      BY <1>2 DEF RespondeTraduccion, PideAcceso, tablas, Solo
<1>3. QED
      BY <1>1, <1>2, PasoDeMemoria

\* No row changes between Mira and LeeFrame but by UsaPagina, while the
\* Kernel's thread does not work on rows.
LEMMA NadieCambiaFilas ==
    ASSUME Enlace, [SistemaNext]_sistema, pcKer \in {"libre", "crea"},
           pcCpu \in {"usa", "lee"}, pcCpu' = pcCpu
    PROVE  fila' = fila
<1> USE DEF PasoCpu
<1>1. CASE SoloMemoria /\ conexionKernel
      BY <1>1 DEF conexionKernel, suspender, pasarAExit, CreaTabla, AsignaFrames, Toma2N,
             SuspendePagina, CopiaPagina, SuspendeSinFrame, FinSuspender, LiberaSuspendido,
             Suspendido, LiberaPagina, FinExit, PasoKer, tablas
<1>2. CASE SoloMemoria /\ Busqueda
      BY <1>2 DEF Busqueda, BuscaPagina, Mira, TraduceEnRam, TraduceAusente,
             UsaPagina, LeeFrame, HayFrameLibre,
             NoHayFrameLibre, TomaFrames, GiraVictima, GiraSigue, FinVuelta, BuscaVieja,
             Carga, ActualizaTablas, ActualizaFrames
<1>3. CASE SoloMemoria /\ (Acceso \/ PedidosKernel)
      BY <1>3 DEF Acceso, accesoMemoriaRead, accesoMemoriaCopy, accesoMemoriaWrite,
             PedidosKernel, PidePasarAReady, PideSuspender, PideSuspenderTarde,
             PidePasarAExit, Pide, tablas
<1>4. CASE ~SoloMemoria
      BY <1>4 DEF SistemaNext, SoloCpu, PideTraduccion, CpuPide, RespondeTraduccion,
             PideAcceso, RespondeAcceso, Marca, sistema, vars, tablas
<1>5. QED
      BY <1>1, <1>2, <1>3, <1>4 DEF SoloMemoria

LEMMA TardeDelSistema ==
    ASSUME Tipos, Enlace, [SistemaNext]_sistema, ~Tarde'
    PROVE  ~Tarde
<1>1. CASE [Next]_vars
      BY <1>1, TardeQueda
<1>2. CASE RespondeTraduccion \/ PideAcceso
      BY <1>2 DEF RespondeTraduccion, PideAcceso, externo, pedidas, Tarde
<1>3. QED
      BY <1>1, <1>2, PasoDeMemoria

LEMMA MasNuevaSigue ==
    ASSUME Tipos, Enlace, Vigente, FilasDeUno, MasNueva, [SistemaNext]_sistema
    PROVE  MasNueva'
<1> SUFFICES ASSUME ~Tarde', (pcb # Nadie)', Solo(pcb)', (algoritmo = "FIFO" \/ size = 1)'
             PROVE  (/\ entradas # <<>> /\ pcDispatch # "segundo_llamado" =>
                         marco[Head(entradas).nroFrame] =
                             [idProceso |-> pcb, nroPagina |-> Head(entradas).nroPagina]
                     /\ pcDispatch = "segundo_llamado" /\ pcCpu \in {"usa", "lee"} =>
                         Presente(pcb, pagina)
                     /\ pcDispatch = "segundo_llamado" /\ pcCpu = "accede" =>
                         marco[frame] = [idProceso |-> pcb, nroPagina |-> pagina])'
    BY DEF MasNueva
<1>0. ~Tarde
      BY TardeDelSistema
<1>1. pcDispatch' \in EnCurso
      BY EnlaceSigue DEF Enlace
<1>2. CASE \E p \in Pid : Recibe(p) /\ UNCHANGED vars
  <2>1. pcDispatch' = "fetch" /\ entradas' = <<>>
        BY <1>2 DEF Recibe, C!Recibe, C!PasoDispatch, C!tlb, Vigente
  <2>2. QED
        BY <2>1
<1>3. CASE pcDispatch \in EnCurso /\ pcb' = pcb /\ UNCHANGED <<size, algoritmo>>
  <2>1. PICK p \in Pid : p = pcb /\ p = pcb' /\ p # Nadie
        BY <1>3, NadieNoEsProceso DEF Enlace
  <2>2. Solo(p)'
        BY <2>1 DEF Solo
  <2>3. Solo(p) /\ Reemplazo(p)
        BY <1>0, <2>2, SoloDelSistema DEF FilasDeUno
  <2>4. pcKer \in {"libre", "crea"}
    <3>1. carga[p] = "listo"
          BY <1>3, <2>1 DEF Vigente
    <3>2. QED
          BY <2>3, <3>1 DEF Reemplazo, Ocupa, LoPedido
  <2>5. marco' = marco \/ (ActualizaFrames /\ pcDispatch' = "segundo_llamado")
        BY <2>4, MarcoDelSistema
  <2>6. /\ entradas # <<>> /\ pcDispatch # "segundo_llamado" =>
            marco[Head(entradas).nroFrame] =
                [idProceso |-> p, nroPagina |-> Head(entradas).nroPagina]
        /\ pcDispatch = "segundo_llamado" /\ pcCpu \in {"usa", "lee"} => Presente(p, pagina)
        /\ pcDispatch = "segundo_llamado" /\ pcCpu = "accede" =>
            marco[frame] = [idProceso |-> p, nroPagina |-> pagina]
    <3>1. ~Tarde /\ Solo(pcb) /\ pcb # Nadie /\ (algoritmo = "FIFO" \/ size = 1)
          BY <1>0, <1>3, <2>1, <2>3
    <3>2. QED
          BY <2>1, <3>1 DEF MasNueva
  <2>7. ASSUME entradas' # <<>>, pcDispatch' # "segundo_llamado"
        PROVE  marco'[Head(entradas').nroFrame] =
                   [idProceso |-> p, nroPagina |-> Head(entradas').nroPagina]
    <3>1. marco' = marco
          BY <2>5, <2>7
    <3>2. CASE RespondeTraduccion
      <4>1. Head(entradas') = [nroPagina |-> C!Pagina, nroFrame |-> frame]
            BY <3>2, EntradasSiguen
      <4>2. /\ pcDispatch = "segundo_llamado" /\ pcCpu = "accede"
            BY <3>2 DEF RespondeTraduccion, PasoCpu, C!Traduce, C!PasoDispatch
      <4>3. pagina = C!Pagina
            BY <4>2 DEF Vigente
      <4>4. marco[frame] = [idProceso |-> p, nroPagina |-> pagina]
            BY <2>6, <4>2
      <4>5. Head(entradas').nroFrame = frame /\ Head(entradas').nroPagina = pagina
            BY <4>1, <4>3
      <4>6. QED
            BY <3>1, <4>4, <4>5
    <3>3. CASE ~RespondeTraduccion
      <4>1. entradas # <<>> /\ Head(entradas') = Head(entradas)
            BY <1>3, <2>7, <3>3, EntradasSiguen
      <4>2. pcDispatch # "segundo_llamado"
            BY <2>7, <3>3, SegundoLlamadoEspera
      <4>3. QED
            BY <2>6, <3>1, <4>1, <4>2
    <3>4. QED
          BY <3>2, <3>3
  <2>8. ASSUME pcDispatch' = "segundo_llamado", pcCpu' = "accede"
        PROVE  marco'[frame'] = [idProceso |-> p, nroPagina |-> pagina']
    <3>1. pcDispatch = "segundo_llamado"
          BY <2>8, EsperaTraduccion
    <3>2. CASE LeeFrame
      <4>1. /\ pcCpu = "lee" /\ frame' = fila[pid][pagina].nroFrame
            /\ UNCHANGED <<marco, pagina>>
            BY <3>2 DEF LeeFrame, PasoCpu, memoria
      <4>2. pid = p /\ pagina \in PagAUsar(p)
            BY <2>1, <4>1, NadieNoEsProceso DEF Tipos, TiposCpu, Enlace
      <4>3. pagina \in Filas(p) /\ Presente(p, pagina)
            BY <2>6, <3>1, <4>1, <4>2, PaginaConFila
      <4>4. marco[fila[p][pagina].nroFrame] = [idProceso |-> p, nroPagina |-> pagina]
            BY <2>3, <4>1, <4>3, FilaPresente
      <4>5. QED
            BY <4>1, <4>2, <4>4
    <3>3. CASE ActualizaFrames
      <4>1. /\ marco' = [marco EXCEPT ![frame] = [idProceso |-> pid, nroPagina |-> pagina]]
            /\ UNCHANGED <<frame, pagina>> /\ pcCpu = "marco"
            BY <3>3 DEF ActualizaFrames, PasoCpu
      <4>2. pid = p /\ frame \in Frames /\ DOMAIN marco = Frames
            BY <2>1, <4>1, NadieNoEsProceso DEF Tipos, TiposCpu, TiposMarco, Cargando,
                                                Enlace
      <4>3. QED
            BY <4>1, <4>2
    <3>4. CASE UNCHANGED <<frame, pagina, pcCpu>> /\ ~ActualizaFrames
          BY <2>5, <2>6, <2>8, <3>1, <3>4
    <3>5. CASE TraduceEnRam \/ UsaPagina
          BY <2>8, <3>5 DEF TraduceEnRam, Mira, UsaPagina, PasoCpu
    <3>6. QED
          BY <2>8, <3>2, <3>3, <3>4, <3>5, EsperaTraduccion
  <2>9. ASSUME pcDispatch' = "segundo_llamado", pcCpu' \in {"usa", "lee"}
        PROVE  Presente(p, pagina)'
    <3>1. pcDispatch = "segundo_llamado"
          BY <2>9, EsperaTraduccion
    <3>2. CASE TraduceEnRam
      <4>1. pcCpu = "mira" /\ EnRam(pid, pagina) /\ UNCHANGED <<fila, pagina>>
            BY <3>2 DEF TraduceEnRam, Mira, PasoCpu, tablas
      <4>2. pid = p
            BY <2>1, <4>1, NadieNoEsProceso DEF Tipos, TiposCpu, Enlace
      <4>3. QED
            BY <4>1, <4>2 DEF EnRam, Presente
    <3>3. CASE UsaPagina
      <4>1. /\ pcCpu = "usa" /\ UNCHANGED pagina
            /\ fila' = [fila EXCEPT ![pid][pagina] = Usada(@)]
            BY <3>3 DEF UsaPagina, PasoCpu
      <4>2. pid = p /\ pagina \in PagAUsar(p) /\ Presente(p, pagina)
            BY <2>1, <2>6, <3>1, <4>1, NadieNoEsProceso DEF Tipos, TiposCpu, Enlace
      <4>3. pagina \in Filas(p) /\ EsTabla(fila)
            BY <4>2, PaginaConFila DEF Tipos
      <4>4. fila[p][pagina] \in TipoFila
            BY <4>3, FilaTipada
      <4>5. fila'[p][pagina] = Usada(fila[p][pagina])
            BY <4>1, <4>2, <4>3 DEF EsTabla
      <4>6. QED
            BY <4>1, <4>2, <4>4, <4>5 DEF Usada, Presente, TipoFila
    <3>4. CASE UNCHANGED <<frame, pagina, pcCpu>> /\ ~UsaPagina
      <4>1. pcCpu \in {"usa", "lee"} /\ pagina' = pagina /\ Presente(p, pagina)
            BY <2>6, <2>9, <3>1, <3>4
      <4>2. fila' = fila
            BY <2>4, <3>1, <3>4, <4>1, NadieCambiaFilas
      <4>3. QED
            BY <4>1, <4>2 DEF Presente
    <3>5. CASE LeeFrame \/ ActualizaFrames
          BY <2>9, <3>5 DEF LeeFrame, ActualizaFrames, PasoCpu
    <3>6. QED
          BY <2>9, <3>2, <3>3, <3>4, <3>5, EsperaTraduccion
  <2>10. QED
        BY <2>1, <2>7, <2>8, <2>9
<1>4. QED
      BY <1>1, <1>2, <1>3, MismoProceso

LEMMA UnoAlInicio == ASSUME SistemaInit PROVE Vigente /\ FilasDeUno /\ MasNueva
<1>1. /\ Init /\ size \in ENTRADAS_TLB /\ entradas = <<>> /\ pcDispatch = "libre"
      /\ pcb = Nadie
      BY DEF SistemaInit, C!CpuInit, C!iniciar_TLB
<1>2. size \in Nat \ {0} /\ entradas \in Seq(EntradasPosibles) /\ Len(entradas) <= size
      BY <1>1, EntradasDeLaTLB, ListaVacia
<1>3. DOMAIN carga = Pid
      BY <1>1 DEF Init
<1>4. QED
      BY <1>1, <1>2, <1>3, FilasDeUnoAlInicio DEF Vigente, MasNueva, EnCurso

LEMMA MasNuevaDice ==
    ASSUME Tipos, Enlace, Vigente, FilasDeUno, MasNueva
    PROVE  NuevaCoherente
<1> SUFFICES ASSUME ~Tarde, UnaTabla, algoritmo = "FIFO" \/ size = 1, entradas # <<>>, pcb # Nadie,
                    pcDispatch # "segundo_llamado"
             PROVE  marco[Head(entradas).nroFrame] =
                        [idProceso |-> pcb, nroPagina |-> Head(entradas).nroPagina]
    BY DEF NuevaCoherente
<1>1. pcb \in Pid /\ carga[pcb] = "listo"
      BY DEF Enlace, Vigente
<1>2. Solo(pcb)
  <2>1. PICK p \in Pid : Solo(p)
        BY <1>1, UnaTablaEsSolo
  <2>2. p = pcb
        BY <1>1, <2>1 DEF FilasDeUno, Reemplazo, Ocupa
  <2>3. QED
        BY <2>1, <2>2
<1>3. QED
      BY <1>2 DEF MasNueva

LEMMA UnoSigue ==
    Tipos /\ Enlace /\ Vigente /\ FilasDeUno /\ MasNueva /\ [SistemaNext]_sistema
        => Tipos' /\ Enlace' /\ Vigente' /\ FilasDeUno' /\ MasNueva'
BY TiposDelSistema, EnlaceSigue, VigenteSigue, FilasDelSistema, MasNuevaSigue

\* The newest translation is of the page that its frame has while one process
\* has tables, under FIFO or with one entry, for every size of the TLB and of
\* the memory, although a replacement never tells the TLB (actualizar_TLB and
\* reemplazarEnRam).  Suspensions do not change it until a SUSPENDER comes
\* late, which may free the frame of a translation.
THEOREM LaNuevaEsCoherente == Sistema => []NuevaCoherente
<1>1. SistemaInit => Tipos /\ Enlace /\ Vigente /\ FilasDeUno /\ MasNueva
      BY SistemaAlInicio, UnoAlInicio
<1>2. Tipos /\ Enlace /\ Vigente /\ FilasDeUno /\ MasNueva => NuevaCoherente
      BY MasNuevaDice
<1>3. QED
      BY <1>1, <1>2, UnoSigue, PTL DEF Sistema

\* Rows and frames agree while one process has tables, until a SUSPENDER comes
\* late, also when the CPU accesses frames that it translated before and not
\* pages that it asked for (accesoMemoriaRead and the others, which look rows
\* up by frame).
THEOREM TablasConLaCpu == Sistema => [](UnaTabla => FrameDeLaFila)
<1>1. SistemaInit => Tipos /\ Enlace /\ Vigente /\ FilasDeUno /\ MasNueva
      BY SistemaAlInicio, UnoAlInicio
<1>2. Tipos /\ FilasDeUno => (UnaTabla => FrameDeLaFila)
      BY FilasDeUnoDice
<1>3. QED
      BY <1>1, <1>2, UnoSigue, PTL DEF Sistema

-----------------------------------------------------------------------------
(* While every SUSPENDER comes on time.                                    *)

\* conexionKernel never works for the process that runs, so no row loses its
\* frame between Mira and LeeFrame, and each answer is a frame.
Atendido ==
    /\ tardes = 0
    /\ pcKer # "libre" => carga[pidKer] # "listo"
    /\ pcCpu \in {"usa", "lee"} => FilaUsada
    /\ pcDispatch = "segundo_llamado" /\ pcCpu = "accede" => frame \in Frames

\* None comes late.
LEMMA NadieTarde ==
    ASSUME Enlace, MaxTardes = 0, tardes = 0, [SistemaNext]_sistema
    PROVE  tardes' = 0 /\ \A p \in Pid : ~PideSuspenderTarde(p)
<1>1. \A p \in Pid : ~PideSuspenderTarde(p)
      BY DEF PideSuspenderTarde
<1>2. CASE SoloMemoria /\ (Busqueda \/ Acceso)
      BY <1>1, <1>2 DEF Busqueda, Acceso, BuscaPagina, Mira, TraduceEnRam, TraduceAusente,
             UsaPagina, LeeFrame, HayFrameLibre, NoHayFrameLibre, TomaFrames, GiraVictima,
             GiraSigue, FinVuelta, BuscaVieja, Carga, ActualizaTablas, ActualizaFrames,
             accesoMemoriaRead, accesoMemoriaCopy, accesoMemoriaWrite, externo, pedidas
<1>3. CASE SoloMemoria /\ conexionKernel
      BY <1>1, <1>3 DEF conexionKernel, suspender, pasarAExit, CreaTabla, AsignaFrames, Toma2N,
             SuspendePagina, CopiaPagina, SuspendeSinFrame, FinSuspender, LiberaSuspendido,
             Suspendido, LiberaPagina, FinExit, externo, pedidas
<1>4. CASE SoloMemoria /\ PedidosKernel
      BY <1>1, <1>4 DEF PedidosKernel, PidePasarAReady, PideSuspender, PidePasarAExit, pedidas
<1>5. CASE ~SoloMemoria
      BY <1>1, <1>5 DEF SistemaNext, SoloCpu, PideTraduccion, CpuPide, RespondeTraduccion,
             PideAcceso, RespondeAcceso, Marca, sistema, vars, externo, pedidas
<1>6. QED
      BY <1>1, <1>2, <1>3, <1>4, <1>5 DEF SoloMemoria

\* conexionKernel works for a process that is not loaded.
LEMMA KernelConOtro ==
    ASSUME Tipos, Enlace, Vigente, Atendido, MaxTardes = 0, [SistemaNext]_sistema
    PROVE  pcKer' # "libre" => carga'[pidKer'] # "listo"
<1>1. CASE UNCHANGED <<kernel, carga>>
      BY <1>1 DEF Atendido, kernel
<1>2. CASE conexionKernel
      BY <1>2 DEF conexionKernel, suspender, pasarAExit, CreaTabla, AsignaFrames, Toma2N,
             SuspendePagina, CopiaPagina, SuspendeSinFrame, FinSuspender, LiberaSuspendido,
             Suspendido, LiberaPagina, FinExit, PasoKer, externo, Atendido
<1>3. CASE PedidosKernel
  <2>1. PICK p \in Pid :
            /\ pidKer' = p
            /\ \E a \in {"entra", "suspendido", "fin"} : carga' = [carga EXCEPT ![p] = a]
        BY <1>3, NadieTarde DEF Atendido, PedidosKernel, PidePasarAReady, PideSuspender,
                                PidePasarAExit, Pide
  <2>2. QED
        BY <2>1 DEF Vigente
<1>4. CASE ~SoloMemoria \/ Busqueda \/ Acceso
  <2>1. UNCHANGED <<kernel, carga>>
        BY <1>4 DEF SistemaNext, SoloCpu, PideTraduccion, CpuPide, RespondeTraduccion,
             PideAcceso, RespondeAcceso, Marca, sistema, vars, externo,
             Busqueda, Acceso, BuscaPagina, Mira, TraduceEnRam, TraduceAusente,
             UsaPagina, LeeFrame, HayFrameLibre, NoHayFrameLibre, TomaFrames, GiraVictima,
             GiraSigue, FinVuelta, BuscaVieja, Carga, ActualizaTablas, ActualizaFrames,
             accesoMemoriaRead, accesoMemoriaCopy, accesoMemoriaWrite
  <2>2. QED
        BY <1>1, <2>1
<1>5. QED
      BY <1>2, <1>3, <1>4 DEF SoloMemoria

\* The row that conexionCPU uses keeps a frame.
LEMMA FilaUsadaQueda ==
    ASSUME Tipos, Enlace, Vigente, Atendido, [SistemaNext]_sistema, pcCpu' \in {"usa", "lee"}
    PROVE  FilaUsada'
<1>1. CASE Busqueda \/ Acceso
  <2>1. conexionCPU
        BY <1>1 DEF Busqueda, Acceso, conexionCPU
  <2>2. QED
        BY <2>1, SigueUsada DEF Atendido
<1>2. CASE SoloMemoria /\ conexionKernel
  <2>1. UNCHANGED <<pcCpu, pid, pagina>>
        BY <1>2 DEF conexionKernel, suspender, pasarAExit, CreaTabla, AsignaFrames, Toma2N,
             SuspendePagina, CopiaPagina, SuspendeSinFrame, FinSuspender, LiberaSuspendido,
             Suspendido, LiberaPagina, FinExit, cpu
  <2>2. /\ FilaUsada /\ pid \in Pid /\ carga[pid] = "listo"
    <3>1. pcDispatch \in EnCurso /\ pid = pcb /\ pcb \in Pid
          BY <2>1, NadieNoEsProceso DEF Enlace, EnCurso, Tipos, TiposCpu
    <3>2. QED
          BY <2>1, <3>1 DEF Vigente, Atendido
  <2>3. pcKer # "libre" /\ pidKer # pid
        BY <1>2, <2>2 DEF Atendido, conexionKernel, suspender, pasarAExit, CreaTabla,
             AsignaFrames, Toma2N, SuspendePagina, CopiaPagina, SuspendeSinFrame,
             FinSuspender, LiberaSuspendido, Suspendido, LiberaPagina, FinExit, PasoKer
  <2>4. \/ fila' = fila
        \/ \E n, v : fila' = [fila EXCEPT ![pidKer][n] = v]
        BY <1>2 DEF conexionKernel, suspender, pasarAExit, CreaTabla, AsignaFrames, Toma2N,
             SuspendePagina, CopiaPagina, SuspendeSinFrame, FinSuspender, LiberaSuspendido,
             Suspendido, LiberaPagina, FinExit, tablas
  <2>5. fila'[pid] = fila[pid]
        BY <2>2, <2>3, <2>4 DEF Tipos, EsTabla
  <2>6. QED
        BY <2>1, <2>2, <2>5 DEF FilaUsada
<1>3. CASE ~SoloMemoria \/ PedidosKernel
  <2>1. /\ UNCHANGED fila
        /\ UNCHANGED <<pcCpu, pid, pagina>>
        BY <1>3 DEF SistemaNext, SoloCpu, PideTraduccion, CpuPide, RespondeTraduccion,
             PideAcceso, RespondeAcceso, Marca, PasoCpu, sistema, vars, tablas, cpu,
             PedidosKernel, PidePasarAReady, PideSuspender, PideSuspenderTarde,
             PidePasarAExit, Pide
  <2>2. QED
        BY <2>1 DEF FilaUsada, Atendido
<1>4. QED
      BY <1>1, <1>2, <1>3 DEF SoloMemoria

\* An answer is a frame.
LEMMA FrameAtendido ==
    ASSUME Tipos, Enlace, Atendido, [SistemaNext]_sistema,
           pcDispatch' = "segundo_llamado", pcCpu' = "accede"
    PROVE  frame' \in Frames
<1>1. pcDispatch = "segundo_llamado"
      BY EsperaTraduccion
<1>2. CASE LeeFrame
      BY <1>2, FrameLeido DEF LeeFrame, PasoCpu, FilaUsada, Atendido, Tipos
<1>3. CASE ActualizaFrames
      BY <1>3 DEF ActualizaFrames, PasoCpu, Tipos, TiposCpu, Cargando
<1>4. CASE TraduceEnRam \/ UsaPagina
      BY <1>4 DEF TraduceEnRam, Mira, UsaPagina, PasoCpu
<1>5. CASE UNCHANGED <<frame, pagina, pcCpu>>
      BY <1>1, <1>5 DEF Atendido
<1>6. QED
      BY <1>2, <1>3, <1>4, <1>5, EsperaTraduccion

LEMMA AtendidoSigue ==
    ASSUME Tipos, Enlace, Vigente, Atendido, MaxTardes = 0, [SistemaNext]_sistema
    PROVE  Atendido'
<1>1. tardes' = 0
      BY NadieTarde DEF Atendido
<1>2. pcKer' # "libre" => carga'[pidKer'] # "listo"
      BY KernelConOtro
<1>3. (pcCpu \in {"usa", "lee"} => FilaUsada)'
      BY FilaUsadaQueda
<1>4. (pcDispatch = "segundo_llamado" /\ pcCpu = "accede" => frame \in Frames)'
      BY FrameAtendido
<1>5. QED
      BY <1>1, <1>2, <1>3, <1>4 DEF Atendido

\* The composition implements the CPU: for every size of the memory and of the
\* TLB, with suspensions that come on time, the memory answers each translation
\* with a frame and the CPU does nothing that the module Cpu does not allow it.
\* A late SUSPENDER may be served between peticiones.c:391 and :398, and the
\* answer is then -1.
THEOREM SistemaImplementaCpu == ASSUME MaxTardes = 0 PROVE Sistema => ImplementaCpu
<1>1. SistemaInit => C!CpuInit /\ Tipos /\ Enlace /\ Vigente /\ Atendido
  <2>1. SistemaInit => Atendido
        BY DEF SistemaInit, Init, C!CpuInit, Atendido
  <2>2. QED
        BY <2>1, SistemaAlInicio, UnoAlInicio
<1>2. Tipos /\ Enlace /\ Vigente /\ Atendido /\ [SistemaNext]_sistema
        => Tipos' /\ Enlace' /\ Vigente' /\ Atendido' /\ [C!CpuNext]_(C!cpuVars)
  <2> SUFFICES ASSUME Tipos, Enlace, Vigente, Atendido, [SistemaNext]_sistema
               PROVE  Tipos' /\ Enlace' /\ Vigente' /\ Atendido' /\ [C!CpuNext]_(C!cpuVars)
      OBVIOUS
  <2>1. RespondeTraduccion => frame \in Frames
        BY DEF Atendido, RespondeTraduccion, PasoCpu, C!Traduce, C!PasoDispatch
  <2>2. QED
        BY <2>1, TiposDelSistema, EnlaceSigue, VigenteSigue, AtendidoSigue, PasoDeCpu
<1>3. QED
      BY <1>1, <1>2, PTL DEF Sistema, ImplementaCpu, C!CpuSpec

=============================================================================
