----------------------------- MODULE CpuProofs -----------------------------
(***************************************************************************)
(* The CPU and its TLB for every number of pages, of frames and of         *)
(* entries, both algorithms, and any number of interrupts.                 *)
(***************************************************************************)
EXTENDS CpuPropiedades, FiniteSetTheorems, SequenceTheorems, TLAPS

-----------------------------------------------------------------------------
(* Lists.                                                                  *)

LEMMA ListaVacia == \A S : <<>> \in Seq(S) /\ Len(<<>>) = 0
OBVIOUS

LEMMA ListasCortas ==
    \A S : \A a, b \in S :
        /\ <<a>> \in Seq(S) /\ Len(<<a>>) = 1
        /\ <<a, b>> \in Seq(S) /\ Len(<<a, b>>) = 2
OBVIOUS

LEMMA ListaAlFrente ==
    ASSUME NEW S, NEW s \in Seq(S), NEW e \in S
    PROVE  /\ AlFrente(e, s) \in Seq(S) /\ Len(AlFrente(e, s)) = Len(s) + 1
           /\ AlFrente(e, s)[1] = e /\ Head(AlFrente(e, s)) = e
           /\ \A j \in 2..(Len(s) + 1) : AlFrente(e, s)[j] = s[j - 1]
BY DEF AlFrente

LEMMA ListaQuitar ==
    ASSUME NEW S, NEW s \in Seq(S), NEW i \in 1..Len(s)
    PROVE  /\ Quitar(s, i) \in Seq(S) /\ Len(Quitar(s, i)) = Len(s) - 1
           /\ \A j \in 1..(Len(s) - 1) :
                Quitar(s, i)[j] = IF j < i THEN s[j] ELSE s[j + 1]
<1> DEFINE a == SubSeq(s, 1, i - 1)
           b == SubSeq(s, i + 1, Len(s))
<1>1. /\ a \in Seq(S) /\ Len(a) = i - 1 /\ \A j \in 1..(i - 1) : a[j] = s[j]
      OBVIOUS
<1>2. /\ b \in Seq(S) /\ Len(b) = Len(s) - i
      /\ \A j \in 1..(Len(s) - i) : b[j] = s[j + i]
      OBVIOUS
<1> HIDE DEF a, b
<1>3. /\ a \o b \in Seq(S) /\ Len(a \o b) = Len(s) - 1
      /\ \A j \in 1..(Len(s) - 1) : (a \o b)[j] = IF j < i THEN s[j] ELSE s[j + 1]
  <2>1. /\ a \o b \in Seq(S) /\ Len(a \o b) = Len(a) + Len(b)
        /\ \A j \in 1..(Len(a) + Len(b)) :
                (a \o b)[j] = IF j <= Len(a) THEN a[j] ELSE b[j - Len(a)]
        BY <1>1, <1>2, ConcatProperties
  <2>2. ASSUME NEW j \in 1..(Len(s) - 1)
        PROVE  (a \o b)[j] = IF j < i THEN s[j] ELSE s[j + 1]
    <3>1. (a \o b)[j] = IF j < i THEN a[j] ELSE b[j - (i - 1)]
      <4>1. j \in 1..(Len(a) + Len(b)) /\ Len(a) = i - 1 /\ (j <= i - 1 <=> j < i)
            BY <1>1, <1>2
      <4>2. QED
            BY <2>1, <4>1
    <3>2. CASE j < i
          BY <1>1, <3>1, <3>2
    <3>3. CASE ~(j < i)
      <4>1. j - (i - 1) \in 1..(Len(s) - i) /\ (j - (i - 1)) + i = j + 1
            BY <3>3
      <4>2. QED
            BY <1>2, <3>1, <3>3, <4>1
    <3>4. QED
          BY <3>2, <3>3
  <2>3. QED
        BY <1>1, <1>2, <2>1, <2>2
<1>4. QED
      BY <1>3 DEF Quitar, a, b

\* An element in the place of the one at i, in front of the rest.
Cambiada(s, e, i) == AlFrente(e, Quitar(s, i))

LEMMA ListaCambiada ==
    ASSUME NEW S, NEW s \in Seq(S), NEW e \in S, NEW i \in 1..Len(s)
    PROVE  /\ Cambiada(s, e, i) \in Seq(S) /\ Len(Cambiada(s, e, i)) = Len(s)
           /\ Cambiada(s, e, i)[1] = e /\ Head(Cambiada(s, e, i)) = e
           /\ \A j \in 2..Len(s) :
                Cambiada(s, e, i)[j] = IF j <= i THEN s[j - 1] ELSE s[j]
<1> DEFINE q == Quitar(s, i)
<1>1. /\ q \in Seq(S) /\ Len(q) = Len(s) - 1
      /\ \A j \in 1..(Len(s) - 1) : q[j] = IF j < i THEN s[j] ELSE s[j + 1]
      BY ListaQuitar
<1> HIDE DEF q
<1>2. /\ AlFrente(e, q) \in Seq(S) /\ Len(AlFrente(e, q)) = Len(q) + 1
      /\ AlFrente(e, q)[1] = e /\ Head(AlFrente(e, q)) = e
      /\ \A j \in 2..(Len(q) + 1) : AlFrente(e, q)[j] = q[j - 1]
  <2>1. q \in Seq(S)
        BY <1>1
  <2>2. QED
        BY <2>1, ListaAlFrente
<1>3. \A j \in 2..Len(s) : AlFrente(e, q)[j] = IF j <= i THEN s[j - 1] ELSE s[j]
      BY <1>1, <1>2
<1>4. QED
      BY <1>1, <1>2, <1>3 DEF Cambiada, q

-----------------------------------------------------------------------------
(* The TLB.                                                                *)

TiposTLB == size \in Nat \ {0} /\ algoritmo \in {"LRU", "FIFO"} /\ entradas \in Seq(Entradas)

SinRepetir(s) == \A a, b \in 1..Len(s) : s[a].nroPagina = s[b].nroPagina => a = b

\* Where the element at j of Cambiada(s, e, i) was.
Lugar(i, j) == IF j <= i THEN j - 1 ELSE j

LEMMA LugarDice ==
    ASSUME NEW k \in Nat, NEW i \in 1..k
    PROVE  /\ \A j \in 2..k : Lugar(i, j) \in (1..k) \ {i}
           /\ \A j, h \in 2..k : Lugar(i, j) = Lugar(i, h) => j = h
           /\ \A j, h \in 2..k : j < h => Lugar(i, j) < Lugar(i, h)
           /\ \A a \in (1..k) \ {i} : \E j \in 2..k : a = Lugar(i, j)
<1>1. ASSUME NEW a \in (1..k) \ {i} PROVE \E j \in 2..k : a = Lugar(i, j)
  <2>1. CASE a < i
    <3>1. a + 1 \in 2..k /\ a = Lugar(i, a + 1)
          BY <2>1 DEF Lugar
    <3>2. QED
          BY <3>1
  <2>2. CASE a > i
    <3>1. a \in 2..k /\ a = Lugar(i, a)
          BY <2>2 DEF Lugar
    <3>2. QED
          BY <3>1
  <2>3. QED
        BY <2>1, <2>2
<1>2. QED
      BY <1>1 DEF Lugar

LEMMA CambiadaConLugar ==
    ASSUME NEW S, NEW s \in Seq(S), NEW e \in S, NEW i \in 1..Len(s)
    PROVE  \A j \in 2..Len(s) : Cambiada(s, e, i)[j] = s[Lugar(i, j)]
BY ListaCambiada DEF Lugar

LEMMA CambiadaSinRepetir ==
    ASSUME NEW s \in Seq(Entradas), NEW e \in Entradas, NEW i \in 1..Len(s), SinRepetir(s),
           \A j \in 1..Len(s) : j # i => s[j].nroPagina # e.nroPagina
    PROVE  SinRepetir(Cambiada(s, e, i))
<1> DEFINE t == Cambiada(s, e, i)
<1>1. Len(s) \in Nat /\ Len(t) = Len(s) /\ t[1] = e
      BY ListaCambiada
<1>2. \A j \in 2..Len(s) :
        Lugar(i, j) \in 1..Len(s) /\ Lugar(i, j) # i /\ t[j] = s[Lugar(i, j)]
  <2>1. \A j \in 2..Len(s) : Lugar(i, j) \in (1..Len(s)) \ {i}
        BY <1>1, LugarDice
  <2>2. \A j \in 2..Len(s) : t[j] = s[Lugar(i, j)]
        BY CambiadaConLugar
  <2>3. QED
        BY <2>1, <2>2
<1> HIDE DEF t
<1>3. \A j \in 2..Len(s) : t[j].nroPagina # e.nroPagina
      BY <1>2
<1>4. ASSUME NEW j \in 2..Len(s), NEW h \in 2..Len(s), t[j].nroPagina = t[h].nroPagina
      PROVE  j = h
  <2>1. Lugar(i, j) = Lugar(i, h)
        BY <1>2, <1>4 DEF SinRepetir
  <2>2. QED
        BY <1>1, <2>1, LugarDice
<1>5. \A j \in 1..Len(s) : j = 1 \/ j \in 2..Len(s)
      OBVIOUS
<1>6. SinRepetir(t)
      BY <1>1, <1>3, <1>4, <1>5 DEF SinRepetir
<1>7. QED
      BY <1>6 DEF t

LEMMA UnicasDice ==
    ASSUME TiposTLB
    PROVE  EntradasUnicas <=> Len(entradas) <= size /\ SinRepetir(entradas)
BY DEF TiposTLB, EntradasUnicas, SinRepetir

\* What a search that finds the page, and an addition, leave.
Guardada(e) ==
    /\ \E i \in DOMAIN entradas : entradas[i] = e
    /\ algoritmo = "LRU" => Head(entradas) = e

LEMMA BuscarDeja ==
    ASSUME TiposTLB, EntradasUnicas, NEW n, NEW f, buscar_en_TLB(n, f)
    PROVE  TiposTLB' /\ EntradasUnicas' /\ Guardada([nroPagina |-> n, nroFrame |-> f])'
<1>1. PICK i \in 1..Len(entradas) :
        /\ entradas[i] \in Entradas /\ entradas[i].nroPagina = n /\ entradas[i].nroFrame = f
        /\ entradas' = IF algoritmo = "LRU" THEN Cambiada(entradas, entradas[i], i)
                       ELSE entradas
      BY DEF TiposTLB, buscar_en_TLB, EsLaPrimera, Cambiada
<1>2. entradas[i] = [nroPagina |-> n, nroFrame |-> f] /\ UNCHANGED <<size, algoritmo>>
      BY <1>1 DEF Entradas, buscar_en_TLB
<1>3. CASE algoritmo = "LRU"
  <2>1. /\ entradas' \in Seq(Entradas) /\ Len(entradas') = Len(entradas)
        /\ entradas'[1] = entradas[i] /\ Head(entradas') = entradas[i]
        BY <1>1, <1>3, ListaCambiada DEF TiposTLB
  <2>2. SinRepetir(entradas')
    <3>1. SinRepetir(entradas)
          BY UnicasDice
    <3>2. \A j \in 1..Len(entradas) : j # i => entradas[j].nroPagina # entradas[i].nroPagina
          BY <3>1 DEF SinRepetir
    <3>3. QED
          BY <1>1, <1>3, <3>1, <3>2, CambiadaSinRepetir DEF TiposTLB
  <2>3. 1 \in DOMAIN entradas'
        BY <1>1, <2>1
  <2>4. TiposTLB' /\ EntradasUnicas'
    <3>1. TiposTLB' /\ Len(entradas') <= size'
          BY <1>2, <2>1, UnicasDice DEF TiposTLB
    <3>2. QED
          BY <2>2, <3>1 DEF TiposTLB, EntradasUnicas, SinRepetir
  <2>5. QED
        BY <1>2, <2>1, <2>3, <2>4 DEF Guardada
<1>4. CASE algoritmo # "LRU"
  <2>1. entradas' = entradas
        BY <1>1, <1>4
  <2>2. i \in DOMAIN entradas'
        BY <1>1, <2>1 DEF TiposTLB
  <2>3. QED
        BY <1>2, <1>4, <2>1, <2>2 DEF TiposTLB, EntradasUnicas, Guardada
<1>5. QED
      BY <1>3, <1>4

\* The two ways an addition makes the list.
LEMMA ActualizarLista ==
    ASSUME TiposTLB, EntradasUnicas, NEW n, NEW f, actualizar_TLB(n, f)
    PROVE  LET e == [nroPagina |-> n, nroFrame |-> f] IN
           /\ UNCHANGED <<size, algoritmo>>
           /\ \/ Len(entradas) < size /\ entradas' = AlFrente(e, entradas)
              \/ /\ Len(entradas) = size /\ Len(entradas) \in 1..Len(entradas)
                 /\ entradas' = Cambiada(entradas, e, Len(entradas))
BY UnicasDice DEF TiposTLB, actualizar_TLB, tlbTieneEntradasLibres, llenar_TLB,
   reemplazo_lru, reemplazo_fifo, Cambiada

LEMMA ActualizarDeja ==
    ASSUME TiposTLB, EntradasUnicas, NEW n \in NumerosDePagina, NEW f \in NumerosDeMarco,
           ~Acierto(n), actualizar_TLB(n, f)
    PROVE  TiposTLB' /\ EntradasUnicas' /\ Guardada([nroPagina |-> n, nroFrame |-> f])'
<1> DEFINE e == [nroPagina |-> n, nroFrame |-> f]
<1>1. /\ e \in Entradas /\ e.nroPagina = n /\ UNCHANGED <<size, algoritmo>>
      /\ \A j \in 1..Len(entradas) : entradas[j].nroPagina # n
      /\ entradas \in Seq(Entradas) /\ Len(entradas) \in Nat
      /\ Len(entradas) <= size /\ size \in Nat /\ SinRepetir(entradas)
  <2>1. e \in Entradas /\ e.nroPagina = n
        BY DEF Entradas
  <2>2. UNCHANGED <<size, algoritmo>>
        BY ActualizarLista
  <2>3. \A j \in 1..Len(entradas) : entradas[j].nroPagina # n
        BY DEF TiposTLB, Acierto
  <2>4. /\ entradas \in Seq(Entradas) /\ Len(entradas) \in Nat /\ size \in Nat
        /\ Len(entradas) <= size /\ SinRepetir(entradas)
        BY UnicasDice DEF TiposTLB
  <2>5. QED
        BY <2>1, <2>2, <2>3, <2>4
<1>2. \/ Len(entradas) < size /\ entradas' = AlFrente(e, entradas)
      \/ /\ Len(entradas) = size /\ Len(entradas) \in 1..Len(entradas)
         /\ entradas' = Cambiada(entradas, e, Len(entradas))
      BY ActualizarLista
<1> HIDE DEF e
<1>3. CASE Len(entradas) < size /\ entradas' = AlFrente(e, entradas)
  <2>1. /\ entradas' \in Seq(Entradas) /\ Len(entradas') = Len(entradas) + 1
        /\ entradas'[1] = e /\ Head(entradas') = e
        /\ \A j \in 2..(Len(entradas) + 1) : entradas'[j] = entradas[j - 1]
    <3> DEFINE t == AlFrente(e, entradas)
    <3>1. /\ t \in Seq(Entradas) /\ Len(t) = Len(entradas) + 1
          /\ t[1] = e /\ Head(t) = e
          /\ \A j \in 2..(Len(entradas) + 1) : t[j] = entradas[j - 1]
      <4>1. e \in Entradas /\ entradas \in Seq(Entradas)
            BY <1>1
      <4>2. QED
            BY <4>1, ListaAlFrente
    <3> HIDE DEF t
    <3>2. entradas' = t
          BY <1>3 DEF t
    <3>3. QED
          BY <3>1, <3>2
  <2>2. \A j \in 1..Len(entradas') : j = 1 \/ (j # 1 /\ j - 1 \in 1..Len(entradas))
        BY <1>1, <2>1
  <2>3. SinRepetir(entradas')
    <3> SUFFICES ASSUME NEW j \in 1..Len(entradas'), NEW h \in 1..Len(entradas'),
                        entradas'[j].nroPagina = entradas'[h].nroPagina
                 PROVE  j = h
          BY DEF SinRepetir
    <3>1. \A a \in 1..Len(entradas') : a # 1 =>
            a - 1 \in 1..Len(entradas) /\ entradas'[a] = entradas[a - 1]
          BY <1>1, <2>1, <2>2
    <3>2. j # 1 /\ h # 1 => j - 1 = h - 1
      <4>1. ASSUME j # 1, h # 1
            PROVE  /\ j - 1 \in 1..Len(entradas) /\ h - 1 \in 1..Len(entradas)
                   /\ entradas[j - 1].nroPagina = entradas[h - 1].nroPagina
            BY <3>1, <4>1
      <4>2. QED
            BY <1>1, <4>1 DEF SinRepetir
    <3>3. j = 1 <=> h = 1
      <4>1. ASSUME NEW a \in 1..Len(entradas'), a # 1
            PROVE  entradas'[a].nroPagina # entradas'[1].nroPagina
        <5>1. a - 1 \in 1..Len(entradas) /\ entradas'[a] = entradas[a - 1]
              BY <3>1, <4>1
        <5>2. entradas'[a].nroPagina # n /\ entradas'[1].nroPagina = n
              BY <1>1, <2>1, <5>1
        <5>3. QED
              BY <5>2
      <4>2. 1 \in 1..Len(entradas')
            BY <1>1, <2>1
      <4>3. QED
            BY <4>1, <4>2
    <3>4. QED
          BY <3>2, <3>3
  <2>4. Len(entradas') <= size /\ 1 \in DOMAIN entradas'
        BY <1>1, <1>3, <2>1
  <2>5. QED
        BY <1>1, <2>1, <2>3, <2>4 DEF TiposTLB, EntradasUnicas, SinRepetir, Guardada, e
<1>4. CASE /\ Len(entradas) = size /\ Len(entradas) \in 1..Len(entradas)
           /\ entradas' = Cambiada(entradas, e, Len(entradas))
  <2>1. /\ entradas' \in Seq(Entradas) /\ Len(entradas') = Len(entradas)
        /\ entradas'[1] = e /\ Head(entradas') = e
        BY <1>1, <1>4, ListaCambiada
  <2>2. SinRepetir(entradas')
        BY <1>1, <1>4, CambiadaSinRepetir
  <2>3. Len(entradas') <= size /\ 1 \in DOMAIN entradas'
        BY <1>1, <1>4, <2>1
  <2>4. QED
        BY <1>1, <2>1, <2>2, <2>3 DEF TiposTLB, EntradasUnicas, SinRepetir, Guardada, e
<1>5. QED
      BY <1>2, <1>3, <1>4

-----------------------------------------------------------------------------
(* The instruction cycle.                                                  *)

\* An instruction asks the memory only for a page that the TLB has not, and
\* translates no more pages than it has.
Pendiente ==
    /\ Len(marcos) <= Len(operandos)
    /\ pcDispatch \in {"primer_llamado", "segundo_llamado"} => ~Acierto(Pagina)

\* A flag that is up, and is not about to be lowered, is of an interrupt that
\* has sent nobody back.
Contadas ==
    /\ devueltas <= recibidas
    /\ interrupciones /\ pcDispatch # "baja" => devueltas < recibidas

CpuInv == CpuTypeOK /\ EntradasUnicas /\ UltimaTraduccion /\ Pendiente /\ Contadas

LEMMA TiposDelTLB == CpuTypeOK => TiposTLB
BY TamaniosDeTLB DEF CpuTypeOK, TiposTLB

\* An operand translated: the TLB has it.
LEMMA OperandoTraducido ==
    ASSUME CpuInv, Falta, NEW n, n = Pagina,
           NEW f \in NumerosDeMarco, marcos' = Append(marcos, f),
           pcDispatch' = "traduce", pcDispatch # "baja",
           UNCHANGED <<pcb, op, operandos, interrupciones, cuentas, size>>,
           TiposTLB', EntradasUnicas',
           Guardada([nroPagina |-> n, nroFrame |-> f])'
    PROVE  CpuInv'
<1>1. /\ marcos \in Seq(NumerosDeMarco) /\ operandos \in Seq(NumerosDePagina)
      BY DEF CpuInv, CpuTypeOK
<1>2. /\ marcos' \in Seq(NumerosDeMarco) /\ Len(marcos') = Len(marcos) + 1
      /\ marcos'[Len(marcos')] = f /\ operandos'[Len(marcos')] = n
      /\ Len(marcos') <= Len(operandos')
      BY <1>1 DEF Falta, Pagina
<1>3. CpuTypeOK'
      BY <1>2 DEF CpuInv, CpuTypeOK, TiposTLB, PcDispatch, cuentas
<1>4. UltimaTraduccion'
      BY <1>2 DEF UltimaTraduccion, Guardada
<1>5. Pendiente' /\ Contadas'
      BY <1>2 DEF CpuInv, Pendiente, Contadas, cuentas
<1>6. QED
      BY <1>3, <1>4, <1>5 DEF CpuInv

LEMMA PasosConTLB ==
    ASSUME CpuInv, NEW f \in NumerosDeMarco, Acierta(f) \/ Traduce(f)
    PROVE  CpuInv'
<1>1. TiposTLB /\ EntradasUnicas
      BY TiposDelTLB DEF CpuInv
<1>2. Falta
      BY DEF Acierta, Traduce, PasoDispatch, CpuInv, CpuTypeOK
<1>3. Pagina \in NumerosDePagina
  <2>1. operandos \in Seq(NumerosDePagina) /\ marcos \in Seq(NumerosDeMarco)
        BY DEF CpuInv, CpuTypeOK
  <2>2. QED
        BY <1>2, <2>1 DEF Falta, Pagina
<1> PICK n : n = Pagina
      OBVIOUS
<1>4. /\ marcos' = Append(marcos, f) /\ pcDispatch' = "traduce" /\ pcDispatch # "baja"
      /\ UNCHANGED <<pcb, op, operandos, interrupciones, cuentas>>
      BY DEF Acierta, Traduce, PasoDispatch
<1>5. UNCHANGED size /\ TiposTLB' /\ EntradasUnicas'
      /\ Guardada([nroPagina |-> n, nroFrame |-> f])'
  <2>1. CASE Acierta(f)
    <3>1. buscar_en_TLB(n, f)
          BY <2>1 DEF Acierta
    <3>2. QED
          BY <1>1, <3>1, BuscarDeja DEF buscar_en_TLB
  <2>2. CASE Traduce(f)
    <3>1. actualizar_TLB(n, f) /\ ~Acierto(n)
          BY <2>2 DEF Traduce, PasoDispatch, CpuInv, Pendiente
    <3>2. QED
          BY <1>1, <1>3, <3>1, ActualizarDeja DEF actualizar_TLB
  <2>3. QED
        BY <2>1, <2>2
<1>6. QED
      BY <1>2, <1>4, <1>5, OperandoTraducido

LEMMA PasosDeFetch ==
    ASSUME CpuInv, (\E p \in Pid : Recibe(p)) \/ Fetch
    PROVE  CpuInv'
<1>1. UNCHANGED tlb
      BY DEF Recibe, Fetch, NoOp, Read, Write, Copy, Instruccion, Devuelve
<1>2. CpuTypeOK' /\ (marcos' = <<>> \/ pcDispatch' = "fetch")
  <2>1. CASE \E p \in Pid : Recibe(p)
        BY <1>1, <2>1 DEF Recibe, PasoDispatch, CpuInv, CpuTypeOK, PcDispatch, ciclo, cuentas, tlb
  <2>2. CASE Devuelve
        BY <1>1, <2>2, ListaVacia, ListasCortas DEF Devuelve, PasoDispatch, SinMarcos, CpuInv, CpuTypeOK, PcDispatch,
                          cuentas, tlb
  <2>3. CASE NoOp
        BY <1>1, <2>3, ListaVacia, ListasCortas DEF NoOp, Instruccion, PasoDispatch, CpuInv, CpuTypeOK, PcDispatch,
                          cuentas, tlb
  <2>4. CASE \E n \in NumerosDePagina : Read(n) \/ Write(n)
        BY <1>1, <2>4, ListaVacia, ListasCortas DEF Read, Write, Instruccion, PasoDispatch, CpuInv, CpuTypeOK,
                          PcDispatch, cuentas, tlb
  <2>5. CASE \E n, m \in NumerosDePagina : Copy(n, m)
        BY <1>1, <2>5, ListaVacia, ListasCortas DEF Copy, Instruccion, PasoDispatch, CpuInv, CpuTypeOK,
                          PcDispatch, cuentas, tlb
  <2>6. QED
        BY <2>1, <2>2, <2>3, <2>4, <2>5 DEF Fetch
<1>3. /\ pcDispatch \in {"libre", "fetch"}
      /\ pcDispatch' \in {"fetch", "revisa", "traduce", "limpia"}
      /\ UNCHANGED <<interrupciones, cuentas>>
      /\ marcos' = <<>> \/ (pcDispatch' = "fetch" /\ UNCHANGED <<operandos, marcos>>)
      BY DEF Recibe, Fetch, NoOp, Read, Write, Copy, Instruccion, Devuelve, PasoDispatch,
             SinMarcos, ciclo
<1>4. EntradasUnicas'
      BY <1>1 DEF CpuInv, EntradasUnicas, tlb
<1>5. UltimaTraduccion'
      BY <1>3 DEF UltimaTraduccion
<1>6. Pendiente'
  <2>1. Len(operandos') \in Nat
    <3>1. operandos' \in Seq(NumerosDePagina)
          BY <1>2 DEF CpuTypeOK
    <3>2. QED
          BY <3>1
  <2>2. CASE marcos' = <<>>
        BY <1>3, <2>1, <2>2, ListaVacia DEF Pendiente
  <2>3. CASE pcDispatch' = "fetch" /\ UNCHANGED <<operandos, marcos>>
        BY <2>3 DEF CpuInv, Pendiente
  <2>4. QED
        BY <1>3, <2>2, <2>3
<1>7. Contadas'
      BY <1>3 DEF CpuInv, Contadas, cuentas
<1>8. QED
      BY <1>2, <1>4, <1>5, <1>6, <1>7 DEF CpuInv

\* No entry has -1: a search that returns it found no entry.
LEMMA FallaNoEncuentra ==
    ASSUME CpuInv, Falla
    PROVE  ~Acierto(Pagina) /\ UNCHANGED tlb
<1>1. \A i \in DOMAIN entradas : entradas[i].nroFrame # SinMarco
  <2>1. entradas \in Seq(Entradas)
        BY DEF CpuInv, CpuTypeOK
  <2>2. \A i \in DOMAIN entradas : entradas[i] \in Entradas
        BY <2>1
  <2>3. QED
        BY <2>2, SinMarcoNoEsMarco DEF Entradas
<1>2. ~buscar_en_TLB(Pagina, SinMarco)
      BY <1>1 DEF buscar_en_TLB
<1>3. QED
      BY <1>2 DEF Falla, buscar_en_vano

LEMMA PasosSinTLB ==
    ASSUME CpuInv, Falla \/ SegundoLlamado \/ Accede \/ Respuesta \/ Sigue \/ Desaloja \/ Baja
                   \/ iniciarInterrupt
    PROVE  CpuInv'
<1>1. UNCHANGED tlb
      BY FallaNoEncuentra DEF SegundoLlamado, Accede, Respuesta, Sigue, Desaloja, Baja, iniciarInterrupt
<1>2. UNCHANGED ciclo \/ SinMarcos
      BY DEF Falla, SegundoLlamado, Accede, Respuesta, Sigue, Desaloja, Baja, iniciarInterrupt
<1>3. \/ UNCHANGED <<pcDispatch, ciclo>>
      \/ pcDispatch = "traduce" /\ pcDispatch' = "primer_llamado" /\ Falta /\ ~Acierto(Pagina)
         /\ UNCHANGED ciclo
      \/ pcDispatch = "primer_llamado" /\ pcDispatch' = "segundo_llamado" /\ UNCHANGED ciclo
      \/ pcDispatch = "traduce" /\ pcDispatch' = "acceso" /\ ~Falta /\ UNCHANGED ciclo
      \/ pcDispatch = "acceso" /\ pcDispatch' = "revisa" /\ UNCHANGED ciclo
      \/ pcDispatch' \in {"fetch", "baja", "limpia"}
      BY FallaNoEncuentra DEF Falla, SegundoLlamado, Accede, Respuesta, Sigue, Desaloja,
             Baja, iniciarInterrupt, PasoDispatch
<1>4. CpuTypeOK'
  <2>1. recibidas' \in Nat /\ devueltas' \in Nat /\ pcb' \in Pid \cup {Nadie}
    <3>1. \/ UNCHANGED <<cuentas, pcb>>
          \/ devueltas' = devueltas + 1 /\ UNCHANGED recibidas /\ pcb' = Nadie
          \/ recibidas' = recibidas + 1 /\ UNCHANGED <<devueltas, pcb>>
          BY DEF Falla, SegundoLlamado, Accede, Respuesta, Sigue, Desaloja, Baja,
                 iniciarInterrupt
    <3>2. recibidas \in Nat /\ devueltas \in Nat /\ pcb \in Pid \cup {Nadie}
          BY DEF CpuInv, CpuTypeOK
    <3>3. QED
          BY <3>1, <3>2 DEF cuentas
  <2>2. interrupciones' \in BOOLEAN
        BY DEF CpuInv, CpuTypeOK, Falla, SegundoLlamado, Accede, Respuesta, Sigue,
               Desaloja, Baja, iniciarInterrupt
  <2>3. /\ op' \in {"", "NO_OP", "READ", "WRITE", "COPY"}
        /\ operandos' \in Seq(NumerosDePagina) /\ marcos' \in Seq(NumerosDeMarco)
        BY <1>2, ListaVacia DEF CpuInv, CpuTypeOK, SinMarcos, ciclo
  <2>4. pcDispatch' \in PcDispatch
        BY <1>3 DEF CpuInv, CpuTypeOK, PcDispatch
  <2>5. /\ pcDispatch' \in {"primer_llamado", "segundo_llamado"} => Falta'
        /\ pcDispatch' = "acceso" => Len(marcos') = Len(operandos')
    <3>1. Len(marcos) \in Nat /\ Len(operandos) \in Nat
      <4>1. marcos \in Seq(NumerosDeMarco) /\ operandos \in Seq(NumerosDePagina)
            BY DEF CpuInv, CpuTypeOK
      <4>2. QED
            BY <4>1
    <3>2. /\ pcDispatch \in {"primer_llamado", "segundo_llamado"} => Falta
          /\ pcDispatch = "acceso" => Len(marcos) = Len(operandos)
          /\ Len(marcos) <= Len(operandos)
          BY DEF CpuInv, CpuTypeOK, Pendiente
    <3>3. QED
          BY <1>3, <3>1, <3>2 DEF Falta, ciclo
  <2>6. QED
        BY <1>1, <2>1, <2>2, <2>3, <2>4, <2>5 DEF CpuInv, CpuTypeOK, tlb
<1>5. EntradasUnicas'
      BY <1>1 DEF CpuInv, EntradasUnicas, tlb
<1>6. UltimaTraduccion'
      BY <1>1, <1>2, <1>3, ListaVacia DEF CpuInv, UltimaTraduccion, SinMarcos, ciclo, tlb
<1>7. Pendiente'
  <2>1. Len(marcos') <= Len(operandos')
    <3>1. CASE SinMarcos
      <4>1. operandos' = <<>> /\ marcos' = <<>>
            BY <3>1 DEF SinMarcos
      <4>2. QED
            BY <4>1
    <3>2. CASE UNCHANGED ciclo
          BY <3>2 DEF CpuInv, Pendiente, ciclo
    <3>3. QED
          BY <1>2, <3>1, <3>2
  <2>2. pcDispatch' \in {"primer_llamado", "segundo_llamado"} =>
            UNCHANGED <<operandos, marcos>> /\ ~Acierto(Pagina)
        BY <1>3 DEF CpuInv, Pendiente, ciclo
  <2>3. UNCHANGED entradas
        BY <1>1 DEF tlb
  <2>4. QED
        BY <2>1, <2>2, <2>3 DEF Pendiente, Acierto, Pagina
<1>8. Contadas'
  <2>1. devueltas \in Nat /\ recibidas \in Nat
        BY DEF CpuInv, CpuTypeOK
  <2>2. CASE iniciarInterrupt
        BY <2>1, <2>2 DEF CpuInv, Contadas, iniciarInterrupt
  <2>3. CASE Desaloja
        BY <2>1, <2>3 DEF CpuInv, Contadas, Desaloja, PasoDispatch
  <2>4. CASE Baja
        BY <2>4 DEF CpuInv, Contadas, Baja, cuentas
  <2>5. CASE Falla \/ SegundoLlamado \/ Accede \/ Respuesta \/ Sigue
        BY <2>5 DEF CpuInv, Contadas, Falla, SegundoLlamado, Accede, Respuesta, Sigue,
                    PasoDispatch, cuentas
  <2>6. QED
        BY <2>2, <2>3, <2>4, <2>5
<1>9. QED
      BY <1>4, <1>5, <1>6, <1>7, <1>8 DEF CpuInv

LEMMA PasoLimpia ==
    ASSUME CpuInv, Limpia
    PROVE  CpuInv'
<1>1. /\ entradas' = <<>> /\ pcDispatch = "limpia" /\ pcDispatch' = "libre"
      /\ UNCHANGED <<size, algoritmo, pcb, ciclo, interrupciones, cuentas>>
      BY DEF Limpia, limpiar_entradas_TLB, PasoDispatch
<1>2. CpuTypeOK' /\ Pendiente' /\ Contadas'
      BY <1>1, ListaVacia DEF CpuInv, CpuTypeOK, Pendiente, Contadas, PcDispatch, ciclo, cuentas
<1>3. EntradasUnicas' /\ UltimaTraduccion'
      BY <1>1, TiposDelTLB DEF CpuInv, EntradasUnicas, UltimaTraduccion, TiposTLB
<1>4. QED
      BY <1>2, <1>3 DEF CpuInv

LEMMA CpuAlInicio == ASSUME CpuInit PROVE CpuInv
<1>1. CpuTypeOK
      BY ListaVacia DEF CpuInit, iniciar_TLB, CpuTypeOK, PcDispatch
<1>2. /\ entradas = <<>> /\ size \in Nat /\ pcDispatch = "libre"
      /\ Len(operandos) = 0 /\ Len(marcos) = 0
      BY TamaniosDeTLB, ListaVacia DEF CpuInit, iniciar_TLB
<1>3. EntradasUnicas
      BY <1>2 DEF EntradasUnicas
<1>4. Pendiente
      BY <1>2 DEF Pendiente
<1>5. UltimaTraduccion
      BY <1>2 DEF UltimaTraduccion
<1>6. Contadas
  <2>1. devueltas = 0 /\ recibidas = 0 /\ ~interrupciones
        BY DEF CpuInit
  <2>2. QED
        BY <2>1 DEF Contadas
<1>7. QED
      BY <1>1, <1>3, <1>4, <1>5, <1>6 DEF CpuInv

LEMMA CpuQuieta == ASSUME CpuInv, UNCHANGED cpuVars PROVE CpuInv'
<1> USE DEF CpuInv, cpuVars, tlb, ciclo, cuentas
<1>1. CpuTypeOK'
      BY DEF CpuTypeOK, Falta
<1>2. EntradasUnicas' /\ UltimaTraduccion'
      BY DEF EntradasUnicas, UltimaTraduccion
<1>3. Pendiente' /\ Contadas'
      BY DEF Pendiente, Contadas, Acierto, Pagina
<1>4. QED
      BY <1>1, <1>2, <1>3

LEMMA CpuSigue == CpuInv /\ [CpuNext]_cpuVars => CpuInv'
BY CpuQuieta, PasosConTLB, PasosDeFetch, PasosSinTLB, PasoLimpia
   DEF CpuNext, cicloInstruccion, Traduccion

LEMMA CpuInvariante == CpuSpec => []CpuInv
BY CpuAlInicio, CpuSigue, PTL DEF CpuSpec

\* Types: an access goes to the memory with a frame for each of its pages.
THEOREM TiposDeLaCpu == CpuSpec => []CpuTypeOK
<1>1. CpuInv => CpuTypeOK
      BY DEF CpuInv
<1>2. QED
      BY <1>1, CpuInvariante, PTL

\* The TLB has at most one entry for a page and no more than its size: the
\* memory is asked only for pages that no entry has.
THEOREM TLBSinRepetidos == CpuSpec => []EntradasUnicas
<1>1. CpuInv => EntradasUnicas
      BY DEF CpuInv
<1>2. QED
      BY <1>1, CpuInvariante, PTL

\* The TLB has what the instruction has just translated, the newest of all
\* under LRU.
THEOREM TLBTieneLaUltima == CpuSpec => []UltimaTraduccion
<1>1. CpuInv => UltimaTraduccion
      BY DEF CpuInv
<1>2. QED
      BY <1>1, CpuInvariante, PTL

\* However the interrupt thread interleaves with the lowering of the flag, no
\* interrupt sends two processes back.
THEOREM UnaPorInterrupcion == CpuSpec => []InterrupcionUnica
<1>1. CpuInv => InterrupcionUnica
      BY DEF CpuInv, Contadas, InterrupcionUnica
<1>2. QED
      BY <1>1, CpuInvariante, PTL

-----------------------------------------------------------------------------
(* The list implements the cache.                                          *)

Contenido(s) == {s[i] : i \in DOMAIN s}
MasNueva(s) ==
    {<<s[q[1]], s[q[2]]>> : q \in {r \in (DOMAIN s) \X (DOMAIN s) : r[1] < r[2]}}

LEMMA EnContenido ==
    ASSUME NEW s \in Seq(Entradas), NEW x
    PROVE  x \in Contenido(s) <=> \E i \in 1..Len(s) : x = s[i]
BY DEF Contenido

LEMMA EnMasNueva ==
    ASSUME NEW s \in Seq(Entradas), NEW x
    PROVE  x \in MasNueva(s) <=> \E a, b \in 1..Len(s) : a < b /\ x = <<s[a], s[b]>>
<1>1. DOMAIN s = 1..Len(s)
      OBVIOUS
<1>2. ASSUME NEW a \in 1..Len(s), NEW b \in 1..Len(s), a < b
      PROVE  <<s[a], s[b]>> \in MasNueva(s)
  <2>1. <<a, b>> \in {r \in (DOMAIN s) \X (DOMAIN s) : r[1] < r[2]}
        BY <1>1, <1>2
  <2>2. <<s[<<a, b>>[1]], s[<<a, b>>[2]]>> \in MasNueva(s)
        BY <2>1 DEF MasNueva
  <2>3. QED
        BY <2>2
<1>3. QED
      BY <1>1, <1>2 DEF MasNueva

LEMMA ContenidoAlFrente ==
    ASSUME NEW s \in Seq(Entradas), NEW e \in Entradas
    PROVE  /\ Contenido(AlFrente(e, s)) = Contenido(s) \cup {e}
           /\ MasNueva(AlFrente(e, s)) =
                MasNueva(s) \cup {<<e, f>> : f \in Contenido(s)}
<1> DEFINE t == AlFrente(e, s)
<1>1. /\ t \in Seq(Entradas) /\ Len(t) = Len(s) + 1 /\ t[1] = e /\ Len(s) \in Nat
      /\ \A j \in 2..(Len(s) + 1) : t[j] = s[j - 1]
  <2>1. Len(s) \in Nat
        OBVIOUS
  <2>2. /\ t \in Seq(Entradas) /\ Len(t) = Len(s) + 1
        /\ t[1] = e /\ Head(t) = e
        /\ \A j \in 2..(Len(s) + 1) : t[j] = s[j - 1]
        BY ListaAlFrente
  <2>3. QED
        BY <2>1, <2>2
<1> HIDE DEF t
<1>2. \A j \in 1..Len(s) : j + 1 \in 1..Len(t) /\ t[j + 1] = s[j]
      BY <1>1
<1>3. \A j \in 1..Len(t) : j = 1 \/ (j - 1 \in 1..Len(s) /\ t[j] = s[j - 1])
      BY <1>1
<1>4. Contenido(t) = Contenido(s) \cup {e}
  <2>1. \A x : x \in Contenido(t) <=> \E j \in 1..Len(t) : x = t[j]
        BY <1>1, EnContenido
  <2>2. \A x : x \in Contenido(s) <=> \E j \in 1..Len(s) : x = s[j]
        BY EnContenido
  <2>3. e \in Contenido(t)
    <3>1. 1 \in 1..Len(t) /\ e = t[1]
          BY <1>1
    <3>2. QED
          BY <2>1, <3>1
  <2>4. \A x \in Contenido(s) : x \in Contenido(t)
        BY <1>2, <2>1, <2>2
  <2>5. ASSUME NEW x \in Contenido(t) PROVE x = e \/ x \in Contenido(s)
    <3>1. PICK j \in 1..Len(t) : x = t[j]
          BY <2>1
    <3>2. CASE j = 1
          BY <1>1, <3>1, <3>2
    <3>3. CASE j - 1 \in 1..Len(s) /\ t[j] = s[j - 1]
          BY <2>2, <3>1, <3>3
    <3>4. QED
          BY <1>3, <3>2, <3>3
  <2>6. QED
        BY <2>3, <2>4, <2>5
<1>5. ASSUME NEW x \in MasNueva(t)
      PROVE  x \in MasNueva(s) \cup {<<e, f>> : f \in Contenido(s)}
  <2>1. PICK a \in 1..Len(t), b \in 1..Len(t) : a < b /\ x = <<t[a], t[b]>>
        BY <1>1, EnMasNueva
  <2>2. b - 1 \in 1..Len(s) /\ t[b] = s[b - 1]
        BY <1>1, <1>3, <2>1
  <2>3. CASE a = 1
        BY <1>1, <2>1, <2>2, <2>3, EnContenido
  <2>4. CASE a # 1
    <3>1. a - 1 \in 1..Len(s) /\ t[a] = s[a - 1] /\ a - 1 < b - 1
          BY <1>1, <1>3, <2>1, <2>4
    <3>2. QED
          BY <2>1, <2>2, <3>1, EnMasNueva
  <2>5. QED
        BY <2>3, <2>4
<1>6. ASSUME NEW x \in MasNueva(s)
      PROVE  x \in MasNueva(t)
  <2>1. PICK a \in 1..Len(s), b \in 1..Len(s) : a < b /\ x = <<s[a], s[b]>>
        BY EnMasNueva
  <2>2. a + 1 < b + 1 /\ x = <<t[a + 1], t[b + 1]>>
        BY <1>1, <1>2, <2>1
  <2>3. QED
        BY <1>1, <1>2, <2>1, <2>2, EnMasNueva
<1>7. ASSUME NEW f \in Contenido(s)
      PROVE  <<e, f>> \in MasNueva(t)
  <2>1. PICK b \in 1..Len(s) : f = s[b]
        BY EnContenido
  <2>2. 1 < b + 1 /\ 1 \in 1..Len(t) /\ <<e, f>> = <<t[1], t[b + 1]>>
        BY <1>1, <1>2, <2>1
  <2>3. QED
        BY <1>1, <1>2, <2>2, EnMasNueva
<1>8. QED
      BY <1>4, <1>5, <1>6, <1>7 DEF t

\* The element that goes, and those that stay in their order.
LEMMA ContenidoCambiada ==
    ASSUME NEW s \in Seq(Entradas), NEW e \in Entradas, NEW i \in 1..Len(s), SinRepetir(s)
    PROVE  LET v == s[i] IN
           /\ Contenido(Cambiada(s, e, i)) = (Contenido(s) \ {v}) \cup {e}
           /\ MasNueva(Cambiada(s, e, i)) =
                {q \in MasNueva(s) : q[1] # v /\ q[2] # v}
                    \cup {<<e, f>> : f \in Contenido(s) \ {v}}
<1> DEFINE t == Cambiada(s, e, i)
           k == Len(s)
           v == s[i]
           otras == {q \in MasNueva(s) : q[1] # v /\ q[2] # v}
           delante == {<<e, f>> : f \in Contenido(s) \ {v}}
<1>1. t \in Seq(Entradas) /\ Len(t) = k /\ t[1] = e /\ k \in Nat /\ k >= 1
      BY ListaCambiada
<1>2. \A j \in 2..k : t[j] = s[Lugar(i, j)] /\ Lugar(i, j) \in (1..k) \ {i}
  <2>1. \A j \in 2..k : t[j] = s[Lugar(i, j)]
        BY CambiadaConLugar
  <2>2. \A j \in 2..k : Lugar(i, j) \in (1..k) \ {i}
        BY <1>1, LugarDice
  <2>3. QED
        BY <2>1, <2>2
<1>3. /\ \A j, h \in 2..k : j < h => Lugar(i, j) < Lugar(i, h)
      /\ \A j, h \in 2..k : Lugar(i, j) < Lugar(i, h) => j < h
      BY <1>1 DEF Lugar
<1>4. \A a \in (1..k) \ {i} : \E j \in 2..k : a = Lugar(i, j)
      BY <1>1, LugarDice
<1>5. \A a \in 1..k : s[a] = v => a = i
      BY DEF SinRepetir
<1> HIDE DEF t, k, v
<1>6. \A x : x \in Contenido(s) \ {v} <=> \E j \in 2..k : x = t[j]
  <2>1. ASSUME NEW x \in Contenido(s) \ {v} PROVE \E j \in 2..k : x = t[j]
    <3>1. PICK a \in 1..k : x = s[a]
          BY EnContenido DEF k
    <3>2. a # i
          BY <2>1, <3>1 DEF v
    <3>3. QED
          BY <1>2, <1>4, <3>1, <3>2
  <2>2. ASSUME NEW j \in 2..k PROVE t[j] \in Contenido(s) \ {v}
    <3>1. Lugar(i, j) \in 1..k /\ Lugar(i, j) # i /\ t[j] = s[Lugar(i, j)]
          BY <1>2
    <3>2. s[Lugar(i, j)] \in Contenido(s)
          BY <3>1, EnContenido DEF k
    <3>3. QED
          BY <1>5, <3>1, <3>2
  <2>3. QED
        BY <2>1, <2>2
<1>7. \A j \in 1..k : j = 1 \/ j \in 2..k
      BY <1>1
<1>8. Contenido(t) = (Contenido(s) \ {v}) \cup {e}
  <2>1. \A x : x \in Contenido(t) <=> \E j \in 1..k : x = t[j]
        BY <1>1, EnContenido
  <2>2. 1 \in 1..k /\ \A j \in 2..k : j \in 1..k
        BY <1>1
  <2>3. QED
        BY <1>1, <1>6, <1>7, <2>1, <2>2
<1>9. ASSUME NEW x \in MasNueva(t) PROVE x \in otras \cup delante
  <2>1. PICK a \in 1..k, b \in 1..k : a < b /\ x = <<t[a], t[b]>>
        BY <1>1, EnMasNueva
  <2>2. b \in 2..k
        BY <1>1, <2>1
  <2>3. CASE a = 1
        BY <1>1, <1>6, <2>1, <2>2, <2>3
  <2>4. CASE a \in 2..k
    <3>1. /\ Lugar(i, a) \in 1..k /\ Lugar(i, b) \in 1..k /\ Lugar(i, a) < Lugar(i, b)
          /\ x = <<s[Lugar(i, a)], s[Lugar(i, b)]>>
          BY <1>2, <1>3, <2>1, <2>2, <2>4
    <3>2. x \in MasNueva(s)
          BY <3>1, EnMasNueva DEF k
    <3>3. x[1] # v /\ x[2] # v
          BY <1>6, <2>1, <2>2, <2>4
    <3>4. QED
          BY <3>2, <3>3
  <2>5. QED
        BY <1>7, <2>3, <2>4
<1>10. ASSUME NEW x \in otras PROVE x \in MasNueva(t)
  <2>1. PICK a \in 1..k, b \in 1..k : a < b /\ x = <<s[a], s[b]>>
        BY EnMasNueva DEF k
  <2>2. a # i /\ b # i
        BY <2>1 DEF v
  <2>3. PICK j \in 2..k, h \in 2..k : a = Lugar(i, j) /\ b = Lugar(i, h)
        BY <1>4, <2>2
  <2>4. j < h /\ x = <<t[j], t[h]>> /\ j \in 1..k /\ h \in 1..k
        BY <1>1, <1>2, <1>3, <2>1, <2>3
  <2>5. QED
        BY <1>1, <2>4, EnMasNueva
<1>11. ASSUME NEW f \in Contenido(s) \ {v} PROVE <<e, f>> \in MasNueva(t)
  <2>1. PICK h \in 2..k : f = t[h]
        BY <1>6
  <2>2. 1 \in 1..k /\ h \in 1..k /\ 1 < h /\ <<e, f>> = <<t[1], t[h]>>
        BY <1>1, <2>1
  <2>3. QED
        BY <1>1, <2>2, EnMasNueva
<1>12. MasNueva(t) = otras \cup delante
       BY <1>9, <1>10, <1>11
<1>13. QED
       BY <1>8, <1>12 DEF t, v

LEMMA CuantasEntradas ==
    ASSUME NEW s \in Seq(Entradas), SinRepetir(s)
    PROVE  Cardinality(Contenido(s)) = Len(s)
<1> DEFINE T == 1..Len(s)
<1>1. /\ IsFiniteSet(T) /\ Cardinality(T) = Len(s)
  <2>1. Len(s) \in Nat /\ 1 \in Int /\ Len(s) \in Int
        OBVIOUS
  <2>2. /\ IsFiniteSet(1..Len(s))
        /\ Cardinality(1..Len(s)) = IF 1 > Len(s) THEN 0 ELSE Len(s) - 1 + 1
        BY <2>1, FS_Interval, Zenon
  <2>3. QED
        BY <2>1, <2>2
<1>2. s \in Bijection(T, Contenido(s))
  <2>1. s \in [T -> Contenido(s)] /\ \A x \in Contenido(s) : \E i \in T : s[i] = x
        BY EnContenido
  <2>2. \A a, b \in T : s[a] = s[b] => a = b
        BY DEF SinRepetir
  <2> HIDE DEF T
  <2>3. QED
        BY <2>1, <2>2 DEF Bijection, Injection, Surjection, IsInjective
<1> HIDE DEF T
<1>3. QED
      BY <1>1, <1>2, FS_Bijection DEF ExistsBijection

LEMMA MismoCardinal == ASSUME NEW S PROVE Lista!Cardinality(S) = Cardinality(S)
BY DEF Lista!Cardinality, Cardinality, Lista!IsFiniteSet, IsFiniteSet

LEMMA ListaAlInicio == ASSUME CpuInit PROVE Lista!Init
<1>1. entradas = <<>> /\ size \in Nat \ {0} /\ algoritmo \in {"LRU", "FIFO"}
      BY TamaniosDeTLB DEF CpuInit, iniciar_TLB
<1>2. Contenido(entradas) = {} /\ MasNueva(entradas) = {}
      BY <1>1 DEF Contenido, MasNueva
<1>3. QED
      BY <1>1, <1>2 DEF Lista!Init, Contenido, MasNueva

\* What each use of the TLB is for the cache.
LEMMA BuscarUsa ==
    ASSUME TiposTLB, EntradasUnicas, NEW n, NEW f, buscar_en_TLB(n, f)
    PROVE  \E e \in Entradas : Lista!Usa(e)
<1>1. PICK i \in 1..Len(entradas) :
        /\ entradas[i] \in Entradas
        /\ entradas' = IF algoritmo = "LRU" THEN Cambiada(entradas, entradas[i], i)
                       ELSE entradas
      BY DEF TiposTLB, buscar_en_TLB, EsLaPrimera, Cambiada
<1> DEFINE e == entradas[i]
<1>2. UNCHANGED <<size, algoritmo>> /\ entradas \in Seq(Entradas) /\ SinRepetir(entradas)
      BY UnicasDice DEF TiposTLB, buscar_en_TLB
<1>3. e \in Contenido(entradas)
      BY <1>2, EnContenido
<1>4. CASE algoritmo = "LRU"
  <2> PICK v : v = e
        OBVIOUS
  <2>1. /\ Contenido(entradas') = (Contenido(entradas) \ {v}) \cup {v}
        /\ MasNueva(entradas') =
            {q \in MasNueva(entradas) : q[1] # v /\ q[2] # v}
                \cup {<<v, g>> : g \in Contenido(entradas) \ {v}}
        BY <1>1, <1>2, <1>4, ContenidoCambiada
  <2>2. Contenido(entradas') = Contenido(entradas)
        BY <1>3, <2>1
  <2>3. Lista!Usa(v)
        BY <1>2, <1>3, <1>4, <2>1, <2>2 DEF Lista!Usa, Lista!Sin, Lista!Delante,
           Lista!Configuracion, Contenido, MasNueva
  <2>4. QED
        BY <1>1, <2>3
<1>5. CASE algoritmo # "LRU"
  <2>1. entradas' = entradas
        BY <1>1, <1>5
  <2> PICK v : v = e
        OBVIOUS
  <2>2. Lista!Usa(v)
        BY <1>2, <1>3, <1>5, <2>1 DEF Lista!Usa, Lista!Configuracion, Contenido
  <2>3. QED
        BY <1>1, <2>2
<1>6. QED
      BY <1>4, <1>5

LEMMA ActualizarAgrega ==
    ASSUME TiposTLB, EntradasUnicas, NEW n \in NumerosDePagina, NEW f \in NumerosDeMarco,
           ~Acierto(n), actualizar_TLB(n, f)
    PROVE  \E e \in Entradas : Lista!Agrega(e) \/ Lista!Reemplaza(e)
<1> DEFINE e == [nroPagina |-> n, nroFrame |-> f]
           k == Len(entradas)
<1>1. e \in Entradas /\ e.nroPagina = n
      BY DEF Entradas
<1>2. /\ UNCHANGED <<size, algoritmo>>
      /\ \/ k < size /\ entradas' = AlFrente(e, entradas)
         \/ k = size /\ k \in 1..k /\ entradas' = Cambiada(entradas, e, k)
      BY ActualizarLista
<1>3. entradas \in Seq(Entradas) /\ SinRepetir(entradas)
      BY UnicasDice DEF TiposTLB
<1>4. Lista!Nueva(e)
  <2>1. \A g \in Contenido(entradas) : g.nroPagina # n
        BY <1>3 DEF Contenido, Acierto
  <2>2. QED
        BY <1>1, <2>1 DEF Lista!Nueva, Contenido
<1>5. Cardinality(Contenido(entradas)) = k
      BY <1>3, CuantasEntradas
<1> HIDE DEF e
<1> DEFINE cont == {entradas[i] : i \in DOMAIN entradas}
           mas == {<<entradas[q[1]], entradas[q[2]]>> :
                    q \in {r \in (DOMAIN entradas) \X (DOMAIN entradas) : r[1] < r[2]}}
<1>6. CASE k < size /\ entradas' = AlFrente(e, entradas)
  <2>1. /\ Contenido(entradas') = Contenido(entradas) \cup {e}
        /\ MasNueva(entradas') = MasNueva(entradas) \cup {<<e, g>> : g \in Contenido(entradas)}
        BY <1>1, <1>3, <1>6, ContenidoAlFrente
  <2>2. Cardinality(cont) < size
        BY <1>5, <1>6 DEF Contenido
  <2>3. Lista!Agrega(e)
    <3>1. Lista!Configuracion
          BY <1>2 DEF Lista!Configuracion
    <3>2. cont' = cont \cup {e}
          BY <2>1 DEF Contenido
    <3>3. mas' = mas \cup Lista!Delante(e, cont)
          BY <2>1 DEF Lista!Delante, Contenido, MasNueva
    <3>4. QED
          BY <1>4, <2>2, <3>1, <3>2, <3>3, MismoCardinal DEF Lista!Agrega
  <2>4. QED
        BY <1>1, <2>3
<1>7. CASE k = size /\ k \in 1..k /\ entradas' = Cambiada(entradas, e, k)
  <2> PICK v : v = entradas[k]
        OBVIOUS
  <2>1. /\ Contenido(entradas') = (Contenido(entradas) \ {v}) \cup {e}
        /\ MasNueva(entradas') =
            {q \in MasNueva(entradas) : q[1] # v /\ q[2] # v}
                \cup {<<e, g>> : g \in Contenido(entradas) \ {v}}
        BY <1>1, <1>3, <1>7, ContenidoCambiada
  <2>2. v \in Contenido(entradas)
        BY <1>3, <1>7, EnContenido
  <2>3. Lista!LaMasVieja(v)
    <3>1. ASSUME NEW g \in Contenido(entradas) \ {v} PROVE <<g, v>> \in MasNueva(entradas)
      <4>1. PICK a \in 1..k : g = entradas[a]
            BY <1>3, EnContenido
      <4>2. a < k
            BY <3>1, <4>1
      <4>3. QED
            BY <1>3, <1>7, <4>1, <4>2, EnMasNueva
    <3>2. QED
          BY <3>1 DEF Lista!LaMasVieja, Contenido, MasNueva
  <2>4. Cardinality(cont) = size
        BY <1>5, <1>7 DEF Contenido
  <2>5. Lista!Reemplaza(e)
    <3>1. Lista!Configuracion
          BY <1>2 DEF Lista!Configuracion
    <3>2. v \in cont /\ cont' = (cont \ {v}) \cup {e}
          BY <2>1, <2>2 DEF Contenido
    <3>3. mas' = Lista!Sin(v) \cup Lista!Delante(e, cont \ {v})
          BY <2>1 DEF Lista!Sin, Lista!Delante, Contenido, MasNueva
    <3>4. QED
          BY <1>4, <2>3, <2>4, <3>1, <3>2, <3>3, MismoCardinal DEF Lista!Reemplaza
  <2>6. QED
        BY <1>1, <2>5
<1>8. QED
      BY <1>2, <1>6, <1>7

LEMMA ListaSigue ==
    ASSUME CpuInv, [CpuNext]_cpuVars
    PROVE  [Lista!Next]_Lista!vars
<1>1. TiposTLB /\ EntradasUnicas
      BY TiposDelTLB DEF CpuInv
<1>2. CASE \E f \in NumerosDeMarco : Acierta(f)
      BY <1>1, <1>2, BuscarUsa DEF Acierta, Lista!Next
<1>3. CASE \E f \in NumerosDeMarco : Traduce(f)
  <2>1. PICK f \in NumerosDeMarco : Traduce(f)
        BY <1>3
  <2>2. Falta /\ ~Acierto(Pagina) /\ actualizar_TLB(Pagina, f)
        BY <2>1 DEF Traduce, PasoDispatch, CpuInv, CpuTypeOK, Pendiente
  <2>3. Pagina \in NumerosDePagina
    <3>1. operandos \in Seq(NumerosDePagina) /\ marcos \in Seq(NumerosDeMarco)
          BY DEF CpuInv, CpuTypeOK
    <3>2. QED
          BY <2>2, <3>1 DEF Falta, Pagina
  <2>4. QED
        BY <1>1, <2>2, <2>3, ActualizarAgrega DEF Lista!Next
<1>4. CASE Limpia
  <2>1. entradas' = <<>> /\ UNCHANGED <<size, algoritmo>>
        BY <1>4 DEF Limpia, limpiar_entradas_TLB
  <2>2. Contenido(entradas') = {} /\ MasNueva(entradas') = {}
        BY <2>1 DEF Contenido, MasNueva
  <2>3. QED
        BY <2>1, <2>2 DEF Lista!Next, Lista!Vacia, Lista!Configuracion, Contenido, MasNueva
<1>5. CASE UNCHANGED tlb
      BY <1>5 DEF tlb, Lista!vars
<1>6. UNCHANGED tlb \/ Limpia \/ \E f \in NumerosDeMarco : Acierta(f) \/ Traduce(f)
      BY FallaNoEncuentra
         DEF CpuNext, cicloInstruccion, Traduccion, Recibe, Fetch, NoOp, Read, Write, Copy,
             Instruccion, Devuelve, SegundoLlamado, Accede, Respuesta, Sigue,
             Desaloja, Baja, iniciarInterrupt, cpuVars
<1>7. QED
      BY <1>2, <1>3, <1>4, <1>5, <1>6

\* The TLB of the code, a list that the two algorithms reorder by index, is
\* the cache that a reader of the configuration expects.
THEOREM TLBEsUnaCache == CpuSpec => ImplementaCache
<1>1. CpuInv /\ [CpuNext]_cpuVars => [Lista!Next]_Lista!vars
      BY ListaSigue
<1>2. QED
      BY <1>1, ListaAlInicio, CpuInvariante, PTL DEF CpuSpec, ImplementaCache, Lista!CacheSpec

=============================================================================
