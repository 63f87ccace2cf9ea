------------------------- MODULE AgrupacionPruebas -------------------------
(***************************************************************************)
(* Lemmas about Agrupar: extrema exist, the rows it builds are well formed *)
(* and between them they cover every event.                                *)
(***************************************************************************)
EXTENDS Agrupacion, FiniteSetTheorems, WellFoundedInduction, TLAPS

(* Every non-empty set of naturals has a least element. *)
LEMMA MinimoExiste ==
  ASSUME NEW S, S \subseteq Nat, S # {}
  PROVE  \E m \in S : \A x \in S : m <= x
<1> DEFINE R == OpToRel(<, Nat)
<1>1. IsWellFoundedOn(R, Nat)
  BY NatLessThanWellFounded
<1> HIDE DEF R
<1>2. \E m \in S : \A x \in S : ~ (<<x, m>> \in R)
  BY <1>1, WFMin
<1>3. \A x, y \in Nat : <<x, y>> \in R <=> x < y
  BY DEF R, OpToRel
<1>4. PICK m \in S : \A x \in S : ~ (<<x, m>> \in R)
  BY <1>2
<1>5. \A x \in S : m <= x
  <2> TAKE x \in S
  <2>1. ~ (x < m)
    BY <1>3, <1>4
  <2> QED
    BY <2>1
<1> QED
  BY <1>5

(* Every non-empty bounded set of naturals has a greatest element, and it  *)
(* is what Maximo picks.                                                   *)
LEMMA MaximoExiste ==
  ASSUME NEW S, S \subseteq Nat, S # {}, NEW n \in Nat, \A x \in S : x <= n
  PROVE  /\ Maximo(S) \in S
         /\ \A x \in S : x <= Maximo(S)
<1> DEFINE D == {n - x : x \in S}
<1>1. D \subseteq Nat /\ D # {}
  <2>1. \A x \in S : n - x \in Nat
    OBVIOUS
  <2>2. PICK x \in S : TRUE
    OBVIOUS
  <2>3. n - x \in D
    OBVIOUS
  <2> QED
    BY <2>1, <2>3
<1> HIDE DEF D
<1>2. PICK d \in D : \A x \in D : d <= x
  BY <1>1, MinimoExiste
<1>3. PICK m \in S : d = n - m
  BY <1>2 DEF D
<1>4. \A x \in S : n - x \in D
  BY DEF D
<1>5. \A x \in S : x <= m
  BY <1>2, <1>3, <1>4
<1> QED
  BY <1>5 DEF Maximo

-----------------------------------------------------------------------------
(* An event raises an episode to one of the five severities. *)
LEMMA RangoEsSeveridad ==
  ASSUME NEW e \in Evento
  PROVE  Rango(e) \in Severidad
<1>1. RangoDeTipo(e.grupo, e.hecho.tipo) \in Severidad
  BY DEF RangoDeTipo, Severidad, Roce, Tanteo, Acceso, Intrusion
<1> QED
  BY <1>1 DEF Rango, Peor, Severidad, Roce, Tanteo, Trampa

(* The first and the last event of an attack, and its severity, are what   *)
(* its row says: "fin" bounds the timestamps of the run, "severidad" the   *)
(* severities of its events.                                               *)
LEMMA ResumenAcota ==
  ASSUME NEW T, T \subseteq Evento, T # {}, NEW n \in Nat, \A e \in T : e.ts <= n
  PROVE  /\ Resumen(T).fin \in Nat
         /\ Resumen(T).severidad \in Severidad
         /\ \A e \in T : /\ e.ts <= Resumen(T).fin
                         /\ Rango(e) <= Resumen(T).severidad
<1> DEFINE ticks == {e.ts : e \in T}
           rangos == {Rango(e) : e \in T}
<1>1. PICK x \in T : TRUE
  OBVIOUS
<1>2. /\ Maximo(ticks) \in ticks
      /\ \A t \in ticks : t <= Maximo(ticks)
  <2>1. ticks \subseteq Nat
    BY DEF Evento
  <2>2. x.ts \in ticks
    OBVIOUS
  <2>3. \A t \in ticks : t <= n
    OBVIOUS
  <2> HIDE DEF ticks
  <2> QED
    BY <2>1, <2>2, <2>3, MaximoExiste
<1>3. /\ Maximo(rangos) \in rangos
      /\ \A r \in rangos : r <= Maximo(rangos)
  <2>1. rangos \subseteq Severidad
    BY RangoEsSeveridad
  <2>2. Rango(x) \in rangos
    OBVIOUS
  <2> HIDE DEF rangos
  <2>3. rangos \subseteq Nat /\ \A r \in rangos : r <= 4
    BY <2>1 DEF Severidad
  <2> QED
    BY <2>2, <2>3, MaximoExiste
<1>4. Resumen(T).fin = Maximo(ticks) /\ Resumen(T).severidad = Maximo(rangos)
  BY DEF Resumen
<1>5. ticks \subseteq Nat /\ rangos \subseteq Severidad
  BY RangoEsSeveridad DEF Evento
<1>6. \A e \in T : e.ts \in ticks /\ Rango(e) \in rangos
  OBVIOUS
<1> HIDE DEF ticks, rangos
<1> QED
  BY <1>2, <1>3, <1>4, <1>5, <1>6

(* Every event belongs to the run of an episode that opens at or before    *)
(* it: the latest start of its pair.                                       *)
LEMMA CadaEventoEnSuTramo ==
  ASSUME NEW S, S \subseteq Evento, NEW e \in S
  PROVE  \E s \in Nat : /\ <<e.grupo, s>> \in Claves(S)
                        /\ s <= e.ts
                        /\ e \in Tramo(S, e.grupo, s)
<1> DEFINE g == e.grupo
           ticks == {x.ts : x \in Del(S, g)}
           inicios == {t \in 0..e.ts : EsInicio(S, g, t)}
<1>1. e \in Del(S, g) /\ e.ts \in Nat
  BY DEF Del, Evento
<1>2. PICK t \in ticks : \A u \in ticks : t <= u
  <2>1. ticks \subseteq Nat
    BY DEF Del, Evento
  <2>2. e.ts \in ticks
    BY <1>1
  <2> HIDE DEF ticks
  <2> QED
    BY <2>1, <2>2, MinimoExiste
<1>3. t \in inicios
  <2>1. t \in Nat /\ t <= e.ts
    BY <1>1, <1>2 DEF Del, Evento
  <2>2. \A x \in Del(S, g) : ~ (x.ts < t)
    <3> TAKE x \in Del(S, g)
    <3>1. x.ts \in Nat /\ t <= x.ts
      BY <1>2 DEF Del, Evento
    <3> QED
      BY <2>1, <3>1
  <2>3. \E x \in Del(S, g) : x.ts = t
    BY <1>2
  <2>4. EsInicio(S, g, t)
    BY <2>2, <2>3 DEF EsInicio
  <2> QED
    BY <1>1, <2>1, <2>4
<1>4. /\ Maximo(inicios) \in inicios
      /\ \A u \in inicios : u <= Maximo(inicios)
  <2>1. inicios \subseteq Nat /\ \A u \in inicios : u <= e.ts
    BY <1>1
  <2> HIDE DEF inicios
  <2> QED
    BY <1>1, <1>3, <2>1, MaximoExiste
<1> DEFINE s == Maximo(inicios)
<1>5. s \in Nat /\ s <= e.ts /\ EsInicio(S, g, s)
  BY <1>1, <1>4
<1>6. \A u \in (s + 1)..e.ts : ~ EsInicio(S, g, u)
  <2> SUFFICES ASSUME NEW u \in (s + 1)..e.ts, EsInicio(S, g, u) PROVE FALSE
    OBVIOUS
  <2>1. u \in inicios
    BY <1>1, <1>5
  <2>2. u <= s
    BY <1>4, <2>1
  <2> QED
    BY <1>1, <1>5, <2>2
<1> HIDE DEF s
<1>7. e \in Tramo(S, g, s)
  BY <1>1, <1>5, <1>6 DEF Tramo
<1>8. <<g, s>> \in Claves(S)
  <2>1. PICK x \in Del(S, g) : x.ts = s
    BY <1>5 DEF EsInicio
  <2>2. x \in S /\ x.grupo = g
    BY <2>1 DEF Del
  <2> QED
    BY <1>5, <2>1, <2>2 DEF Claves
<1> QED
  BY <1>5, <1>7, <1>8

-----------------------------------------------------------------------------
(* A key is its pair and the tick of one of its events, which opens it and *)
(* is part of it.                                                          *)
LEMMA ClaveDeUnEvento ==
  ASSUME NEW S, S \subseteq Evento, NEW k \in Claves(S)
  PROVE  /\ k \in Clave
         /\ \E e \in S : k[1] = e.grupo /\ k[2] = e.ts /\ e \in Tramo(S, k[1], k[2])
<1>1. PICK e \in S : k = <<e.grupo, e.ts>> /\ EsInicio(S, e.grupo, e.ts)
  BY DEF Claves
<1>2. e \in Tramo(S, k[1], k[2])
  BY <1>1 DEF Tramo, Del, Evento
<1> QED
  BY <1>1, <1>2 DEF Clave, Evento

(* What Agrupar builds are well-formed rows, one for each key. *)
LEMMA AgruparDaFilas ==
  ASSUME NEW S, S \subseteq Evento, IsFiniteSet(S), NEW n \in Nat, \A x \in S : x.ts <= n
  PROVE  /\ Claves(S) \subseteq Clave
         /\ Agrupar(S) \in [Claves(S) -> Fila]
<1>1. Claves(S) \subseteq Clave
  BY ClaveDeUnEvento
<1>2. ASSUME NEW k \in Claves(S) PROVE Resumen(Tramo(S, k[1], k[2])) \in Fila
  <2> DEFINE T == Tramo(S, k[1], k[2])
  <2>1. T # {} /\ T \subseteq S
    BY ClaveDeUnEvento DEF Tramo, Del
  <2> HIDE DEF T
  <2>2. Cardinality(T) \in Nat
    BY <2>1, FS_Subset, FS_CardinalityType
  <2>3. Resumen(T).fin \in Nat /\ Resumen(T).severidad \in Severidad
    BY <2>1, ResumenAcota
  <2>4. Resumen(T) = [fin |-> Resumen(T).fin, eventos |-> Cardinality(T),
                      severidad |-> Resumen(T).severidad,
                      soloConexiones |-> Resumen(T).soloConexiones]
        /\ Resumen(T).soloConexiones \in BOOLEAN
    BY DEF Resumen
  <2>5. Resumen(T) \in Fila
    BY <2>2, <2>3, <2>4 DEF Fila
  <2> QED
    BY <2>5 DEF T
<1> QED
  BY <1>1, <1>2 DEF Agrupar

(* Agrupar loses nothing: every event is covered by the row of an attack   *)
(* of its pair, in time and in severity.                                   *)
THEOREM AgruparCubre ==
  ASSUME NEW S, S \subseteq Evento, NEW n \in Nat, \A x \in S : x.ts <= n,
         NEW e \in S
  PROVE  \E k \in Claves(S) : /\ k[1] = e.grupo
                              /\ k[2] <= e.ts /\ e.ts <= Agrupar(S)[k].fin
                              /\ Rango(e) <= Agrupar(S)[k].severidad
<1>1. PICK s \in Nat : /\ <<e.grupo, s>> \in Claves(S)
                      /\ s <= e.ts
                      /\ e \in Tramo(S, e.grupo, s)
  BY CadaEventoEnSuTramo
<1> DEFINE k == <<e.grupo, s>>
           T == Tramo(S, e.grupo, s)
<1>2. T \subseteq Evento /\ T # {} /\ \A x \in T : x.ts <= n
  BY <1>1 DEF Tramo, Del
<1>3. Agrupar(S)[k] = Resumen(T)
  BY <1>1 DEF Agrupar
<1> HIDE DEF T
<1>4. e.ts <= Resumen(T).fin /\ Rango(e) <= Resumen(T).severidad
  BY <1>1, <1>2, ResumenAcota DEF T
<1> QED
  BY <1>1, <1>3, <1>4

=============================================================================
