-------------------------- MODULE CapturasPruebas --------------------------
(***************************************************************************)
(* Proofs about how what the traps see becomes attacks: the loop that      *)
(* groups the events of a batch writes the rows the definition of an       *)
(* attack asks for, the follower of Cowrie's log hands over whole lines    *)
(* and all those it had in reach, and the native traps register every      *)
(* visit and remember no address they should have forgotten.               *)
(***************************************************************************)
EXTENDS MCCapturas, AgrupacionPruebas,
        SequenceTheorems, NaturalsInduction

-----------------------------------------------------------------------------
(* The loop of Agrupar (BucleAgrupar).                                     *)

(* The greatest of a set is the only one of its elements that bounds it. *)
LEMMA ElMaximo ==
  ASSUME NEW S, S \subseteq Nat, NEW m \in S, \A x \in S : x <= m
  PROVE  Maximo(S) = m
<1>1. m \in Nat /\ S # {}
  OBVIOUS
<1>2. Maximo(S) \in S /\ \A x \in S : x <= Maximo(S)
  BY <1>1, MaximoExiste
<1>3. Maximo(S) <= m /\ m <= Maximo(S) /\ Maximo(S) \in Nat
  BY <1>2
<1> QED
  BY <1>1, <1>3

(* absorber: folding one more event into the row of a run gives the row of *)
(* the longer run, and folding it into an empty row that of the event.     *)
LEMMA AbsorberUno ==
  ASSUME NEW e \in Evento
  PROVE  Resumen({e}) = Absorber(Vacio, e)
<1>1. e.ts \in Nat /\ Rango(e) \in Nat
  BY RangoEsSeveridad DEF Evento, Severidad
<1>2. {x.ts : x \in {e}} = {e.ts} /\ {Rango(x) : x \in {e}} = {Rango(e)}
  OBVIOUS
<1>3. Maximo({e.ts}) = e.ts /\ Maximo({Rango(e)}) = Rango(e)
  BY <1>1, ElMaximo
<1>4. Cardinality({e}) = 1
  BY FS_Singleton
<1>5. (\A x \in {e} : x.hecho.tipo = "conexion") = (e.hecho.tipo = "conexion")
  OBVIOUS
<1>6. Resumen({e}) = [fin |-> e.ts, eventos |-> 1, severidad |-> Rango(e),
                      soloConexiones |-> e.hecho.tipo = "conexion"]
  BY <1>2, <1>3, <1>4, <1>5 DEF Resumen
<1>7. /\ (IF e.ts > Vacio.fin THEN e.ts ELSE Vacio.fin) = e.ts
      /\ Vacio.eventos + 1 = 1
      /\ Peor(Vacio.severidad, Rango(e)) = Rango(e)
  BY <1>1 DEF Vacio, Peor, Roce
<1>8. (Vacio.soloConexiones /\ e.hecho.tipo = "conexion") = (e.hecho.tipo = "conexion")
  BY DEF Vacio
<1> QED
  BY <1>6, <1>7, <1>8 DEF Absorber

\* One event more, later than the others, is absorbed last: what absorber (grupos.go)
\* folds over a group is what the loop leaves in the attack's row.
LEMMA AbsorberUnoMas ==
  ASSUME NEW T, T \subseteq Evento, T # {}, IsFiniteSet(T),
         NEW e \in Evento, e \notin T, \A x \in T : x.ts <= e.ts
  PROVE  Resumen(T \cup {e}) = Absorber(Resumen(T), e)
<1> DEFINE U == T \cup {e}
           r == Resumen(T)
<1>1. /\ e.ts \in Nat /\ Rango(e) \in Nat
      /\ \A x \in T : x.ts \in Nat /\ Rango(x) \in Nat
  BY RangoEsSeveridad DEF Evento, Severidad
<1>2. /\ r.fin = Maximo({x.ts : x \in T}) /\ r.eventos = Cardinality(T)
      /\ r.severidad = Maximo({Rango(x) : x \in T})
      /\ r.soloConexiones = (\A x \in T : x.hecho.tipo = "conexion")
  BY DEF Resumen
<1>3. /\ r.fin \in {x.ts : x \in T} /\ \A x \in T : x.ts <= r.fin
  <2> DEFINE A == {x.ts : x \in T}
  <2>1. A \subseteq Nat /\ A # {} /\ \A a \in A : a <= e.ts
    BY <1>1
  <2> HIDE DEF A
  <2>2. Maximo(A) \in A /\ \A a \in A : a <= Maximo(A)
    BY <2>1, <1>1, MaximoExiste
  <2> QED
    BY <2>2, <1>2 DEF A
<1>4. /\ r.severidad \in {Rango(x) : x \in T} /\ \A x \in T : Rango(x) <= r.severidad
  <2> DEFINE A == {Rango(x) : x \in T}
  <2>1. A \subseteq Nat /\ A # {} /\ \A a \in A : a <= 4
    BY RangoEsSeveridad DEF Severidad
  <2> HIDE DEF A
  <2>2. Maximo(A) \in A /\ \A a \in A : a <= Maximo(A)
    BY <2>1, MaximoExiste
  <2> QED
    BY <2>2, <1>2 DEF A
<1> HIDE DEF r
<1>5. r.fin \in Nat /\ r.severidad \in Nat
  BY <1>1, <1>3, <1>4
<1>6. Maximo({x.ts : x \in U}) = IF e.ts > r.fin THEN e.ts ELSE r.fin
  <2> DEFINE A == {x.ts : x \in U}
             m == IF e.ts > r.fin THEN e.ts ELSE r.fin
  <2>1. A \subseteq Nat /\ m \in A
    BY <1>1, <1>3
  <2>2. \A a \in A : a <= m
    BY <1>1, <1>3, <1>5
  <2> HIDE DEF A, m
  <2>3. Maximo(A) = m
    BY <2>1, <2>2, ElMaximo
  <2> QED
    BY <2>3 DEF A, m
<1>7. Maximo({Rango(x) : x \in U}) = Peor(r.severidad, Rango(e))
  <2> DEFINE A == {Rango(x) : x \in U}
             m == Peor(r.severidad, Rango(e))
  <2>1. A \subseteq Nat /\ m \in A
    BY <1>1, <1>4 DEF Peor
  <2>2. \A a \in A : a <= m
    BY <1>1, <1>4, <1>5 DEF Peor
  <2> HIDE DEF A, m
  <2>3. Maximo(A) = m
    BY <2>1, <2>2, ElMaximo
  <2> QED
    BY <2>3 DEF A, m
<1>8. Cardinality(U) = r.eventos + 1
  BY <1>2, FS_AddElement
<1>9. (\A x \in U : x.hecho.tipo = "conexion") =
        (r.soloConexiones /\ e.hecho.tipo = "conexion")
  BY <1>2, Zenon
<1>10. Resumen(U) = [fin |-> IF e.ts > r.fin THEN e.ts ELSE r.fin,
                     eventos |-> r.eventos + 1,
                     severidad |-> Peor(r.severidad, Rango(e)),
                     soloConexiones |-> r.soloConexiones /\ e.hecho.tipo = "conexion"]
  BY <1>6, <1>7, <1>8, <1>9, Zenon DEF Resumen
<1>11. Absorber(r, e) = [fin |-> IF e.ts > r.fin THEN e.ts ELSE r.fin,
                     eventos |-> r.eventos + 1,
                     severidad |-> Peor(r.severidad, Rango(e)),
                     soloConexiones |-> r.soloConexiones /\ e.hecho.tipo = "conexion"]
  BY Zenon DEF Absorber
<1> QED
  BY <1>10, <1>11 DEF r

(* One more event, the latest so far: what it can open is its own tick.    *)
LEMMA IniciosConUnoMas ==
  ASSUME NEW S, S \subseteq Evento, NEW e \in Evento, \A x \in S : x.ts <= e.ts,
         NEW g, NEW t \in Nat, g # e.grupo \/ t # e.ts
  PROVE  EsInicio(S \cup {e}, g, t) <=> EsInicio(S, g, t)
<1>1. e.ts \in Nat /\ \A x \in S : x.ts \in Nat
  BY DEF Evento
<1>2. CASE g # e.grupo
  <2>1. Del(S \cup {e}, g) = Del(S, g)
    BY <1>2 DEF Del
  <2> QED
    BY <2>1 DEF EsInicio
<1>3. CASE g = e.grupo /\ t # e.ts
  <2>1. Del(S \cup {e}, g) = Del(S, g) \cup {e}
    BY <1>3 DEF Del
  <2>2. \A x \in Del(S, g) : x.ts <= e.ts /\ x.ts \in Nat
    BY <1>1 DEF Del
  <2>3. CASE t < e.ts
    <3>1. ~ (e.ts < t)
      BY <1>1, <2>3
    <3> QED
      BY <2>1, <1>3, <3>1 DEF EsInicio
  <2>4. CASE t > e.ts
    <3>1. \A x \in Del(S, g) \cup {e} : x.ts # t
      BY <1>1, <2>2, <2>4
    <3> QED
      BY <2>1, <3>1 DEF EsInicio
  <2> QED
    BY <1>1, <1>3, <2>3, <2>4
<1> QED
  BY <1>2, <1>3

(* Event x is of the run of pair g that opens at tick s. *)
Entra(S, g, s, x) ==
  /\ x.grupo = g /\ x.ts >= s
  /\ \A u \in (s + 1)..x.ts : ~ EsInicio(S, g, u)

(* A run loses no event, and can only win the new one.                     *)
LEMMA TramoConUnoMas ==
  ASSUME NEW S, S \subseteq Evento, NEW e \in Evento, \A x \in S : x.ts <= e.ts,
         NEW g, NEW s \in Nat,
         (\E x \in Del(S, g) : x.ts = e.ts) =>
            (EsInicio(S \cup {e}, g, e.ts) <=> EsInicio(S, g, e.ts))
  PROVE  Tramo(S \cup {e}, g, s) =
           IF Entra(S \cup {e}, g, s, e) THEN Tramo(S, g, s) \cup {e} ELSE Tramo(S, g, s)
<1>1. e.ts \in Nat /\ \A x \in S : x.ts \in Nat
  BY DEF Evento
<1>2. ASSUME NEW x \in Del(S, g)
      PROVE  (\A u \in (s + 1)..x.ts : ~ EsInicio(S \cup {e}, g, u)) <=>
             (\A u \in (s + 1)..x.ts : ~ EsInicio(S, g, u))
  <2>1. x.ts \in Nat /\ x.ts <= e.ts
    BY <1>1 DEF Del
  <2>2. ASSUME NEW u \in (s + 1)..x.ts
        PROVE  EsInicio(S \cup {e}, g, u) <=> EsInicio(S, g, u)
    <3>1. CASE u # e.ts
      BY <3>1, <2>1, IniciosConUnoMas
    <3>2. CASE u = e.ts
      <4>1. x.ts = e.ts
        BY <2>1, <1>1, <3>2
      <4> QED
        BY <4>1, <3>2
    <3> QED
      BY <3>1, <3>2
  <2> QED
    BY <2>2
<1>3. Del(S \cup {e}, g) = Del(S, g) \cup {x \in {e} : x.grupo = g}
  BY DEF Del
<1>4. Tramo(S \cup {e}, g, s) = {x \in Del(S, g) \cup {e} : Entra(S \cup {e}, g, s, x)}
  <2>1. \A x \in Del(S \cup {e}, g) :
          (x.ts >= s /\ \A u \in (s + 1)..x.ts : ~ EsInicio(S \cup {e}, g, u)) <=>
          Entra(S \cup {e}, g, s, x)
    BY DEF Del, Entra
  <2>2. Tramo(S \cup {e}, g, s) = {x \in Del(S \cup {e}, g) : Entra(S \cup {e}, g, s, x)}
    BY <2>1 DEF Tramo
  <2>3. \A x : Entra(S \cup {e}, g, s, x) => x.grupo = g
    BY DEF Entra
  <2> QED
    BY <1>3, <2>2, <2>3
<1>5. Tramo(S, g, s) = {x \in Del(S, g) : Entra(S \cup {e}, g, s, x)}
  <2>1. \A x \in Del(S, g) : x.grupo = g
    BY DEF Del
  <2> QED
    BY <1>2, <2>1 DEF Tramo, Entra
<1> QED
  BY <1>4, <1>5

\* An event that opens no attack leaves the earlier groups as they were.
LEMMA TramoSinAbrir ==
  ASSUME NEW S, S \subseteq Evento, NEW e \in Evento, \A x \in S : x.ts <= e.ts,
         NEW g, NEW s \in Nat, EsInicio(S \cup {e}, g, e.ts) <=> EsInicio(S, g, e.ts)
  PROVE  Tramo(S \cup {e}, g, s) =
           IF Entra(S \cup {e}, g, s, e) THEN Tramo(S, g, s) \cup {e} ELSE Tramo(S, g, s)
BY TramoConUnoMas, ZenonT(40)

(* The row of the last run of a pair ends where its last event is.         *)
LEMMA ElUltimoTramo ==
  ASSUME NEW S, S \subseteq Evento, NEW n \in Nat, \A x \in S : x.ts <= n,
         NEW g, NEW s \in Nat, EsInicio(S, g, s),
         \A x \in Del(S, g) : EsInicio(S, g, x.ts) => x.ts <= s
  PROVE  /\ Tramo(S, g, s) \subseteq S /\ Tramo(S, g, s) # {}
         /\ \A x \in Del(S, g) : x.ts <= Resumen(Tramo(S, g, s)).fin
         /\ \E x \in Del(S, g) : x.ts = Resumen(Tramo(S, g, s)).fin
<1> DEFINE T == Tramo(S, g, s)
           A == {x.ts : x \in T}
<1>1. T \subseteq Del(S, g) /\ Del(S, g) \subseteq S
  BY DEF Tramo, Del
<1>2. \A x \in Del(S, g) : x.ts \in Nat /\ x.ts <= n
  BY <1>1 DEF Evento
<1>3. ASSUME NEW x \in Del(S, g), x.ts >= s PROVE x \in T
  <2>1. \A u \in (s + 1)..x.ts : ~ EsInicio(S, g, u)
    <3> SUFFICES ASSUME NEW u \in (s + 1)..x.ts, EsInicio(S, g, u) PROVE FALSE
      OBVIOUS
    <3>1. PICK y \in Del(S, g) : y.ts = u
      BY DEF EsInicio
    <3>2. u <= s /\ u \in Nat /\ u >= s + 1
      BY <3>1, <1>2
    <3> QED
      BY <3>2
  <2> QED
    BY <1>3, <2>1 DEF Tramo
<1>4. PICK z \in Del(S, g) : z.ts = s
  BY DEF EsInicio
<1>5. z \in T
  BY <1>3, <1>4
<1>6. A \subseteq Nat /\ A # {} /\ \A a \in A : a <= n
  BY <1>1, <1>2, <1>5
<1>7. Resumen(T).fin = Maximo(A)
  BY DEF Resumen
<1>8. \A x \in T : x.ts \in A
  OBVIOUS
<1>9. \A a \in A : \E x \in T : x.ts = a
  OBVIOUS
<1> HIDE DEF A
<1>10. Maximo(A) \in A /\ \A a \in A : a <= Maximo(A)
  BY <1>6, MaximoExiste
<1>11. \A x \in Del(S, g) : x.ts <= Maximo(A)
  <2> TAKE x \in Del(S, g)
  <2>1. CASE x.ts >= s
    BY <1>3, <1>8, <1>10, <2>1
  <2>2. CASE x.ts < s
    <3>1. s <= Maximo(A) /\ Maximo(A) \in Nat
      BY <1>4, <1>5, <1>6, <1>8, <1>10
    <3> QED
      BY <1>2, <2>2, <3>1
  <2> QED
    BY <1>2, <2>1, <2>2
<1>12. \E x \in Del(S, g) : x.ts = Maximo(A)
  BY <1>1, <1>9, <1>10
<1> QED
  BY <1>1, <1>5, <1>7, <1>11, <1>12

(* When no more than a silence has passed since the last event, the new    *)
(* one opens nothing: it goes to the last run of its pair.                 *)
LEMMA AgruparSigue ==
  ASSUME NEW S, S \subseteq Evento, IsFiniteSet(S),
         NEW e \in Evento, e \notin S, \A x \in S : x.ts <= e.ts,
         NEW s \in Nat, EsInicio(S, e.grupo, s),
         \A x \in Del(S, e.grupo) : EsInicio(S, e.grupo, x.ts) => x.ts <= s,
         e.ts - Agrupar(S)[<<e.grupo, s>>].fin <= Hueco
  PROVE  /\ \A g : \A t \in Nat : EsInicio(S \cup {e}, g, t) <=> EsInicio(S, g, t)
         /\ Agrupar(S \cup {e}) =
              [Agrupar(S) EXCEPT ![<<e.grupo, s>>] = Absorber(@, e)]
<1> DEFINE R == S \cup {e}
           g == e.grupo
           k == <<g, s>>
           T == Tramo(S, g, s)
<1>1. e.ts \in Nat /\ \A x \in S : x.ts \in Nat
  BY DEF Evento
<1>2. k \in Claves(S)
  BY DEF EsInicio, Claves, Del
<1>3. Agrupar(S)[k] = Resumen(T)
  BY <1>2 DEF Agrupar
<1>4. /\ T \subseteq S /\ T # {}
      /\ \A x \in Del(S, g) : x.ts <= Resumen(T).fin
      /\ \E x \in Del(S, g) : x.ts = Resumen(T).fin
  BY <1>1, ElUltimoTramo
<1> HIDE DEF T
<1>5. PICK y \in Del(S, g) : y.ts = Resumen(T).fin
  BY <1>4
<1>6. y.ts \in Nat /\ y.ts <= e.ts /\ e.ts - y.ts <= Hueco /\ y \in S /\ y.grupo = g
  BY <1>1, <1>3, <1>5 DEF Del
<1>7. EsInicio(R, g, e.ts) <=> EsInicio(S, g, e.ts)
  <2>1. Del(R, g) = Del(S, g) \cup {e}
    BY DEF Del
  <2>2. CASE y.ts = e.ts
    <3>1. ~ (e.ts < e.ts)
      BY <1>1
    <3> QED
      BY <1>5, <2>1, <2>2, <3>1 DEF EsInicio
  <2>3. CASE y.ts # e.ts
    <3>1. y.ts < e.ts /\ ~ (e.ts - y.ts > Hueco)
      BY <1>1, <1>6, <2>3, HuecoAssumption
    <3>2. ~ EsInicio(R, g, e.ts)
      BY <1>5, <2>1, <3>1 DEF EsInicio
    <3>3. \A x \in Del(S, g) : x.ts # e.ts
      <4> TAKE x \in Del(S, g)
      <4>1. x.ts <= y.ts /\ x.ts \in Nat
        BY <1>1, <1>4, <1>5 DEF Del
      <4> QED
        BY <1>1, <1>6, <3>1, <4>1
    <3> QED
      BY <3>2, <3>3 DEF EsInicio
  <2> QED
    BY <2>2, <2>3
<1>8. \A h : \A t \in Nat : EsInicio(R, h, t) <=> EsInicio(S, h, t)
  <2> TAKE h
  <2> TAKE t \in Nat
  <2>1. CASE h = g /\ t = e.ts
    BY <1>7, <2>1
  <2>2. CASE h # g \/ t # e.ts
    BY <2>2, IniciosConUnoMas
  <2> QED
    BY <2>1, <2>2
<1>9. Claves(R) = Claves(S)
  <2>1. ASSUME NEW q \in Claves(S) PROVE q \in Claves(R)
    <3>1. PICK x \in S : q = <<x.grupo, x.ts>> /\ EsInicio(S, x.grupo, x.ts)
      BY DEF Claves
    <3>2. EsInicio(R, x.grupo, x.ts)
      BY <1>1, <1>8, <3>1
    <3> QED
      BY <3>1, <3>2 DEF Claves
  <2>2. ASSUME NEW q \in Claves(R) PROVE q \in Claves(S)
    <3>1. PICK x \in R : q = <<x.grupo, x.ts>> /\ EsInicio(R, x.grupo, x.ts)
      BY DEF Claves
    <3>2. EsInicio(S, x.grupo, x.ts)
      BY <1>1, <1>8, <3>1
    <3>3. PICK z \in Del(S, x.grupo) : z.ts = x.ts
      BY <3>2 DEF EsInicio
    <3>4. z \in S /\ z.grupo = x.grupo
      BY <3>3 DEF Del
    <3> QED
      BY <3>1, <3>2, <3>3, <3>4 DEF Claves
  <2> QED
    BY <2>1, <2>2
<1>10. Tramo(R, g, s) = T \cup {e}
  <2>1. Tramo(R, g, s) = IF Entra(R, g, s, e) THEN T \cup {e} ELSE T
    BY <1>7, TramoConUnoMas, ZenonT(40) DEF T
  <2>2. e.ts >= s
    <3>1. PICK x \in Del(S, g) : x.ts = s
      BY DEF EsInicio
    <3> QED
      BY <3>1, <1>1 DEF Del
  <2>3. ASSUME NEW u \in (s + 1)..e.ts PROVE ~ EsInicio(R, g, u)
    <3>9. u \in Nat
      BY <1>1
    <3> HIDE DEF R
    <3>0. u \in Nat /\ (EsInicio(R, g, u) <=> EsInicio(S, g, u))
      BY <3>9, <1>8, Zenon
    <3> SUFFICES ASSUME EsInicio(S, g, u) PROVE FALSE
      BY <3>0
    <3>1. PICK x \in Del(S, g) : x.ts = u
      BY DEF EsInicio
    <3>2. u <= s
      BY <3>1
    <3> QED
      BY <3>2, <1>1
  <2> QED
    BY <2>1, <2>2, <2>3 DEF Entra
<1>14. ASSUME NEW h, NEW v \in Nat
       PROVE  Tramo(R, h, v) = IF Entra(R, h, v, e) THEN Tramo(S, h, v) \cup {e}
                               ELSE Tramo(S, h, v)
  <2>1. \A t \in Nat : EsInicio(R, h, t) <=> EsInicio(S, h, t)
    BY <1>8
  <2>2. EsInicio(R, h, e.ts) <=> EsInicio(S, h, e.ts)
    BY <1>1, <2>1
  <2> QED
    BY <2>2, TramoSinAbrir
<1>11. ASSUME NEW q \in Claves(S), q # k PROVE Tramo(R, q[1], q[2]) = Tramo(S, q[1], q[2])
  <2>1. PICK x \in S : q = <<x.grupo, x.ts>> /\ EsInicio(S, x.grupo, x.ts)
    BY DEF Claves
  <2> DEFINE h == x.grupo
             v == x.ts
  <2>2. v \in Nat /\ q[1] = h /\ q[2] = v /\ x \in Del(S, h)
    BY <1>1, <2>1 DEF Del
  <2>3. Tramo(R, h, v) = IF Entra(R, h, v, e) THEN Tramo(S, h, v) \cup {e} ELSE Tramo(S, h, v)
    BY <1>14, <2>2
  <2>4. ~ Entra(R, h, v, e)
    <3> SUFFICES ASSUME g = h PROVE \E u \in (v + 1)..e.ts : EsInicio(R, h, u)
      BY DEF Entra
    <3>1. v <= s /\ v # s
      BY <1>11, <2>1, <2>2
    <3>2. s \in (v + 1)..e.ts
      <4>1. PICK z \in Del(S, g) : z.ts = s
        BY DEF EsInicio
      <4>2. s <= e.ts
        BY <4>1, <1>1 DEF Del
      <4> QED
        BY <1>1, <2>2, <3>1, <4>2
    <3>3. EsInicio(R, h, s)
      BY <1>8
    <3> QED
      BY <3>2, <3>3
  <2> QED
    BY <2>2, <2>3, <2>4
<1>12. Resumen(T \cup {e}) = Absorber(Resumen(T), e)
  <2>1. T \subseteq Evento /\ IsFiniteSet(T) /\ e \notin T /\ \A x \in T : x.ts <= e.ts
    BY <1>4, FS_Subset
  <2> QED
    BY <1>4, <2>1, AbsorberUnoMas
<1>13. Agrupar(R) = [Agrupar(S) EXCEPT ![k] = Absorber(@, e)]
  <2> DEFINE F == [Agrupar(S) EXCEPT ![k] = Absorber(@, e)]
  <2>1. Agrupar(R) = [q \in Claves(S) |-> Resumen(Tramo(R, q[1], q[2]))]
    BY <1>9 DEF Agrupar
  <2>2. F = [q \in Claves(S) |-> IF q = k THEN Absorber(Agrupar(S)[k], e) ELSE Agrupar(S)[q]]
    BY DEF Agrupar
  <2>3. ASSUME NEW q \in Claves(S)
        PROVE  Resumen(Tramo(R, q[1], q[2])) =
                 IF q = k THEN Absorber(Agrupar(S)[k], e) ELSE Agrupar(S)[q]
    <3>1. CASE q = k
      BY <3>1, <1>3, <1>10, <1>12
    <3>2. CASE q # k
      <4>1. Agrupar(S)[q] = Resumen(Tramo(S, q[1], q[2]))
        BY DEF Agrupar
      <4> QED
        BY <3>2, <4>1, <1>11
    <3> QED
      BY <3>1, <3>2
  <2> QED
    BY <2>1, <2>2, <2>3
<1> QED
  BY <1>8, <1>13

(* The table with one more row. *)
ConFila(f, k, r) == [q \in DOMAIN f \cup {k} |-> IF q = k THEN r ELSE f[q]]

(* When its pair has no row yet or more than a silence has passed, the new *)
(* event is the whole of a new run.                                        *)
LEMMA AgruparAbre ==
  ASSUME NEW S, S \subseteq Evento, NEW e \in Evento, e \notin S, \A x \in S : x.ts <= e.ts,
         \A x \in Del(S, e.grupo) : e.ts - x.ts > Hueco
  PROVE  /\ EsInicio(S \cup {e}, e.grupo, e.ts)
         /\ \A g : \A t \in Nat : (g # e.grupo \/ t # e.ts) =>
              (EsInicio(S \cup {e}, g, t) <=> EsInicio(S, g, t))
         /\ <<e.grupo, e.ts>> \notin Claves(S)
         /\ Agrupar(S \cup {e}) =
              ConFila(Agrupar(S), <<e.grupo, e.ts>>, Absorber(Vacio, e))
<1> DEFINE R == S \cup {e}
           g == e.grupo
           k == <<g, e.ts>>
<1>1. e.ts \in Nat /\ \A x \in S : x.ts \in Nat
  BY DEF Evento
<1>2. \A x \in Del(S, g) : x.ts < e.ts
  BY <1>1, HuecoAssumption DEF Del
<1>3. Del(R, g) = Del(S, g) \cup {e}
  BY DEF Del
<1>4. EsInicio(R, g, e.ts)
  <2>1. ~ (e.ts < e.ts)
    BY <1>1
  <2> QED
    BY <1>3, <2>1 DEF EsInicio
<1>5. \A h : \A t \in Nat : (h # g \/ t # e.ts) => (EsInicio(R, h, t) <=> EsInicio(S, h, t))
  BY IniciosConUnoMas
<1>6. k \notin Claves(S)
  <2> SUFFICES ASSUME k \in Claves(S) PROVE FALSE
    OBVIOUS
  <2>1. PICK x \in S : x.grupo = g /\ x.ts = e.ts
    BY DEF Claves
  <2> QED
    BY <2>1, <1>1, <1>2 DEF Del
<1>7. Claves(R) = Claves(S) \cup {k}
  <2>1. ASSUME NEW x \in S, EsInicio(S, x.grupo, x.ts) PROVE EsInicio(R, x.grupo, x.ts)
    <3>1. x.grupo # g \/ x.ts # e.ts
      BY <1>1, <1>2 DEF Del
    <3> QED
      BY <1>1, <1>5, <2>1, <3>1
  <2>2. ASSUME NEW x \in S, EsInicio(R, x.grupo, x.ts) PROVE EsInicio(S, x.grupo, x.ts)
    <3>1. x.grupo # g \/ x.ts # e.ts
      BY <1>1, <1>2 DEF Del
    <3> QED
      BY <1>1, <1>5, <2>2, <3>1
  <2>3. Claves(R) = {<<x.grupo, x.ts>> : x \in {z \in R : EsInicio(R, z.grupo, z.ts)}}
    BY DEF Claves
  <2>4. {z \in R : EsInicio(R, z.grupo, z.ts)} =
          {z \in S : EsInicio(S, z.grupo, z.ts)} \cup {e}
    BY <1>4, <2>1, <2>2
  <2> QED
    BY <2>3, <2>4 DEF Claves
<1>8. ASSUME NEW h, NEW v \in Nat
      PROVE  Tramo(R, h, v) = IF Entra(R, h, v, e) THEN Tramo(S, h, v) \cup {e}
                              ELSE Tramo(S, h, v)
  <2>1. (\E x \in Del(S, h) : x.ts = e.ts) =>
            (EsInicio(R, h, e.ts) <=> EsInicio(S, h, e.ts))
    <3>1. CASE h = g
      BY <1>1, <1>2, <3>1 DEF Del
    <3>2. CASE h # g
      BY <1>1, <1>5, <3>2
    <3> QED
      BY <3>1, <3>2
  <2> QED
    BY <2>1, TramoConUnoMas, ZenonT(40)
<1>9. Tramo(R, g, e.ts) = {e}
  <2>1. Tramo(S, g, e.ts) = {}
    BY <1>1, <1>2 DEF Tramo, Del
  <2>2. Entra(R, g, e.ts, e)
    BY <1>1 DEF Entra
  <2> QED
    BY <1>1, <1>8, <2>1, <2>2
<1>10. ASSUME NEW q \in Claves(S) PROVE Tramo(R, q[1], q[2]) = Tramo(S, q[1], q[2])
  <2>1. PICK x \in S : q = <<x.grupo, x.ts>> /\ EsInicio(S, x.grupo, x.ts)
    BY DEF Claves
  <2>2. x.ts \in Nat /\ q[1] = x.grupo /\ q[2] = x.ts
    BY <1>1, <2>1
  <2>3. ~ Entra(R, x.grupo, x.ts, e)
    <3> SUFFICES ASSUME g = x.grupo
                 PROVE  \E u \in (x.ts + 1)..e.ts : EsInicio(R, x.grupo, u)
      BY DEF Entra
    <3>1. x.ts < e.ts
      BY <1>2 DEF Del
    <3>2. e.ts \in (x.ts + 1)..e.ts
      BY <1>1, <2>2, <3>1
    <3> QED
      BY <1>4, <3>2
  <2> QED
    BY <1>8, <2>2, <2>3
<1>11. Agrupar(R) = [q \in Claves(S) \cup {k} |->
                       IF q = k THEN Absorber(Vacio, e) ELSE Agrupar(S)[q]]
  <2>1. Agrupar(R) = [q \in Claves(S) \cup {k} |-> Resumen(Tramo(R, q[1], q[2]))]
    BY <1>7 DEF Agrupar
  <2>2. ASSUME NEW q \in Claves(S) \cup {k}
        PROVE  Resumen(Tramo(R, q[1], q[2])) =
                 IF q = k THEN Absorber(Vacio, e) ELSE Agrupar(S)[q]
    <3>1. CASE q = k
      BY <3>1, <1>9, AbsorberUno
    <3>2. CASE q # k
      <4>1. q \in Claves(S) /\ Agrupar(S)[q] = Resumen(Tramo(S, q[1], q[2]))
        BY <3>2 DEF Agrupar
      <4> QED
        BY <3>2, <4>1, <1>10
    <3> QED
      BY <3>1, <3>2
  <2> QED
    BY <2>1, <2>2
<1>12. Agrupar(R) = ConFila(Agrupar(S), k, Absorber(Vacio, e))
  <2>1. DOMAIN Agrupar(S) = Claves(S)
    BY DEF Agrupar
  <2> QED
    BY <1>11, <2>1 DEF ConFila
<1> QED
  BY <1>4, <1>5, <1>6, <1>12

\* The loop begins with nothing grouped and the whole batch ahead.
LEMMA InicioBucle == Init => InductivoBucle
<1> SUFFICES ASSUME Init PROVE InductivoBucle
  OBVIOUS
<1>1. tanda \subseteq Evento /\ IsFiniteSet(tanda) /\ quedan = tanda /\ tanda \ quedan = {}
  BY TandasAssumption DEF Init
<1>2. AbiertosSonLosUltimos
  BY <1>1 DEF Init, AbiertosSonLosUltimos
<1>3. FilasSonLosAtaques
  <2>1. Claves({}) = {}
    BY DEF Claves
  <2>2. Agrupar({}) = [k \in {} |-> <<>>]
    BY <2>1 DEF Agrupar
  <2> QED
    BY <1>1, <2>2 DEF Init, FilasSonLosAtaques
<1> QED
  BY <1>1, <1>2, <1>3 DEF InductivoBucle

(* What a turn of the loop starts from. *)
LEMMA LaVuelta ==
  ASSUME InductivoBucle, NEW e \in quedan, Siguiente(e), quedan' = quedan \ {e}, tanda' = tanda
  PROVE  LET S == tanda \ quedan
         IN  /\ S \subseteq Evento /\ IsFiniteSet(S) /\ e \in Evento /\ e \notin S
             /\ \A x \in S : x.ts <= e.ts
             /\ (tanda \ quedan)' = S \cup {e}
             /\ \A x \in S \cup {e} : \A y \in quedan' : x.ts <= y.ts
             /\ tanda' \subseteq Evento /\ IsFiniteSet(tanda') /\ quedan' \subseteq tanda'
<1> DEFINE S == tanda \ quedan
<1>1. tanda \subseteq Evento /\ IsFiniteSet(tanda) /\ quedan \subseteq tanda
  BY DEF InductivoBucle
<1>2. IsFiniteSet(S)
  BY <1>1, FS_Subset
<1>3. \A x \in S : \A y \in quedan : x.ts <= y.ts
  BY DEF InductivoBucle, AbiertosSonLosUltimos
<1>4. \A y \in quedan : e.ts <= y.ts
  BY DEF Siguiente
<1> QED
  BY <1>1, <1>2, <1>3, <1>4

\* The branch of Agrupar that extends the open attack of the pair.
LEMMA ContinuarFila ==
  ASSUME InductivoBucle, NEW e \in quedan, Siguiente(e), Continuar(e),
         quedan' = quedan \ {e}, tanda' = tanda
  PROVE  InductivoBucle'
<1> DEFINE S == tanda \ quedan
           g == e.grupo
           s == abiertos[g][2]
           R == S \cup {e}
<1>1. /\ S \subseteq Evento /\ IsFiniteSet(S) /\ e \in Evento /\ e \notin S
      /\ \A x \in S : x.ts <= e.ts
      /\ (tanda \ quedan)' = R
      /\ \A x \in R : \A y \in quedan' : x.ts <= y.ts
      /\ tanda' \subseteq Evento /\ IsFiniteSet(tanda') /\ quedan' \subseteq tanda'
  BY LaVuelta
<1>2. filas = Agrupar(S)
  BY DEF InductivoBucle, FilasSonLosAtaques
<1>3. /\ g \in DOMAIN abiertos /\ e.ts - filas[abiertos[g]].fin <= Hueco
      /\ filas' = [filas EXCEPT ![abiertos[g]] = Absorber(@, e)]
      /\ abiertos' = abiertos
  BY DEF Continuar, Sigue
<1>4. /\ DOMAIN abiertos = {x.grupo : x \in S}
      /\ \A h \in DOMAIN abiertos :
           /\ abiertos[h] = <<h, abiertos[h][2]>>
           /\ EsInicio(S, h, abiertos[h][2])
           /\ \A x \in Del(S, h) : EsInicio(S, h, x.ts) => x.ts <= abiertos[h][2]
  BY DEF InductivoBucle, AbiertosSonLosUltimos
<1>5. \A h \in DOMAIN abiertos : abiertos[h][2] \in Nat
  <2> TAKE h \in DOMAIN abiertos
  <2>1. PICK x \in Del(S, h) : x.ts = abiertos[h][2]
    BY <1>4 DEF EsInicio
  <2> QED
    BY <2>1, <1>1 DEF Del, Evento
<1> HIDE DEF S
<1>6. /\ s \in Nat /\ abiertos[g] = <<g, s>> /\ EsInicio(S, g, s)
      /\ \A x \in Del(S, g) : EsInicio(S, g, x.ts) => x.ts <= s
  BY <1>3, <1>4, <1>5
<1>7. e.ts - Agrupar(S)[<<g, s>>].fin <= Hueco
  BY <1>2, <1>3, <1>6
<1> HIDE DEF s
<1>8. /\ \A h : \A t \in Nat : EsInicio(R, h, t) <=> EsInicio(S, h, t)
      /\ Agrupar(R) = [Agrupar(S) EXCEPT ![<<g, s>>] = Absorber(@, e)]
  BY <1>1, <1>6, <1>7, AgruparSigue
<1>9. FilasSonLosAtaques'
  BY <1>1, <1>2, <1>3, <1>6, <1>8 DEF FilasSonLosAtaques
<1>10. AbiertosSonLosUltimos'
  <2>1. DOMAIN abiertos = {x.grupo : x \in R}
    <3>1. PICK x \in S : x.grupo = g
      BY <1>3, <1>4
    <3> QED
      BY <1>4, <3>1
  <2>2. ASSUME NEW h \in DOMAIN abiertos
        PROVE  /\ EsInicio(R, h, abiertos[h][2])
               /\ \A x \in Del(R, h) : EsInicio(R, h, x.ts) => x.ts <= abiertos[h][2]
    <3>1. \A t \in Nat : EsInicio(R, h, t) <=> EsInicio(S, h, t)
      BY <1>8
    <3>2. EsInicio(R, h, abiertos[h][2])
      BY <1>4, <1>5, <3>1
    <3>3. ASSUME NEW x \in Del(R, h), EsInicio(R, h, x.ts) PROVE x.ts <= abiertos[h][2]
      <4>1. x.ts \in Nat
        BY <1>1 DEF Del, Evento
      <4>2. EsInicio(S, h, x.ts)
        BY <3>1, <3>3, <4>1
      <4>3. PICK y \in Del(S, h) : y.ts = x.ts
        BY <4>2 DEF EsInicio
      <4> QED
        BY <1>4, <4>2, <4>3
    <3> QED
      BY <3>2, <3>3
  <2> HIDE DEF R
  <2> QED
    BY <1>1, <1>3, <1>4, <2>1, <2>2 DEF AbiertosSonLosUltimos
<1> QED
  BY <1>1, <1>9, <1>10 DEF InductivoBucle

\* The branch of Agrupar that opens an attack: none was open, or the gap is over Ventana.
LEMMA AbrirFila ==
  ASSUME InductivoBucle, NEW e \in quedan, Siguiente(e), Abrir(e),
         quedan' = quedan \ {e}, tanda' = tanda
  PROVE  InductivoBucle'
<1> DEFINE S == tanda \ quedan
           g == e.grupo
           k == <<g, e.ts>>
           R == S \cup {e}
<1>1. /\ S \subseteq Evento /\ IsFiniteSet(S) /\ e \in Evento /\ e \notin S
      /\ \A x \in S : x.ts <= e.ts
      /\ (tanda \ quedan)' = R
      /\ \A x \in R : \A y \in quedan' : x.ts <= y.ts
      /\ tanda' \subseteq Evento /\ IsFiniteSet(tanda') /\ quedan' \subseteq tanda'
  BY LaVuelta
<1>2. filas = Agrupar(S)
  BY DEF InductivoBucle, FilasSonLosAtaques
<1>3. /\ ~ (g \in DOMAIN abiertos /\ e.ts - filas[abiertos[g]].fin <= Hueco)
      /\ filas' = [j \in DOMAIN filas \cup {k} |->
                     IF j = k THEN Absorber(Vacio, e) ELSE filas[j]]
      /\ abiertos' = [h \in DOMAIN abiertos \cup {g} |->
                        IF h = g THEN k ELSE abiertos[h]]
  BY DEF Abrir, Sigue
<1>4. /\ DOMAIN abiertos = {x.grupo : x \in S}
      /\ \A h \in DOMAIN abiertos :
           /\ abiertos[h] = <<h, abiertos[h][2]>>
           /\ EsInicio(S, h, abiertos[h][2])
           /\ \A x \in Del(S, h) : EsInicio(S, h, x.ts) => x.ts <= abiertos[h][2]
  BY DEF InductivoBucle, AbiertosSonLosUltimos
<1>5. \A h \in DOMAIN abiertos : abiertos[h][2] \in Nat
  <2> TAKE h \in DOMAIN abiertos
  <2>1. PICK x \in Del(S, h) : x.ts = abiertos[h][2]
    BY <1>4 DEF EsInicio
  <2> QED
    BY <2>1, <1>1 DEF Del, Evento
<1> HIDE DEF S
<1>6. e.ts \in Nat /\ \A x \in S : x.ts \in Nat
  BY <1>1 DEF Evento
<1>7. \A x \in Del(S, g) : e.ts - x.ts > Hueco
  <2> TAKE x \in Del(S, g)
  <2> DEFINE s == abiertos[g][2]
             f == Resumen(Tramo(S, g, s)).fin
  <2>1. g \in DOMAIN abiertos
    BY <1>4 DEF Del
  <2>2. /\ s \in Nat /\ abiertos[g] = <<g, s>> /\ EsInicio(S, g, s)
        /\ \A y \in Del(S, g) : EsInicio(S, g, y.ts) => y.ts <= s
    BY <1>4, <1>5, <2>1
  <2> HIDE DEF s
  <2>3. <<g, s>> \in Claves(S)
    BY <2>2 DEF EsInicio, Claves, Del
  <2>4. filas[abiertos[g]] = Resumen(Tramo(S, g, s))
    BY <1>2, <2>2, <2>3 DEF Agrupar
  <2>5. ~ (e.ts - f <= Hueco)
    BY <1>3, <2>1, <2>4
  <2>6. x.ts <= f /\ \E y \in Del(S, g) : y.ts = f
    BY <1>1, <1>6, <2>2, ElUltimoTramo
  <2> HIDE DEF f
  <2>7. f \in Nat /\ x.ts \in Nat
    BY <2>6, <1>6 DEF Del
  <2> QED
    BY <2>5, <2>6, <2>7, <1>6, HuecoAssumption
<1>8. EsInicio(R, g, e.ts)
  BY <1>1, <1>7, AgruparAbre
<1>11. \A h : \A t \in Nat : (h # g \/ t # e.ts) => (EsInicio(R, h, t) <=> EsInicio(S, h, t))
  <2> SUFFICES ASSUME NEW h, NEW t \in Nat, h # g \/ t # e.ts
               PROVE  EsInicio(R, h, t) <=> EsInicio(S, h, t)
    OBVIOUS
  <2>1. S \subseteq Evento /\ e \in Evento /\ \A x \in S : x.ts <= e.ts
    BY <1>1
  <2> QED
    BY <2>1, IniciosConUnoMas
<1>12. Agrupar(R) = ConFila(Agrupar(S), k, Absorber(Vacio, e))
  BY <1>1, <1>7, AgruparAbre
<1>9. FilasSonLosAtaques'
  <2>1. filas' = ConFila(filas, k, Absorber(Vacio, e))
    BY <1>3 DEF ConFila
  <2> QED
    BY <1>1, <1>2, <1>12, <2>1 DEF FilasSonLosAtaques
<1>10. AbiertosSonLosUltimos'
  <2>1. DOMAIN abiertos' = {x.grupo : x \in R}
    BY <1>3, <1>4
  <2>2. ASSUME NEW h \in DOMAIN abiertos'
        PROVE  /\ abiertos'[h] = <<h, abiertos'[h][2]>>
               /\ EsInicio(R, h, abiertos'[h][2])
               /\ \A x \in Del(R, h) : EsInicio(R, h, x.ts) => x.ts <= abiertos'[h][2]
    <3>1. CASE h = g
      <4>1. abiertos'[h] = <<g, e.ts>> /\ abiertos'[h][2] = e.ts
        BY <1>3, <3>1
      <4>2. \A x \in Del(R, h) : x.ts <= e.ts
        BY <1>1, <1>6 DEF Del
      <4> QED
        BY <1>8, <3>1, <4>1, <4>2
    <3>2. CASE h # g
      <4>1. h \in DOMAIN abiertos /\ abiertos'[h] = abiertos[h]
        BY <1>3, <3>2
      <4>2. \A t \in Nat : EsInicio(R, h, t) <=> EsInicio(S, h, t)
        BY <1>11, <3>2
      <4>3. Del(R, h) = Del(S, h)
        BY <3>2 DEF Del
      <4>4. \A x \in Del(S, h) : x.ts \in Nat
        BY <1>6 DEF Del
      <4>5. /\ abiertos[h] = <<h, abiertos[h][2]>> /\ EsInicio(R, h, abiertos[h][2])
        BY <1>4, <1>5, <4>1, <4>2
      <4>6. \A x \in Del(R, h) : EsInicio(R, h, x.ts) => x.ts <= abiertos[h][2]
        BY <1>4, <4>1, <4>2, <4>3, <4>4
      <4> QED
        BY <4>1, <4>5, <4>6
    <3> QED
      BY <3>1, <3>2
  <2> HIDE DEF R
  <2> QED
    BY <1>1, <2>1, <2>2 DEF AbiertosSonLosUltimos
<1> QED
  BY <1>1, <1>9, <1>10 DEF InductivoBucle

\* One event of the batch keeps the table and the open attacks in step.
LEMMA PasoBucle == InductivoBucle /\ [Next]_vars => InductivoBucle'
<1> SUFFICES ASSUME InductivoBucle, [Next]_vars PROVE InductivoBucle'
  OBVIOUS
<1>1. CASE Next
  <2>1. PICK e \in quedan : /\ Siguiente(e)
                            /\ Continuar(e) \/ Abrir(e)
                            /\ quedan' = quedan \ {e} /\ tanda' = tanda
    BY <1>1 DEF Next
  <2> QED
    BY <2>1, ContinuarFila, AbrirFila
<1>2. CASE UNCHANGED vars
  BY <1>2 DEF vars, InductivoBucle, AbiertosSonLosUltimos, FilasSonLosAtaques
<1> QED
  BY <1>1, <1>2

(* episodio.Agrupar and absorber: at every turn of the loop, on any finite *)
(* batch of events in any order of those of one tick, its rows are exactly *)
(* the attacks of the events absorbed so far.                              *)
THEOREM ElBucleAgrupa == Spec => []FilasSonLosAtaques
<1>1. InductivoBucle => FilasSonLosAtaques
  BY DEF InductivoBucle
<1> QED
  BY InicioBucle, PasoBucle, <1>1, PTL DEF Spec

-----------------------------------------------------------------------------
(* The follower of Cowrie's log (Seguidor).                                *)

(* A set of naturals that has something has a least element. *)
LEMMA MenorPosicion ==
  ASSUME NEW T, T \subseteq Nat, T # {}
  PROVE  \E n \in T : \A k \in T : n <= k
<1>1. PICK n \in T : \A k \in T : ~ (<<k, n>> \in OpToRel(<, Nat))
  BY NatLessThanWellFounded, WFMin, Zenon
<1>2. \A k \in T : ~ (k < n)
  BY <1>1 DEF OpToRel
<1> QED
  BY <1>2

(* ReadBytes cuts at the first newline of the buffer: there is one when    *)
(* the buffer has a newline at all, and nothing before it ends a line.     *)
LEMMA PrimerFin ==
  ASSUME lector \in Seq(Celda), HayLinea
  PROVE  /\ FinDeLinea \in 1..Len(lector)
         /\ EsFin(lector[FinDeLinea])
         /\ \A j \in 1..(FinDeLinea - 1) : ~ EsFin(lector[j])
<1> DEFINE T == {i \in 1..Len(lector) : EsFin(lector[i])}
<1>1. Len(lector) \in Nat /\ T \subseteq Nat /\ T # {}
  BY LenProperties DEF HayLinea
<1>2. PICK i \in T : \A k \in T : i <= k
  BY <1>1, MenorPosicion
<1>3. \A j \in 1..(i - 1) : ~ EsFin(lector[j])
  BY <1>1, <1>2
<1>4. \E k \in 1..Len(lector) : EsFin(lector[k]) /\ \A j \in 1..(k - 1) : ~ EsFin(lector[j])
  BY <1>2, <1>3
<1> QED
  BY <1>4 DEF FinDeLinea

(* Two stretches of a file with the same cells are the same.               *)
LEMMA CeldasIguales ==
  ASSUME NEW s, NEW t, s \in Seq(Celda), t \in Seq(Celda),
         Len(s) = Len(t), \A i \in 1..Len(s) : s[i] = t[i]
  PROVE  s = t
<1>1. DOMAIN s = DOMAIN t
  BY LenProperties
<1>2. s = [i \in DOMAIN s |-> s[i]] /\ t = [i \in DOMAIN t |-> t[i]]
  BY LenProperties
<1>3. \A i \in DOMAIN s : s[i] = t[i]
  BY LenProperties
<1> QED
  BY <1>1, <1>2, <1>3

(* Any stretch of a well written file that starts where a line does is     *)
(* itself well written.                                                    *)
LEMMA ParejasTramo ==
  ASSUME NEW s \in Seq(Celda), Parejas(s),
         NEW a \in Nat, NEW t \in Seq(Celda),
         a + Len(t) <= Len(s),
         \A i \in 1..Len(t) : t[i] = s[a + i],
         a > 0 => EsFin(s[a])
  PROVE  Parejas(t)
<1>1. Len(s) \in Nat /\ Len(t) \in Nat
  BY LenProperties
<1>2. \A i \in 1..Len(t) : a + i \in 1..Len(s) /\ s[a + i] \in Celda
  BY <1>1, ElementOfSeq
<1> SUFFICES ASSUME NEW i \in 1..Len(t)
             PROVE  IF EsFin(t[i]) THEN i > 1 /\ t[i - 1] = <<t[i][1], 1>>
                                   ELSE i > 1 => EsFin(t[i - 1])
  BY DEF Parejas
<1>3. t[i] = s[a + i] /\ a + i \in 1..Len(s)
  BY <1>2
<1>4. IF EsFin(s[a + i]) THEN a + i > 1 /\ s[a + i - 1] = <<s[a + i][1], 1>>
                         ELSE a + i > 1 => EsFin(s[a + i - 1])
  BY <1>3 DEF Parejas
<1>5. CASE i = 1
  <2>1. CASE a = 0
    BY <1>4, <1>5, <1>3, <2>1
  <2>2. CASE a > 0
    <3>1. a + i - 1 = a /\ EsFin(s[a])
      BY <1>5, <2>2
    <3>2. ~ EsFin(s[a + i])
      <4>1. SUFFICES ASSUME EsFin(s[a + i]) PROVE FALSE
        OBVIOUS
      <4>2. s[a] = <<s[a + i][1], 1>>
        BY <4>1, <1>4, <3>1
      <4> QED
        BY <4>2, <3>1 DEF EsFin
    <3> QED
      BY <3>2, <1>3, <1>5
  <2> QED
    BY <2>1, <2>2
<1>6. CASE i > 1
  <2>1. i - 1 \in 1..Len(t) /\ a + (i - 1) = a + i - 1
    BY <1>1, <1>6
  <2>2. t[i - 1] = s[a + i - 1]
    BY <2>1
  <2> QED
    BY <1>3, <1>4, <1>6, <2>2
<1> QED
  BY <1>5, <1>6

(* The pending half and what the buffer holds up to its first newline make *)
(* exactly one line, and what stays in the buffer starts a new one.        *)
LEMMA LineaEntera ==
  ASSUME NEW p \in Seq(Celda), NEW l \in Seq(Celda), Parejas(p \o l),
         \A i \in 1..Len(p) : ~ EsFin(p[i]),
         NEW k \in 1..Len(l), EsFin(l[k]),
         \A j \in 1..(k - 1) : ~ EsFin(l[j])
  PROVE  /\ Len(p) + k = 2
         /\ p \o SubSeq(l, 1, k) = Linea((p \o l)[2][1])
         /\ (p \o l)[2][1] \in 1..MaxLineas
         /\ EsFin((p \o l)[2])
         /\ (p \o l)[1] = <<(p \o l)[2][1], 1>>
         /\ Parejas(SubSeq(l, k + 1, Len(l)))
<1> DEFINE e == p \o l
           m == Len(p) + k
<1>1. Len(p) \in Nat /\ Len(l) \in Nat /\ k \in Nat /\ m \in Nat
  BY LenProperties
<1>2. /\ e \in Seq(Celda) /\ Len(e) = Len(p) + Len(l)
      /\ \A i \in 1..(Len(p) + Len(l)) : e[i] = IF i <= Len(p) THEN p[i] ELSE l[i - Len(p)]
  BY ConcatProperties
<1>3. e[m] = l[k] /\ m \in 1..Len(e)
  BY <1>1, <1>2
<1>4. \A j \in 1..(m - 1) : ~ EsFin(e[j])
  <2> TAKE j \in 1..(m - 1)
  <2>1. CASE j <= Len(p)
    BY <1>1, <1>2, <2>1
  <2>2. CASE j > Len(p)
    <3>1. j - Len(p) \in 1..(k - 1) /\ e[j] = l[j - Len(p)]
      BY <1>1, <1>2, <2>2
    <3> QED
      BY <3>1
  <2> QED
    BY <1>1, <2>1, <2>2
<1> HIDE DEF e
<1>5. m > 1 /\ e[m - 1] = <<e[m][1], 1>>
  BY <1>1, <1>3 DEF Parejas, e
<1>6. m = 2
  <2> SUFFICES ASSUME m > 2 PROVE FALSE
    BY <1>1, <1>5
  <2>1. m - 1 \in 1..Len(e) /\ m - 1 > 1 /\ m - 1 \in 1..(m - 1) /\ m - 2 \in 1..(m - 1)
        /\ (m - 1) - 1 = m - 2
    BY <1>1, <1>3
  <2>2. ~ EsFin(e[m - 1]) /\ ~ EsFin(e[m - 2])
    BY <2>1, <1>4
  <2>3. Parejas(e)
    BY DEF e
  <2>4. EsFin(e[(m - 1) - 1])
    BY <2>1, <2>2, <2>3 DEF Parejas
  <2> QED
    BY <2>1, <2>2, <2>4
<1>7. e[2] = l[k] /\ EsFin(e[2]) /\ e[1] = <<e[2][1], 1>> /\ e[2] \in Celda
  <2>1. 2 \in 1..Len(e)
    BY <1>3, <1>6
  <2>2. e[2] \in Celda
    BY <2>1, <1>2, ElementOfSeq
  <2>3. m - 1 = 1
    BY <1>6
  <2>4. e[2] = l[k] /\ e[1] = <<e[2][1], 1>>
    BY <1>3, <1>5, <1>6, <2>3
  <2> QED
    BY <2>2, <2>4
<1>8. e[2] = <<e[2][1], 2>> /\ e[2][1] \in 1..MaxLineas
  BY <1>7 DEF Celda, EsFin
<1>9. p \o SubSeq(l, 1, k) = Linea(e[2][1])
  <2>1. \A i \in 1..k : l[i] \in Celda
    BY <1>1, ElementOfSeq
  <2>2. /\ SubSeq(l, 1, k) \in Seq(Celda) /\ Len(SubSeq(l, 1, k)) = k
        /\ \A i \in 1..k : SubSeq(l, 1, k)[i] = l[i]
    <3>1. /\ SubSeq(l, 1, k) \in Seq(Celda)
          /\ Len(SubSeq(l, 1, k)) = IF 1 <= k THEN k - 1 + 1 ELSE 0
          /\ \A i \in 1..(k - 1 + 1) : SubSeq(l, 1, k)[i] = l[1 + i - 1]
      BY <1>1, <2>1, SubSeqProperties
    <3> QED
      BY <3>1, <1>1
  <2> DEFINE c == SubSeq(l, 1, k)
             d == p \o c
  <2>3. /\ d \in Seq(Celda) /\ Len(d) = Len(p) + Len(c)
        /\ \A i \in 1..(Len(p) + Len(c)) : d[i] = IF i <= Len(p) THEN p[i] ELSE c[i - Len(p)]
    BY <2>2, ConcatProperties
  <2>4. Len(d) = 2
    BY <2>2, <2>3, <1>6
  <2>5. \A i \in 1..2 : d[i] = e[i]
    <3> TAKE i \in 1..2
    <3>0. i \in 1..(Len(p) + Len(l))
      BY <1>1, <1>6
    <3>1. e[i] = IF i <= Len(p) THEN p[i] ELSE l[i - Len(p)]
      BY <3>0, <1>2
    <3>2. d[i] = IF i <= Len(p) THEN p[i] ELSE c[i - Len(p)]
      BY <2>2, <2>3, <1>6
    <3>3. ~ (i <= Len(p)) => i - Len(p) \in 1..k
      BY <1>1, <1>6
    <3>4. ~ (i <= Len(p)) => c[i - Len(p)] = l[i - Len(p)]
      BY <3>3, <2>2
    <3> QED
      BY <3>1, <3>2, <3>4
  <2> HIDE DEF d, c
  <2>6. d[1] = <<e[2][1], 1>> /\ d[2] = <<e[2][1], 2>>
    BY <2>5, <1>7, <1>8
  <2>7. /\ Linea(e[2][1]) \in Seq(Celda) /\ Len(Linea(e[2][1])) = 2
        /\ Linea(e[2][1])[1] = <<e[2][1], 1>> /\ Linea(e[2][1])[2] = <<e[2][1], 2>>
    BY <1>8 DEF Linea, Celda
  <2>8. d = Linea(e[2][1])
    <3>1. \A i \in 1..Len(d) : d[i] = Linea(e[2][1])[i]
      <4>1. \A i \in 1..Len(d) : i = 1 \/ i = 2
        BY <2>4
      <4>2. d[1] = Linea(e[2][1])[1] /\ d[2] = Linea(e[2][1])[2]
        BY <2>6, <2>7
      <4> QED
        BY <4>1, <4>2
    <3>2. Len(d) = Len(Linea(e[2][1]))
      BY <2>4, <2>7
    <3> QED
      BY <3>1, <3>2, <2>3, <2>7, CeldasIguales
  <2> QED
    BY <2>8 DEF d, c
<1>10. Parejas(SubSeq(l, k + 1, Len(l)))
  <2> DEFINE t == SubSeq(l, k + 1, Len(l))
  <2>1. \A i \in (k + 1)..Len(l) : l[i] \in Celda
    BY <1>1, ElementOfSeq
  <2>a. k + 1 \in Int /\ Len(l) \in Int
    BY <1>1
  <2>2. /\ t \in Seq(Celda)
        /\ Len(t) = IF k + 1 <= Len(l) THEN Len(l) - (k + 1) + 1 ELSE 0
        /\ \A i \in 1..(Len(l) - (k + 1) + 1) : t[i] = l[k + 1 + i - 1]
    BY <2>a, <2>1, SubSeqProperties, SMTT(60)
  <2>3. Len(t) = Len(l) - k
    BY <1>1, <2>2
  <2> HIDE DEF t
  <2>4. \A i \in 1..Len(t) : t[i] = e[2 + i]
    <3> TAKE i \in 1..Len(t)
    <3>1. i \in 1..(Len(l) - (k + 1) + 1) /\ k + 1 + i - 1 = k + i
      BY <1>1, <2>3
    <3>2. t[i] = l[k + i]
      BY <3>1, <2>2
    <3>3. 2 + i \in 1..(Len(p) + Len(l)) /\ ~ (2 + i <= Len(p)) /\ 2 + i - Len(p) = k + i
      BY <1>1, <1>6, <2>3
    <3>4. e[2 + i] = l[2 + i - Len(p)]
      BY <3>3, <1>2
    <3> QED
      BY <3>2, <3>3, <3>4
  <2>5. 2 + Len(t) <= Len(e)
    BY <1>1, <1>2, <1>6, <2>3
  <2>6. Parejas(e) /\ 2 \in Nat /\ EsFin(e[2])
    BY <1>7 DEF e
  <2>7. Parejas(t)
    BY <1>2, <2>2, <2>4, <2>5, <2>6, ParejasTramo
  <2> QED
    BY <2>7 DEF t
<1> QED
  BY <1>6, <1>7, <1>8, <1>9, <1>10 DEF e

(* What the writer appends keeps a file well written: a first half where a *)
(* line ended, a second half after the first half of the same line.        *)
LEMMA ParejasEmpezar ==
  ASSUME NEW s \in Seq(Celda), Parejas(s), Entero(s), NEW n \in 1..MaxLineas
  PROVE  Parejas(Append(s, <<n, 1>>))
<1> DEFINE t == Append(s, <<n, 1>>)
<1>0. <<n, 1>> \in Celda /\ ~ EsFin(<<n, 1>>)
  BY DEF Celda, EsFin
<1>1. /\ Len(s) \in Nat /\ t \in Seq(Celda) /\ Len(t) = Len(s) + 1
      /\ \A i \in 1..Len(s) : t[i] = s[i]
      /\ t[Len(s) + 1] = <<n, 1>>
  BY <1>0, AppendProperties, LenProperties
<1>2. Len(s) > 0 => EsFin(s[Len(s)])
  BY <1>1 DEF Entero
<1> HIDE DEF t
<1>3. Parejas(t)
  <2> SUFFICES ASSUME NEW i \in 1..Len(t)
               PROVE  IF EsFin(t[i]) THEN i > 1 /\ t[i - 1] = <<t[i][1], 1>>
                                     ELSE i > 1 => EsFin(t[i - 1])
    BY DEF Parejas
  <2>1. CASE i <= Len(s)
    <3>1. i \in 1..Len(s) /\ (i > 1 => i - 1 \in 1..Len(s))
      BY <1>1, <2>1
    <3>2. t[i] = s[i] /\ (i > 1 => t[i - 1] = s[i - 1])
      BY <1>1, <3>1
    <3>3. IF EsFin(s[i]) THEN i > 1 /\ s[i - 1] = <<s[i][1], 1>>
                         ELSE i > 1 => EsFin(s[i - 1])
      BY <3>1 DEF Parejas
    <3> QED
      BY <3>2, <3>3
  <2>2. CASE i = Len(s) + 1
    <3>1. i - 1 = Len(s) /\ (i > 1 => Len(s) \in 1..Len(s))
      BY <1>1, <2>2
    <3>2. t[i] = <<n, 1>> /\ (i > 1 => t[i - 1] = s[Len(s)])
      BY <1>1, <2>2, <3>1
    <3> QED
      BY <1>0, <1>1, <1>2, <2>2, <3>2
  <2> QED
    BY <1>1, <2>1, <2>2
<1> QED
  BY <1>3 DEF t

\* ... and the second half of a line ends the pair its first half began.
LEMMA ParejasAcabar ==
  ASSUME NEW s \in Seq(Celda), Parejas(s), NEW n \in 1..MaxLineas,
         s # <<>>, s[Len(s)] = <<n, 1>>
  PROVE  Parejas(Append(s, <<n, 2>>)) /\ Entero(Append(s, <<n, 2>>))
<1> DEFINE t == Append(s, <<n, 2>>)
<1>0. <<n, 2>> \in Celda /\ EsFin(<<n, 2>>) /\ <<n, 2>>[1] = n
  BY DEF Celda, EsFin
<1>1. /\ Len(s) \in Nat /\ Len(s) > 0 /\ t \in Seq(Celda) /\ Len(t) = Len(s) + 1
      /\ \A i \in 1..Len(s) : t[i] = s[i]
      /\ t[Len(s) + 1] = <<n, 2>>
  BY <1>0, AppendProperties, LenProperties, EmptySeq
<1> HIDE DEF t
<1>3. Parejas(t)
  <2> SUFFICES ASSUME NEW i \in 1..Len(t)
               PROVE  IF EsFin(t[i]) THEN i > 1 /\ t[i - 1] = <<t[i][1], 1>>
                                     ELSE i > 1 => EsFin(t[i - 1])
    BY DEF Parejas
  <2>1. CASE i <= Len(s)
    <3>1. i \in 1..Len(s) /\ (i > 1 => i - 1 \in 1..Len(s))
      BY <1>1, <2>1
    <3>2. t[i] = s[i] /\ (i > 1 => t[i - 1] = s[i - 1])
      BY <1>1, <3>1
    <3>3. IF EsFin(s[i]) THEN i > 1 /\ s[i - 1] = <<s[i][1], 1>>
                         ELSE i > 1 => EsFin(s[i - 1])
      BY <3>1 DEF Parejas
    <3> QED
      BY <3>2, <3>3
  <2>2. CASE i = Len(s) + 1
    <3>1. i - 1 = Len(s) /\ i > 1 /\ Len(s) \in 1..Len(s)
      BY <1>1, <2>2
    <3>2. t[i] = <<n, 2>> /\ t[i - 1] = <<n, 1>>
      BY <1>1, <2>2, <3>1
    <3> QED
      BY <1>0, <3>1, <3>2
  <2> QED
    BY <1>1, <2>1, <2>2
<1>4. Entero(t)
  BY <1>0, <1>1 DEF Entero
<1> QED
  BY <1>3, <1>4 DEF t

(* What is in hand: the pending half and then the buffer. *)
LEMMA LoQueHay ==
  ASSUME pendiente \in Seq(Celda), lector \in Seq(Celda)
  PROVE  /\ Len(pendiente) \in Nat /\ Len(lector) \in Nat
         /\ EnMano \in Seq(Celda)
         /\ Len(EnMano) = Len(pendiente) + Len(lector)
         /\ \A i \in 1..(Len(pendiente) + Len(lector)) :
              EnMano[i] = IF i <= Len(pendiente) THEN pendiente[i]
                          ELSE lector[i - Len(pendiente)]
BY ConcatProperties, LenProperties DEF EnMano

(* What one line needs of a sequence, whichever it is. *)
LEMMA LaLinea ==
  ASSUME NEW n \in 1..MaxLineas
  PROVE  /\ <<n, 1>> \in Celda /\ <<n, 2>> \in Celda
         /\ EsFin(<<n, 2>>) /\ ~ EsFin(<<n, 1>>)
         /\ Linea(n) \in Seq(Celda)
BY DEF Celda, EsFin, Linea

\* A half more in a file: what it leaves of the others.
LEMMA UnaCeldaMas ==
  ASSUME NEW s \in Seq(Celda), NEW c \in Celda
  PROVE  /\ Append(s, c) \in Seq(Celda) /\ Len(Append(s, c)) = Len(s) + 1
         /\ \A i \in 1..Len(s) : Append(s, c)[i] = s[i]
         /\ Append(s, c)[Len(s) + 1] = c
BY AppendProperties

\* Cowrie has written nothing and Seguidor.Run has opened nothing.
LEMMA InicioSeguidor == InitSeguidor => InductivoSeguidor
<1> SUFFICES ASSUME InitSeguidor PROVE InductivoSeguidor
  OBVIOUS
<1> USE SeguidorAssumption
<1>1. TypeOKSeguidor
  <2>1. 1 \in Fichero /\ 1 \in 0..MaxFicheros /\ <<>> \in Seq(Celda)
    BY EmptySeq DEF Fichero
  <2>2. /\ contenido \in [Fichero -> Seq(Celda)] /\ firma \in [Fichero -> Cabecera \cup {Vacia}]
        /\ epoca \in [Fichero -> 0..MaxTruncados]
    BY <2>1 DEF InitSeguidor
  <2>3. ruta \in 0..MaxFicheros /\ ficheros \in Fichero /\ abierto \in Fichero
        /\ lector \in Seq(Celda) /\ pendiente \in Seq(Celda)
    BY <2>1 DEF InitSeguidor
  <2>4. /\ huella \in Cabecera \cup {Vacia} /\ epocaVista \in 0..MaxTruncados
        /\ escritas \in 0..MaxLineas /\ pos \in Nat /\ leidos \in Nat
        /\ caidas \in 0..MaxCaidas
    BY DEF InitSeguidor
  <2>6. (\A l \in entregadas : l \in Seq(Celda)) /\ ciego \in BOOLEAN
    BY Zenon DEF InitSeguidor
  <2>5. pc \in Fase
    BY DEF InitSeguidor, Fase
  <2> QED
    BY <2>2, <2>3, <2>4, <2>5, <2>6 DEF TypeOKSeguidor
<1>2. \A f \in Fichero : contenido[f] = <<>>
  BY DEF InitSeguidor
<1>3. Parejas(<<>>) /\ Entero(<<>>)
  BY DEF Parejas, Entero
<1>4. LineasSeguidas
  <2>1. ruta <= ficheros /\ abierto <= ficheros /\ ruta # 0
    BY DEF InitSeguidor
  <2>2. ruta # 0 => ~ AMedias
    BY <1>2 DEF InitSeguidor, AMedias, Fichero
  <2> QED
    BY <1>2, <1>3, <2>1, <2>2 DEF LineasSeguidas
<1>5. EnMano = <<>>
  BY DEF InitSeguidor, EnMano
<1>6. LectorBien
  BY <1>3, <1>5 DEF InitSeguidor, LectorBien, Fichero
<1>7. TramoLeido
  BY DEF InitSeguidor, TramoLeido, EnVista
<1>8. SinMezclas
  BY DEF InitSeguidor, SinMezclas
<1> QED
  BY <1>1, <1>4, <1>6, <1>7, <1>8 DEF InductivoSeguidor

(* Whatever the writer does, what the reader has in hand stays as it was:  *)
(* either the file only grew, at its end, or it was truncated and is no    *)
(* longer the file that was opened.                                        *)
LEMMA EscribirNoMolesta ==
  ASSUME InductivoSeguidor, TypeOKSeguidor',
         UNCHANGED <<seguir, pc, entregadas, ciego>>,
         epoca[abierto] <= epoca'[abierto],
         epoca'[abierto] = epoca[abierto] =>
           /\ Len(contenido[abierto]) <= Len(contenido'[abierto])
           /\ \A i \in 1..Len(contenido[abierto]) :
                contenido'[abierto][i] = contenido[abierto][i]
           /\ firma[abierto] \in {Vacia, firma'[abierto]}
           /\ abierto # ruta => contenido'[abierto] = contenido[abierto],
         abierto = ruta' => abierto = ruta
  PROVE  LectorBien' /\ TramoLeido' /\ SinMezclas'
<1> USE DEF InductivoSeguidor
<1>0. abierto' = abierto /\ pos' = pos /\ lector' = lector /\ pendiente' = pendiente
      /\ leidos' = leidos /\ huella' = huella /\ epocaVista' = epocaVista
      /\ pc' = pc /\ entregadas' = entregadas /\ ciego' = ciego
  BY DEF seguir
<1>1. EnMano' = EnMano /\ Inicio' = Inicio
  BY <1>0 DEF EnMano, Inicio
<1>2. /\ abierto \in Fichero
      /\ epocaVista \in Nat /\ epoca[abierto] \in Nat /\ epoca'[abierto] \in Nat
      /\ pos \in Nat /\ contenido[abierto] \in Seq(Celda) /\ contenido'[abierto] \in Seq(Celda)
      /\ lector \in Seq(Celda) /\ pendiente \in Seq(Celda)
  BY <1>0, SeguidorAssumption DEF TypeOKSeguidor
<1>3. Len(contenido[abierto]) \in Nat /\ Len(contenido'[abierto]) \in Nat /\ Len(EnMano) \in Nat
  BY <1>2, LoQueHay, LenProperties
<1>4. EnVista' => EnVista /\ epoca'[abierto] = epoca[abierto]
  BY <1>0, <1>2 DEF EnVista, LectorBien
<1>5. LectorBien'
  <2>1. epocaVista <= epoca'[abierto]
    BY <1>2 DEF LectorBien
  <2>2. (EnVista' \/ ~ ciego) => Parejas(EnMano)
    BY <1>4 DEF LectorBien
  <2> QED
    BY <1>0, <1>1, <2>1, <2>2 DEF LectorBien
<1>6. TramoLeido'
  <2> SUFFICES ASSUME EnVista'
               PROVE  /\ Len(EnMano) <= pos /\ pos <= Len(contenido'[abierto])
                      /\ \A i \in 1..Len(EnMano) : EnMano[i] = contenido'[abierto][Inicio + i]
                      /\ Inicio > 0 => EsFin(contenido'[abierto][Inicio])
                      /\ \A i \in 1..Inicio : EsFin(contenido'[abierto][i]) =>
                           Linea(contenido'[abierto][i][1]) \in entregadas
                      /\ (abierto = ruta' /\ pc \in {"leer", "revisar", "firmar"}) =>
                           leidos = pos - Len(lector)
                      /\ huella \in {Vacia, firma'[abierto]}
                      /\ pc \in {"drenar", "abrir"} => abierto # ruta'
                      /\ pc = "abrir" => pos = Len(contenido'[abierto])
    BY <1>0, <1>1 DEF TramoLeido
  <2>0. EnVista /\ epoca'[abierto] = epoca[abierto]
    BY <1>4
  <2>1. /\ Len(contenido[abierto]) <= Len(contenido'[abierto])
        /\ \A i \in 1..Len(contenido[abierto]) : contenido'[abierto][i] = contenido[abierto][i]
        /\ firma[abierto] \in {Vacia, firma'[abierto]}
        /\ abierto # ruta => contenido'[abierto] = contenido[abierto]
    BY <2>0
  <2>2. /\ Len(EnMano) <= pos /\ pos <= Len(contenido[abierto])
        /\ \A i \in 1..Len(EnMano) : EnMano[i] = contenido[abierto][Inicio + i]
        /\ Inicio > 0 => EsFin(contenido[abierto][Inicio])
        /\ \A i \in 1..Inicio : EsFin(contenido[abierto][i]) =>
             Linea(contenido[abierto][i][1]) \in entregadas
        /\ (abierto = ruta /\ pc \in {"leer", "revisar", "firmar"}) => leidos = pos - Len(lector)
        /\ huella \in {Vacia, firma[abierto]}
        /\ pc \in {"drenar", "abrir"} => abierto # ruta
        /\ pc = "abrir" => pos = Len(contenido[abierto])
    BY <2>0 DEF TramoLeido
  <2>3. Inicio \in Nat /\ Inicio + Len(EnMano) = pos
    <3>1. Len(EnMano) <= pos
      BY <2>2
    <3> QED
      BY <1>2, <1>3, <3>1 DEF Inicio
  <2>4. \A i \in 1..Len(EnMano) : Inicio + i \in 1..Len(contenido[abierto])
    BY <1>2, <1>3, <2>2, <2>3
  <2>5. \A i \in 1..Len(EnMano) : EnMano[i] = contenido'[abierto][Inicio + i]
    BY <2>1, <2>2, <2>4
  <2>6. \A i \in 1..Inicio : i \in 1..Len(contenido[abierto])
    BY <1>2, <1>3, <2>2, <2>3
  <2>7. /\ Inicio > 0 => EsFin(contenido'[abierto][Inicio])
        /\ \A i \in 1..Inicio : EsFin(contenido'[abierto][i]) =>
             Linea(contenido'[abierto][i][1]) \in entregadas
    <3>1. Inicio > 0 => Inicio \in 1..Inicio
      BY <2>3
    <3>2. \A i \in 1..Inicio : contenido'[abierto][i] = contenido[abierto][i]
      BY <2>1, <2>6
    <3> QED
      BY <2>2, <3>1, <3>2
  <2>8. pos <= Len(contenido'[abierto])
    BY <1>2, <1>3, <2>1, <2>2
  <2>9. huella \in {Vacia, firma'[abierto]}
    BY <2>1, <2>2
  <2>10. pc \in {"drenar", "abrir"} => abierto # ruta'
    BY <2>2
  <2>11. pc = "abrir" => pos = Len(contenido'[abierto])
    BY <2>1, <2>2
  <2> QED
    BY <2>2, <2>5, <2>7, <2>8, <2>9, <2>10, <2>11
<1>7. SinMezclas'
  BY <1>0 DEF SinMezclas
<1> QED
  BY <1>5, <1>6, <1>7

\* Cowrie writes the first half of a line.
LEMMA EmpezarBien ==
  ASSUME InductivoSeguidor, NEW cab \in Cabecera, EmpezarLinea(cab)
  PROVE  InductivoSeguidor'
<1> USE SeguidorAssumption DEF InductivoSeguidor
<1> DEFINE viejo == contenido[ruta]
           n == escritas + 1
           nuevo == Append(viejo, <<n, 1>>)
<1>0. /\ ruta \in Fichero /\ viejo \in Seq(Celda) /\ n \in 1..MaxLineas
      /\ escritas \in Nat /\ Len(viejo) \in Nat
  BY LenProperties DEF EmpezarLinea, TypeOKSeguidor, Fichero
<1>1. Parejas(viejo) /\ Entero(viejo)
  <2>1. Parejas(viejo)
    BY <1>0 DEF LineasSeguidas
  <2>2. Entero(viejo)
    BY DEF EmpezarLinea, AMedias, Entero
  <2> QED
    BY <2>1, <2>2
<1>2. /\ nuevo \in Seq(Celda) /\ Len(nuevo) = Len(viejo) + 1
      /\ \A i \in 1..Len(viejo) : nuevo[i] = viejo[i]
      /\ nuevo[Len(viejo) + 1] = <<n, 1>>
  BY <1>0, LaLinea, UnaCeldaMas
<1>3. Parejas(nuevo)
  BY <1>0, <1>1, ParejasEmpezar
<1> HIDE DEF nuevo
<1>4. contenido' = [contenido EXCEPT ![ruta] = nuevo] /\ escritas' = n
  BY DEF EmpezarLinea, nuevo
<1>5. \A f \in Fichero : contenido'[f] = IF f = ruta THEN nuevo ELSE contenido[f]
  BY <1>4 DEF TypeOKSeguidor
<1>6. \A f \in Fichero : firma'[f] = firma[f] \/ (firma[f] = Vacia /\ firma'[f] \in Cabecera)
  BY DEF EmpezarLinea, TypeOKSeguidor
<1>7. ruta' = ruta /\ ficheros' = ficheros /\ epoca' = epoca
      /\ UNCHANGED <<seguir, pc, entregadas, ciego, caidas>>
  BY DEF EmpezarLinea
<1>8. TypeOKSeguidor'
  <2>1. contenido' \in [Fichero -> Seq(Celda)]
    BY <1>2, <1>4 DEF TypeOKSeguidor
  <2>2. firma' \in [Fichero -> Cabecera \cup {Vacia}]
    BY DEF EmpezarLinea, TypeOKSeguidor
  <2>3. escritas' \in 0..MaxLineas
    BY <1>0, <1>4
  <2> QED
    BY <1>7, <2>1, <2>2, <2>3 DEF TypeOKSeguidor, seguir
<1>9. LineasSeguidas'
  <2>1. ruta' <= ficheros' /\ abierto' <= ficheros' /\ (ruta' = 0 => ficheros' < MaxFicheros)
    BY <1>7 DEF LineasSeguidas, seguir
  <2>2. \A f \in Fichero : Parejas(contenido'[f]) /\ (f # ruta' => Entero(contenido'[f]))
    BY <1>3, <1>5, <1>7 DEF LineasSeguidas
  <2>3. contenido'[ruta'][Len(contenido'[ruta'])] = <<escritas', 1>>
    BY <1>0, <1>2, <1>4, <1>5, <1>7
  <2> QED
    BY <2>1, <2>2, <2>3 DEF LineasSeguidas
<1>10. LectorBien' /\ TramoLeido' /\ SinMezclas'
  <2>1. abierto \in Fichero /\ epoca[abierto] \in Nat
    BY DEF TypeOKSeguidor
  <2>2. Len(contenido[abierto]) \in Nat
    BY <2>1, LenProperties DEF TypeOKSeguidor
  <2>3. epoca[abierto] <= epoca'[abierto]
    BY <1>7, <2>1
  <2>4. /\ Len(contenido[abierto]) <= Len(contenido'[abierto])
        /\ \A i \in 1..Len(contenido[abierto]) : contenido'[abierto][i] = contenido[abierto][i]
        /\ abierto # ruta => contenido'[abierto] = contenido[abierto]
    BY <1>2, <1>5, <2>1, <2>2
  <2>5. firma[abierto] \in {Vacia, firma'[abierto]}
    BY <1>6, <2>1
  <2>6. abierto = ruta' => abierto = ruta
    BY <1>7
  <2>7. UNCHANGED <<seguir, pc, entregadas, ciego>>
    BY <1>7
  <2> QED
    BY <1>8, <2>3, <2>4, <2>5, <2>6, <2>7, EscribirNoMolesta
<1> QED
  BY <1>8, <1>9, <1>10

\* Cowrie writes the second half, and the line's end with it.
LEMMA AcabarBien ==
  ASSUME InductivoSeguidor, AcabarLinea
  PROVE  InductivoSeguidor'
<1> USE SeguidorAssumption DEF InductivoSeguidor
<1> DEFINE viejo == contenido[ruta]
           n == escritas
           nuevo == Append(viejo, <<n, 2>>)
<1>0. /\ ruta \in Fichero /\ viejo \in Seq(Celda) /\ Len(viejo) \in Nat
      /\ viejo # <<>> /\ viejo[Len(viejo)] = <<n, 1>>
  BY LenProperties DEF AcabarLinea, TypeOKSeguidor, Fichero, LineasSeguidas, AMedias
<1>1. n \in 1..MaxLineas
  <2>1. Len(viejo) \in 1..Len(viejo)
    BY <1>0, EmptySeq
  <2>2. <<n, 1>> \in Celda
    BY <1>0, <2>1, ElementOfSeq
  <2> QED
    BY <2>2 DEF Celda
<1>2. /\ nuevo \in Seq(Celda) /\ Len(nuevo) = Len(viejo) + 1
      /\ \A i \in 1..Len(viejo) : nuevo[i] = viejo[i]
      /\ nuevo[Len(viejo) + 1] = <<n, 2>>
  BY <1>0, <1>1, LaLinea, UnaCeldaMas
<1>3. Parejas(nuevo) /\ Entero(nuevo)
  <2>1. Parejas(viejo)
    BY <1>0 DEF LineasSeguidas
  <2> QED
    BY <1>0, <1>1, <2>1, ParejasAcabar
<1> HIDE DEF nuevo
<1>4. contenido' = [contenido EXCEPT ![ruta] = nuevo]
  BY DEF AcabarLinea, nuevo
<1>5. \A f \in Fichero : contenido'[f] = IF f = ruta THEN nuevo ELSE contenido[f]
  BY <1>4 DEF TypeOKSeguidor
<1>7. ruta' = ruta /\ ficheros' = ficheros /\ epoca' = epoca /\ firma' = firma
      /\ escritas' = escritas /\ UNCHANGED <<seguir, pc, entregadas, ciego, caidas>>
  BY DEF AcabarLinea
<1>8. TypeOKSeguidor'
  <2>1. contenido' \in [Fichero -> Seq(Celda)]
    BY <1>2, <1>4 DEF TypeOKSeguidor
  <2> QED
    BY <1>7, <2>1 DEF TypeOKSeguidor, seguir
<1>9. LineasSeguidas'
  <2>1. ruta' <= ficheros' /\ abierto' <= ficheros' /\ (ruta' = 0 => ficheros' < MaxFicheros)
    BY <1>7 DEF LineasSeguidas, seguir
  <2>2. \A f \in Fichero : Parejas(contenido'[f]) /\ (f # ruta' => Entero(contenido'[f]))
    BY <1>3, <1>5, <1>7 DEF LineasSeguidas
  <2>3. ~ AMedias'
    BY <1>0, <1>3, <1>5, <1>7 DEF AMedias, Entero
  <2> QED
    BY <2>1, <2>2, <2>3 DEF LineasSeguidas
<1>10. LectorBien' /\ TramoLeido' /\ SinMezclas'
  <2>1. abierto \in Fichero /\ epoca[abierto] \in Nat
    BY DEF TypeOKSeguidor
  <2>2. Len(contenido[abierto]) \in Nat
    BY <2>1, LenProperties DEF TypeOKSeguidor
  <2>3. epoca[abierto] <= epoca'[abierto]
    BY <1>7, <2>1
  <2>4. /\ Len(contenido[abierto]) <= Len(contenido'[abierto])
        /\ \A i \in 1..Len(contenido[abierto]) : contenido'[abierto][i] = contenido[abierto][i]
        /\ abierto # ruta => contenido'[abierto] = contenido[abierto]
    BY <1>2, <1>5, <2>1, <2>2
  <2>5. firma[abierto] \in {Vacia, firma'[abierto]}
    BY <1>7
  <2>6. (abierto = ruta' => abierto = ruta) /\ UNCHANGED <<seguir, pc, entregadas, ciego>>
    BY <1>7
  <2> QED
    BY <1>8, <2>3, <2>4, <2>5, <2>6, EscribirNoMolesta
<1> QED
  BY <1>8, <1>9, <1>10

(* Renaming moves no byte, and the new file is none that was ever open. *)
LEMMA RotarBien ==
  ASSUME InductivoSeguidor, Renombrar \/ CrearFichero
  PROVE  InductivoSeguidor'
<1> USE SeguidorAssumption DEF InductivoSeguidor
<1>0. /\ contenido' = contenido /\ firma' = firma /\ epoca' = epoca /\ escritas' = escritas
      /\ UNCHANGED <<seguir, pc, entregadas, ciego, caidas>>
  BY DEF Renombrar, CrearFichero
<1>1. /\ ruta \in 0..MaxFicheros /\ ficheros \in Fichero /\ abierto \in Fichero
      /\ ruta <= ficheros /\ abierto <= ficheros
  BY DEF TypeOKSeguidor, LineasSeguidas
<1>2. CASE Renombrar
  <2>1. ruta' = 0 /\ ficheros' = ficheros /\ ruta \in Fichero /\ ~ AMedias
        /\ ficheros < MaxFicheros
    BY <1>1, <1>2 DEF Renombrar, Fichero
  <2>2. TypeOKSeguidor'
    BY <1>0, <2>1 DEF TypeOKSeguidor, seguir
  <2>3. \A f \in Fichero : Parejas(contenido[f]) /\ Entero(contenido[f])
    BY <2>1 DEF LineasSeguidas, AMedias, Entero
  <2>4. LineasSeguidas'
    BY <1>0, <1>1, <2>1, <2>3 DEF LineasSeguidas, seguir, Fichero
  <2>5. abierto = ruta' => abierto = ruta
    BY <1>1, <2>1 DEF Fichero
  <2>6. Len(contenido[abierto]) \in Nat /\ epoca[abierto] \in Nat
    BY <1>1, LenProperties DEF TypeOKSeguidor
  <2>7. LectorBien' /\ TramoLeido' /\ SinMezclas'
    BY <1>0, <2>2, <2>5, <2>6, EscribirNoMolesta
  <2> QED
    BY <2>2, <2>4, <2>7
<1>3. CASE CrearFichero
  <2>1. ruta = 0 /\ ruta' = ficheros + 1 /\ ficheros' = ficheros + 1 /\ ficheros < MaxFicheros
    BY <1>3 DEF CrearFichero, LineasSeguidas
  <2>2. ruta' \in Fichero /\ ficheros' \in Fichero
    BY <1>1, <2>1 DEF Fichero
  <2>3. TypeOKSeguidor'
    BY <1>0, <2>1, <2>2 DEF TypeOKSeguidor, seguir, Fichero
  <2>4. \A f \in Fichero : Parejas(contenido[f]) /\ Entero(contenido[f])
    BY <2>1 DEF LineasSeguidas, Fichero
  <2>5. ~ AMedias'
    BY <1>0, <2>2, <2>4 DEF AMedias, Entero
  <2>6. ruta' <= ficheros' /\ abierto' <= ficheros' /\ ruta' # 0
    BY <1>0, <1>1, <2>1 DEF seguir, Fichero
  <2>7. LineasSeguidas'
    BY <1>0, <2>4, <2>5, <2>6 DEF LineasSeguidas
  <2>8. abierto # ruta'
    BY <1>1, <2>1 DEF Fichero
  <2>9. Len(contenido[abierto]) \in Nat /\ epoca[abierto] \in Nat
    BY <1>1, LenProperties DEF TypeOKSeguidor
  <2>10. LectorBien' /\ TramoLeido' /\ SinMezclas'
    BY <1>0, <2>3, <2>8, <2>9, EscribirNoMolesta
  <2> QED
    BY <2>3, <2>7, <2>10
<1> QED
  BY <1>2, <1>3

\* The file is cut in place (copytruncate): same inode, no contents.
LEMMA TruncarBien ==
  ASSUME InductivoSeguidor, Truncar
  PROVE  InductivoSeguidor'
<1> USE SeguidorAssumption DEF InductivoSeguidor
<1>0. /\ ruta' = ruta /\ ficheros' = ficheros /\ escritas' = escritas
      /\ UNCHANGED <<seguir, pc, entregadas, ciego, caidas>>
  BY DEF Truncar
<1>1. ruta \in Fichero /\ abierto \in Fichero
  BY DEF Truncar, TypeOKSeguidor, Fichero
<1>2. /\ \A f \in Fichero : contenido'[f] = IF f = ruta THEN <<>> ELSE contenido[f]
      /\ \A f \in Fichero : epoca'[f] = IF f = ruta THEN epoca[f] + 1 ELSE epoca[f]
      /\ \A f \in Fichero : f # ruta => firma'[f] = firma[f]
  BY <1>1 DEF Truncar, TypeOKSeguidor
<1>3. TypeOKSeguidor'
  <2>1. contenido' \in [Fichero -> Seq(Celda)]
    BY EmptySeq DEF Truncar, TypeOKSeguidor
  <2>2. firma' \in [Fichero -> Cabecera \cup {Vacia}]
    BY DEF Truncar, TypeOKSeguidor
  <2>3. epoca[ruta] \in 0..MaxTruncados /\ epoca[ruta] + 1 \in 0..MaxTruncados
    BY <1>1 DEF Truncar, TypeOKSeguidor
  <2>4. epoca' \in [Fichero -> 0..MaxTruncados]
    BY <2>3 DEF Truncar, TypeOKSeguidor
  <2> QED
    BY <1>0, <2>1, <2>2, <2>4 DEF TypeOKSeguidor, seguir
<1>4. LineasSeguidas'
  <2>1. Parejas(<<>>) /\ Entero(<<>>)
    BY DEF Parejas, Entero
  <2>2. \A f \in Fichero : Parejas(contenido'[f]) /\ (f # ruta' => Entero(contenido'[f]))
    BY <1>0, <1>2, <2>1 DEF LineasSeguidas
  <2>3. ~ AMedias'
    BY <1>0, <1>1, <1>2 DEF AMedias
  <2> QED
    BY <1>0, <2>2, <2>3 DEF LineasSeguidas, seguir
<1>5. LectorBien' /\ TramoLeido' /\ SinMezclas'
  <2>1. Len(contenido[abierto]) \in Nat /\ epoca[abierto] \in Nat
    BY <1>1, LenProperties DEF TypeOKSeguidor
  <2>2. CASE abierto = ruta
    <3>1. epoca[abierto] <= epoca'[abierto] /\ epoca'[abierto] # epoca[abierto]
      BY <1>1, <1>2, <2>1, <2>2
    <3> QED
      BY <1>0, <1>3, <2>2, <3>1, EscribirNoMolesta
  <2>3. CASE abierto # ruta
    <3>1. /\ epoca'[abierto] = epoca[abierto] /\ contenido'[abierto] = contenido[abierto]
          /\ firma'[abierto] = firma[abierto] /\ abierto # ruta'
      BY <1>0, <1>1, <1>2, <2>3
    <3> QED
      BY <1>0, <1>3, <2>1, <3>1, EscribirNoMolesta
  <2> QED
    BY <2>2, <2>3
<1> QED
  BY <1>3, <1>4, <1>5

\* What is left pending and what is read after it, one after the other.
LEMMA Junto ==
  ASSUME NEW p \in Seq(Celda), NEW l \in Seq(Celda)
  PROVE  /\ p \o l \in Seq(Celda) /\ Len(p \o l) = Len(p) + Len(l)
         /\ Len(p) \in Nat /\ Len(l) \in Nat
         /\ \A i \in 1..(Len(p) + Len(l)) :
              (p \o l)[i] = IF i <= Len(p) THEN p[i] ELSE l[i - Len(p)]
         /\ p \o <<>> = p /\ <<>> \o p = p
BY ConcatProperties, ConcatEmptySeq, LenProperties

\* A stretch of a file, cell by cell.
LEMMA Trozo ==
  ASSUME NEW s \in Seq(Celda), NEW a \in Nat, NEW b \in Nat, a <= b, b <= Len(s)
  PROVE  /\ SubSeq(s, a + 1, b) \in Seq(Celda)
         /\ Len(SubSeq(s, a + 1, b)) = b - a
         /\ \A i \in 1..(b - a) : SubSeq(s, a + 1, b)[i] = s[a + i]
<1>1. Len(s) \in Nat
  BY LenProperties
<1>2. \A i \in (a + 1)..b : s[i] \in Celda
  BY <1>1, ElementOfSeq
<1>3. /\ SubSeq(s, a + 1, b) \in Seq(Celda)
      /\ Len(SubSeq(s, a + 1, b)) = IF a + 1 <= b THEN b - (a + 1) + 1 ELSE 0
      /\ \A i \in 1..(b - (a + 1) + 1) : SubSeq(s, a + 1, b)[i] = s[a + 1 + i - 1]
  BY <1>2, SubSeqProperties
<1>4. \A i \in 1..(b - a) : i \in 1..(b - (a + 1) + 1) /\ a + 1 + i - 1 = a + i
  OBVIOUS
<1> QED
  BY <1>3, <1>4

(* What the reader keeps while the file is still the one it opened, with   *)
(* its lengths as numbers.                                                 *)
LEMMA ElTramo ==
  ASSUME InductivoSeguidor
  PROVE  /\ abierto \in Fichero /\ contenido[abierto] \in Seq(Celda)
         /\ Len(contenido[abierto]) \in Nat /\ pos \in Nat /\ leidos \in Nat
         /\ lector \in Seq(Celda) /\ Len(lector) \in Nat
         /\ pendiente \in Seq(Celda) /\ Len(pendiente) \in Nat
         /\ EnMano \in Seq(Celda) /\ Len(EnMano) = Len(pendiente) + Len(lector)
         /\ Parejas(contenido[abierto])
         /\ EnVista =>
              /\ Len(EnMano) <= pos /\ pos <= Len(contenido[abierto])
              /\ Inicio \in Nat /\ pos = Inicio + Len(EnMano)
              /\ \A i \in 1..Len(EnMano) : EnMano[i] = contenido[abierto][Inicio + i]
              /\ Inicio > 0 => EsFin(contenido[abierto][Inicio])
              /\ \A i \in 1..Inicio : EsFin(contenido[abierto][i]) =>
                   Linea(contenido[abierto][i][1]) \in entregadas
              /\ (abierto = ruta /\ pc \in {"leer", "revisar", "firmar"}) =>
                   leidos = pos - Len(lector)
              /\ huella \in {Vacia, firma[abierto]}
              /\ pc \in {"drenar", "abrir"} => abierto # ruta
              /\ pc = "abrir" => pos = Len(contenido[abierto])
<1> USE DEF InductivoSeguidor
<1>1. /\ abierto \in Fichero /\ contenido[abierto] \in Seq(Celda)
      /\ pos \in Nat /\ leidos \in Nat /\ lector \in Seq(Celda) /\ pendiente \in Seq(Celda)
  BY DEF TypeOKSeguidor
<1>2. /\ Len(contenido[abierto]) \in Nat /\ Len(lector) \in Nat /\ Len(pendiente) \in Nat
      /\ EnMano \in Seq(Celda) /\ Len(EnMano) = Len(pendiente) + Len(lector)
  BY <1>1, LoQueHay, LenProperties
<1>3. Parejas(contenido[abierto])
  BY <1>1 DEF LineasSeguidas
<1>4. EnVista => Len(EnMano) <= pos
  BY DEF TramoLeido
<1>5. EnVista => Inicio \in Nat /\ pos = Inicio + Len(EnMano)
  BY <1>1, <1>2, <1>4 DEF Inicio
<1> QED
  BY <1>1, <1>2, <1>3, <1>5 DEF TramoLeido

\* The reader's own steps leave the disk alone, and what is said of it holds after them.
LEMMA DiscoIgual ==
  ASSUME LineasSeguidas, UNCHANGED disco, abierto' <= ficheros
  PROVE  LineasSeguidas'
BY DEF LineasSeguidas, disco, AMedias

\* The open file, its cells and the positions in it have their types.
LEMMA TiposDelDisco ==
  ASSUME TypeOKSeguidor, UNCHANGED disco,
         abierto' \in Fichero, pc' \in Fase, pos' \in Nat, leidos' \in Nat,
         lector' \in Seq(Celda), pendiente' \in Seq(Celda),
         huella' \in Cabecera \cup {Vacia}, epocaVista' \in 0..MaxTruncados,
         \A l \in entregadas' : l \in Seq(Celda),
         ciego' \in BOOLEAN, caidas' \in 0..MaxCaidas
  PROVE  TypeOKSeguidor'
BY DEF TypeOKSeguidor, disco

\* bufio.Reader fills its buffer from the file's offset.
LEMMA LlenarBien ==
  ASSUME InductivoSeguidor, Llenar
  PROVE  InductivoSeguidor'
<1> USE SeguidorAssumption DEF InductivoSeguidor
<1> DEFINE s == contenido[abierto]
           libres == Bufer - Len(lector)
           n == IF Len(Resto) < libres THEN Len(Resto) ELSE libres
           t == SubSeq(Resto, 1, n)
<1>1. /\ s \in Seq(Celda) /\ Len(s) \in Nat /\ pos \in Nat
      /\ lector \in Seq(Celda) /\ Len(lector) \in Nat
      /\ pendiente \in Seq(Celda) /\ Len(pendiente) \in Nat
      /\ EnMano \in Seq(Celda) /\ Len(EnMano) = Len(pendiente) + Len(lector) /\ Parejas(s)
  BY ElTramo
<1>2. /\ lector' = lector \o t /\ pos' = pos + n
      /\ ciego' = (ciego \/ epocaVista # epoca[abierto])
      /\ pos < Len(s) /\ pc \in {"leer", "drenar"}
  <2>1. pos < Len(s)
    BY <1>1 DEF Llenar, AlFinal
  <2> QED
    BY <2>1 DEF Llenar
<1>3. /\ disco' = disco /\ pendiente' = pendiente /\ leidos' = leidos /\ huella' = huella
      /\ abierto' = abierto /\ epocaVista' = epocaVista /\ pc' = pc
      /\ entregadas' = entregadas /\ caidas' = caidas
      /\ ruta' = ruta /\ contenido' = contenido /\ epoca' = epoca /\ firma' = firma
  BY DEF Llenar, disco
<1>4. /\ Resto \in Seq(Celda) /\ Len(Resto) = Len(s) - pos
      /\ \A i \in 1..(Len(s) - pos) : Resto[i] = s[pos + i]
  <2>1. pos \in Nat /\ Len(s) \in Nat /\ pos <= Len(s) /\ Len(s) <= Len(s) /\ s \in Seq(Celda)
    BY <1>1, <1>2
  <2> HIDE DEF s
  <2>2. /\ SubSeq(s, pos + 1, Len(s)) \in Seq(Celda)
        /\ Len(SubSeq(s, pos + 1, Len(s))) = Len(s) - pos
        /\ \A i \in 1..(Len(s) - pos) : SubSeq(s, pos + 1, Len(s))[i] = s[pos + i]
    BY <2>1, Trozo
  <2> QED
    BY <2>2 DEF Resto, s
<1>5. n \in Nat /\ n <= Len(Resto) /\ Len(lector) + n <= Bufer /\ n <= Len(s) - pos
  <2>1. Len(lector) <= Bufer /\ Bufer \in Nat
    BY DEF LectorBien
  <2>2. libres \in Nat /\ Len(Resto) \in Nat
    BY <2>1, <1>1, <1>2, <1>4
  <2>3. n \in Nat /\ n <= Len(Resto) /\ n <= libres
    BY <2>2
  <2> QED
    BY <2>1, <2>3, <1>1, <1>4
<1>6. /\ t \in Seq(Celda) /\ Len(t) = n
      /\ \A i \in 1..n : t[i] = s[pos + i]
  <2>1. /\ SubSeq(Resto, 0 + 1, n) \in Seq(Celda)
        /\ Len(SubSeq(Resto, 0 + 1, n)) = n - 0
        /\ \A i \in 1..(n - 0) : SubSeq(Resto, 0 + 1, n)[i] = Resto[0 + i]
    BY <1>4, <1>5, Trozo
  <2>2. /\ SubSeq(Resto, 1, n) \in Seq(Celda)
        /\ Len(SubSeq(Resto, 1, n)) = n
        /\ \A i \in 1..n : SubSeq(Resto, 1, n)[i] = Resto[i]
    BY <2>1, <1>5
  <2>3. \A i \in 1..n : i \in 1..(Len(s) - pos)
    BY <1>1, <1>5
  <2> QED
    BY <2>2, <2>3, <1>4
<1> HIDE DEF n, t, libres
<1>7. /\ lector' \in Seq(Celda) /\ Len(lector') = Len(lector) + n
      /\ \A i \in 1..(Len(lector) + n) :
           lector'[i] = IF i <= Len(lector) THEN lector[i] ELSE t[i - Len(lector)]
  BY <1>1, <1>2, <1>6, Junto
<1>8. /\ EnMano' \in Seq(Celda) /\ Len(EnMano') = Len(pendiente) + Len(lector')
      /\ \A i \in 1..(Len(pendiente) + Len(lector')) :
           EnMano'[i] = IF i <= Len(pendiente) THEN pendiente[i]
                        ELSE lector'[i - Len(pendiente)]
  BY <1>1, <1>3, <1>7, Junto DEF EnMano
<1>9. \A i \in 1..(Len(pendiente) + Len(lector)) :
        EnMano[i] = IF i <= Len(pendiente) THEN pendiente[i] ELSE lector[i - Len(pendiente)]
  BY <1>1, LoQueHay
<1>10. /\ Len(EnMano') = Len(EnMano) + n
       /\ \A i \in 1..Len(EnMano) : EnMano'[i] = EnMano[i]
       /\ \A i \in 1..n : EnMano'[Len(EnMano) + i] = s[pos + i]
  <2>1. Len(EnMano') = Len(EnMano) + n
    BY <1>1, <1>5, <1>7, <1>8
  <2>2. ASSUME NEW i \in 1..Len(EnMano) PROVE EnMano'[i] = EnMano[i]
    <3>1. i \in 1..(Len(pendiente) + Len(lector)) /\ i \in 1..(Len(pendiente) + Len(lector'))
      BY <1>1, <1>5, <1>7
    <3>2. CASE i <= Len(pendiente)
      BY <1>8, <1>9, <3>1, <3>2
    <3>3. CASE ~ (i <= Len(pendiente))
      <4>1. i - Len(pendiente) \in 1..(Len(lector) + n) /\ i - Len(pendiente) <= Len(lector)
        BY <1>1, <1>5, <3>1, <3>3
      <4>2. lector'[i - Len(pendiente)] = lector[i - Len(pendiente)]
        BY <1>7, <4>1
      <4> QED
        BY <1>8, <1>9, <3>1, <3>3, <4>2
    <3> QED
      BY <3>2, <3>3
  <2>3. ASSUME NEW i \in 1..n PROVE EnMano'[Len(EnMano) + i] = s[pos + i]
    <3> DEFINE j == Len(EnMano) + i
    <3>1. /\ j \in 1..(Len(pendiente) + Len(lector')) /\ ~ (j <= Len(pendiente))
          /\ j - Len(pendiente) \in 1..(Len(lector) + n)
          /\ ~ (j - Len(pendiente) <= Len(lector))
          /\ (j - Len(pendiente)) - Len(lector) = i
      BY <1>1, <1>5, <1>7
    <3> HIDE DEF j
    <3>2. EnMano'[j] = lector'[j - Len(pendiente)]
      BY <3>1, <1>8
    <3>3. lector'[j - Len(pendiente)] = t[(j - Len(pendiente)) - Len(lector)]
      BY <3>1, <1>7
    <3>4. EnMano'[j] = t[i]
      BY <3>1, <3>2, <3>3
    <3> QED
      BY <3>4, <1>6 DEF j
  <2> QED
    BY <2>1, <2>2, <2>3
<1>11. EnVista' = EnVista
  BY <1>3 DEF EnVista
<1>12. ASSUME EnVista
       PROVE  /\ Inicio' = Inicio /\ Inicio \in Nat /\ Len(EnMano') <= pos' /\ pos' <= Len(s)
              /\ \A i \in 1..Len(EnMano') : EnMano'[i] = s[Inicio + i]
  <2>1. /\ Inicio \in Nat /\ pos = Inicio + Len(EnMano)
        /\ \A i \in 1..Len(EnMano) : EnMano[i] = s[Inicio + i]
    BY <1>12, ElTramo
  <2>2. Inicio' = pos' - Len(EnMano')
    BY DEF Inicio
  <2>3. Inicio' = Inicio /\ Len(EnMano') <= pos' /\ pos' <= Len(s)
    BY <1>1, <1>2, <1>5, <1>10, <2>1, <2>2
  <2>4. ASSUME NEW i \in 1..Len(EnMano') PROVE EnMano'[i] = s[Inicio + i]
    <3>1. CASE i <= Len(EnMano)
      <4>1. i \in 1..Len(EnMano)
        BY <1>1, <1>5, <1>10, <3>1
      <4> QED
        BY <1>10, <2>1, <4>1
    <3>2. CASE i > Len(EnMano)
      <4>1. /\ i - Len(EnMano) \in 1..n /\ Len(EnMano) + (i - Len(EnMano)) = i
            /\ pos + (i - Len(EnMano)) = Inicio + i
        BY <1>1, <1>5, <1>10, <2>1, <3>2
      <4> QED
        BY <4>1, <1>10
    <3> QED
      BY <1>1, <3>1, <3>2
  <2> QED
    BY <2>1, <2>3, <2>4
<1>13. TypeOKSeguidor'
  <2>1. pos' \in Nat
    BY <1>1, <1>2, <1>5
  <2>2. ciego' \in BOOLEAN
    BY <1>2 DEF TypeOKSeguidor
  <2> QED
    BY <1>3, <1>7, <2>1, <2>2 DEF TypeOKSeguidor, disco
<1>14. LineasSeguidas'
  BY <1>3, DiscoIgual DEF LineasSeguidas
<1>15. LectorBien'
  <2>1. ASSUME EnVista' \/ ~ ciego' PROVE Parejas(EnMano')
    <3>1. EnVista
      BY <1>2, <1>11, <2>1 DEF EnVista
    <3>2. Inicio > 0 => EsFin(s[Inicio])
      BY <3>1, ElTramo
    <3>3. Inicio + Len(EnMano') <= Len(s)
      BY <3>1, <1>1, <1>2, <1>5, <1>10, <1>12, ElTramo
    <3> QED
      BY <3>1, <3>2, <3>3, <1>1, <1>8, <1>12, ParejasTramo
  <2>2. Len(lector') <= Bufer
    BY <1>5, <1>7
  <2>3. pc' \notin {"revisar", "firmar", "abrir"}
    BY <1>2, <1>3
  <2>4. epocaVista' <= epoca'[abierto']
    BY <1>3 DEF LectorBien
  <2>5. \A i \in 1..Len(pendiente') : ~ EsFin(pendiente'[i])
    BY <1>3 DEF LectorBien
  <2> QED
    BY <2>1, <2>2, <2>3, <2>4, <2>5 DEF LectorBien
<1>16. TramoLeido'
  <2> SUFFICES ASSUME EnVista
               PROVE  /\ Len(EnMano') <= pos' /\ pos' <= Len(s)
                      /\ \A i \in 1..Len(EnMano') : EnMano'[i] = s[Inicio' + i]
                      /\ Inicio' > 0 => EsFin(s[Inicio'])
                      /\ \A i \in 1..Inicio' : EsFin(s[i]) => Linea(s[i][1]) \in entregadas
                      /\ (abierto = ruta /\ pc \in {"leer", "revisar", "firmar"}) =>
                           leidos = pos' - Len(lector')
                      /\ huella \in {Vacia, firma[abierto]}
                      /\ pc \in {"drenar", "abrir"} => abierto # ruta
                      /\ pc = "abrir" => pos' = Len(s)
    BY <1>3, <1>11 DEF TramoLeido
  <2>1. /\ Inicio > 0 => EsFin(s[Inicio])
        /\ \A i \in 1..Inicio : EsFin(s[i]) => Linea(s[i][1]) \in entregadas
        /\ (abierto = ruta /\ pc \in {"leer", "revisar", "firmar"}) => leidos = pos - Len(lector)
        /\ huella \in {Vacia, firma[abierto]}
        /\ pc \in {"drenar", "abrir"} => abierto # ruta
    BY ElTramo
  <2>2. pos - Len(lector) = pos' - Len(lector')
    BY <1>1, <1>2, <1>5, <1>7
  <2>3. pc # "abrir"
    BY <1>2
  <2> QED
    BY <1>12, <2>1, <2>2, <2>3
<1>17. SinMezclas'
  BY <1>2, <1>3 DEF SinMezclas
<1> QED
  BY <1>13, <1>14, <1>15, <1>16, <1>17

\* ReadBytes found an end of line: what was pending and this are a line, and are handed over.
LEMMA EntregarBien ==
  ASSUME InductivoSeguidor, Entregar
  PROVE  InductivoSeguidor'
<1> USE SeguidorAssumption DEF InductivoSeguidor
<1> DEFINE s == contenido[abierto]
           k == FinDeLinea
           linea == pendiente \o SubSeq(lector, 1, k)
           n == EnMano[2][1]
<1>1. /\ s \in Seq(Celda) /\ Len(s) \in Nat /\ pos \in Nat /\ leidos \in Nat
      /\ lector \in Seq(Celda) /\ Len(lector) \in Nat
      /\ pendiente \in Seq(Celda) /\ Len(pendiente) \in Nat
      /\ EnMano \in Seq(Celda) /\ Len(EnMano) = Len(pendiente) + Len(lector)
  BY ElTramo
<1>2. /\ entregadas' = entregadas \cup {linea}
      /\ lector' = SubSeq(lector, k + 1, Len(lector)) /\ pendiente' = <<>>
      /\ leidos' = IF pc = "leer" THEN leidos + k ELSE leidos
      /\ pc \in {"leer", "drenar"} /\ HayLinea
  BY DEF Entregar
<1>3. /\ disco' = disco /\ pos' = pos /\ huella' = huella
      /\ abierto' = abierto /\ epocaVista' = epocaVista /\ pc' = pc
      /\ ciego' = ciego /\ caidas' = caidas
      /\ ruta' = ruta /\ contenido' = contenido /\ epoca' = epoca /\ firma' = firma
  BY DEF Entregar, disco
<1>4. /\ k \in 1..Len(lector) /\ EsFin(lector[k])
      /\ \A j \in 1..(k - 1) : ~ EsFin(lector[j])
  BY <1>1, <1>2, PrimerFin
<1>5. \A i \in 1..Len(pendiente) : ~ EsFin(pendiente[i])
  BY DEF LectorBien
<1> HIDE DEF k
<1>6. k \in Nat /\ k >= 1 /\ k <= Len(lector)
  BY <1>1, <1>4
<1>7. /\ lector' \in Seq(Celda) /\ Len(lector') = Len(lector) - k
      /\ \A i \in 1..(Len(lector) - k) : lector'[i] = lector[k + i]
  BY <1>1, <1>2, <1>6, Trozo
<1>8. EnMano' = lector'
  BY <1>2, <1>7, Junto DEF EnMano
<1>9. ASSUME Parejas(EnMano)
      PROVE  /\ Len(pendiente) + k = 2 /\ linea = Linea(n) /\ n \in 1..MaxLineas
             /\ EsFin(EnMano[2]) /\ EnMano[1] = <<n, 1>> /\ Parejas(lector')
  <2>1. Parejas(pendiente \o lector)
    BY <1>9 DEF EnMano
  <2> QED
    BY <2>1, <1>1, <1>2, <1>4, <1>5, LineaEntera DEF EnMano
<1>10. linea \in Seq(Celda)
  <2>1. /\ SubSeq(lector, 0 + 1, k) \in Seq(Celda)
    BY <1>1, <1>6, Trozo
  <2>2. SubSeq(lector, 1, k) \in Seq(Celda)
    BY <2>1
  <2> QED
    BY <2>2, <1>1, Junto
<1> HIDE DEF linea, n
<1>11. EnVista' = EnVista
  BY <1>3 DEF EnVista
<1>12. TypeOKSeguidor'
  <2>1. leidos' \in Nat
    BY <1>1, <1>2, <1>6
  <2>2. \A l \in entregadas' : l \in Seq(Celda)
    BY <1>2, <1>10 DEF TypeOKSeguidor
  <2>3. pendiente' \in Seq(Celda)
    BY <1>2, EmptySeq
  <2> QED
    BY <1>3, <1>7, <2>1, <2>2, <2>3 DEF TypeOKSeguidor, disco
<1>13. LineasSeguidas'
  BY <1>3, DiscoIgual DEF LineasSeguidas
<1>14. LectorBien'
  <2>1. Len(lector') <= Bufer
    <3>1. Len(lector) <= Bufer
      BY DEF LectorBien
    <3> QED
      BY <3>1, <1>1, <1>6, <1>7
  <2>2. pc' \notin {"revisar", "firmar", "abrir"}
    BY <1>2, <1>3
  <2>3. epocaVista' <= epoca'[abierto']
    BY <1>3 DEF LectorBien
  <2>4. \A i \in 1..Len(pendiente') : ~ EsFin(pendiente'[i])
    BY <1>2
  <2>5. (EnVista' \/ ~ ciego') => Parejas(EnMano')
    BY <1>3, <1>8, <1>9, <1>11 DEF LectorBien
  <2> QED
    BY <2>1, <2>2, <2>3, <2>4, <2>5 DEF LectorBien
<1>15. TramoLeido'
  <2> SUFFICES ASSUME EnVista
               PROVE  /\ Len(EnMano') <= pos /\ pos <= Len(s)
                      /\ \A i \in 1..Len(EnMano') : EnMano'[i] = s[Inicio' + i]
                      /\ Inicio' > 0 => EsFin(s[Inicio'])
                      /\ \A i \in 1..Inicio' : EsFin(s[i]) => Linea(s[i][1]) \in entregadas'
                      /\ (abierto = ruta /\ pc \in {"leer", "revisar", "firmar"}) =>
                           leidos' = pos - Len(lector')
                      /\ huella \in {Vacia, firma[abierto]}
                      /\ pc \in {"drenar", "abrir"} => abierto # ruta
                      /\ pc = "abrir" => pos = Len(s)
    BY <1>3, <1>11 DEF TramoLeido
  <2>1. /\ Len(EnMano) <= pos /\ pos <= Len(s)
        /\ Inicio \in Nat /\ pos = Inicio + Len(EnMano)
        /\ \A i \in 1..Len(EnMano) : EnMano[i] = s[Inicio + i]
        /\ \A i \in 1..Inicio : EsFin(s[i]) => Linea(s[i][1]) \in entregadas
        /\ (abierto = ruta /\ pc \in {"leer", "revisar", "firmar"}) => leidos = pos - Len(lector)
        /\ huella \in {Vacia, firma[abierto]}
        /\ pc \in {"drenar", "abrir"} => abierto # ruta
    BY ElTramo
  <2>2. Parejas(EnMano)
    BY DEF LectorBien
  <2>3. /\ Len(pendiente) + k = 2 /\ linea = Linea(n)
        /\ EsFin(EnMano[2]) /\ EnMano[1] = <<n, 1>> /\ n = EnMano[2][1]
        /\ n \in 1..MaxLineas
    BY <2>2, <1>9 DEF n
  <2>4. Len(EnMano') = Len(EnMano) - 2 /\ Len(EnMano) >= 2
    BY <2>3, <1>1, <1>6, <1>7, <1>8
  <2>5. Inicio' = Inicio + 2
    <3>1. Inicio' = pos' - Len(EnMano')
      BY DEF Inicio
    <3> QED
      <4>1. Inicio \in Nat /\ pos = Inicio + Len(EnMano) /\ Len(EnMano) \in Nat
        BY <2>1, <1>1
      <4>2. Len(EnMano') = Len(EnMano) - 2 /\ pos' = pos
        BY <2>4, <1>3
      <4> QED
        BY <3>1, <4>1, <4>2
  <2>6. ASSUME NEW i \in 1..Len(EnMano') PROVE EnMano'[i] = s[Inicio' + i]
    <3>1. i \in 1..(Len(lector) - k) /\ EnMano'[i] = lector[k + i]
      BY <1>7, <1>8
    <3>2. /\ 2 + i \in 1..(Len(pendiente) + Len(lector)) /\ ~ (2 + i <= Len(pendiente))
          /\ (2 + i) - Len(pendiente) = k + i /\ 2 + i \in 1..Len(EnMano)
      BY <3>1, <2>3, <1>1, <1>6
    <3>3. EnMano[2 + i] = lector[(2 + i) - Len(pendiente)]
      BY <3>2, <1>1, LoQueHay
    <3>4. EnMano[2 + i] = s[Inicio + (2 + i)] /\ Inicio + (2 + i) = Inicio' + i
      BY <3>2, <2>1, <2>5
    <3> QED
      BY <3>1, <3>2, <3>3, <3>4
  <2>7. s[Inicio + 1] = <<n, 1>> /\ s[Inicio + 2] = EnMano[2]
    <3>1. 1 \in 1..Len(EnMano) /\ 2 \in 1..Len(EnMano)
      BY <2>4, <1>1
    <3> QED
      BY <3>1, <2>1, <2>3
  <2>8. ASSUME NEW i \in 1..Inicio', EsFin(s[i]) PROVE Linea(s[i][1]) \in entregadas'
    <3>1. i \in 1..Inicio \/ i = Inicio + 1 \/ i = Inicio + 2
      BY <2>1, <2>5
    <3>2. CASE i \in 1..Inicio
      BY <2>1, <2>8, <3>2, <1>2
    <3>3. CASE i = Inicio + 1
      BY <2>3, <2>7, <2>8, <3>3, LaLinea
    <3>4. CASE i = Inicio + 2
      BY <2>3, <2>7, <3>4, <1>2
    <3> QED
      BY <3>1, <3>2, <3>3, <3>4
  <2>9. (abierto = ruta /\ pc \in {"leer", "revisar", "firmar"}) => leidos' = pos - Len(lector')
    <3> SUFFICES ASSUME abierto = ruta, pc \in {"leer", "revisar", "firmar"}
                 PROVE  leidos' = pos - Len(lector')
      OBVIOUS
    <3>1. pc = "leer" /\ leidos = pos - Len(lector) /\ leidos' = leidos + k
      BY <2>1, <1>2
    <3> QED
      BY <3>1, <1>1, <1>6, <1>7
  <2>10. Len(EnMano') <= pos
    BY <2>1, <2>4, <1>1
  <2>11. EsFin(s[Inicio'])
    BY <2>3, <2>5, <2>7
  <2> QED
    BY <2>1, <2>6, <2>8, <2>9, <2>10, <2>11, <1>2
<1>16. SinMezclas'
  <2> SUFFICES ASSUME ~ ciego, NEW l \in entregadas'
               PROVE  \E m \in 1..MaxLineas : l = Linea(m)
    BY <1>3 DEF SinMezclas
  <2>1. Parejas(EnMano)
    BY DEF LectorBien
  <2>2. linea = Linea(n) /\ n \in 1..MaxLineas
    BY <2>1, <1>9
  <2> QED
    BY <2>2, <1>2 DEF SinMezclas
<1> QED
  BY <1>12, <1>13, <1>14, <1>15, <1>16

\* The end of the file with no end of line: what was read is kept in pendiente.
LEMMA EsperarBien ==
  ASSUME InductivoSeguidor, Esperar
  PROVE  InductivoSeguidor'
<1> USE SeguidorAssumption DEF InductivoSeguidor
<1>1. /\ pos \in Nat /\ leidos \in Nat /\ lector \in Seq(Celda) /\ Len(lector) \in Nat
      /\ pendiente \in Seq(Celda) /\ Len(pendiente) \in Nat
      /\ EnMano \in Seq(Celda)
  BY ElTramo
<1>2. /\ pendiente' = EnMano /\ lector' = <<>> /\ leidos' = leidos + Len(lector)
      /\ pc = "leer" /\ pc' = "revisar" /\ ~ HayLinea
  BY DEF Esperar, EnMano
<1>3. /\ disco' = disco /\ pos' = pos /\ huella' = huella
      /\ abierto' = abierto /\ epocaVista' = epocaVista /\ entregadas' = entregadas
      /\ ciego' = ciego /\ caidas' = caidas
      /\ ruta' = ruta /\ contenido' = contenido /\ epoca' = epoca /\ firma' = firma
  BY DEF Esperar, disco
<1>4. EnMano' = EnMano
  BY <1>1, <1>2, Junto DEF EnMano
<1>5. Inicio' = Inicio
  BY <1>3, <1>4 DEF Inicio
<1>6. EnVista' = EnVista
  BY <1>2, <1>3 DEF EnVista
<1>7. \A i \in 1..Len(EnMano) : ~ EsFin(EnMano[i])
  <2> TAKE i \in 1..Len(EnMano)
  <2>1. /\ i \in 1..(Len(pendiente) + Len(lector))
        /\ EnMano[i] = IF i <= Len(pendiente) THEN pendiente[i] ELSE lector[i - Len(pendiente)]
    BY <1>1, LoQueHay
  <2>2. CASE i <= Len(pendiente)
    BY <1>1, <2>1, <2>2 DEF LectorBien
  <2>3. CASE ~ (i <= Len(pendiente))
    <3>1. i - Len(pendiente) \in 1..Len(lector)
      BY <1>1, <2>1, <2>3
    <3> QED
      BY <1>2, <2>1, <2>3, <3>1 DEF HayLinea
  <2> QED
    BY <2>2, <2>3
<1>8. TypeOKSeguidor'
  <2>1. lector' \in Seq(Celda) /\ leidos' \in Nat /\ pc' \in Fase
    BY <1>1, <1>2, EmptySeq DEF Fase
  <2> QED
    BY <1>1, <1>2, <1>3, <2>1 DEF TypeOKSeguidor, disco
<1>9. LineasSeguidas'
  BY <1>3, DiscoIgual DEF LineasSeguidas
<1>10. LectorBien'
  BY <1>2, <1>3, <1>4, <1>6, <1>7 DEF LectorBien
<1>11. TramoLeido'
  <2>1. EnVista /\ abierto = ruta => leidos' = pos - Len(lector')
    <3> SUFFICES ASSUME EnVista, abierto = ruta PROVE leidos' = pos - Len(lector')
      OBVIOUS
    <3>1. leidos = pos - Len(lector) /\ Len(lector') = 0
      BY <1>2, ElTramo
    <3> QED
      BY <3>1, <1>1, <1>2
  <2> QED
    BY <1>2, <1>3, <1>4, <1>5, <1>6, <2>1 DEF TramoLeido
<1>12. SinMezclas'
  BY <1>3 DEF SinMezclas
<1> QED
  BY <1>8, <1>9, <1>10, <1>11, <1>12

(* Looking at the path: a file that is still the one that was opened is    *)
(* never shorter than what was read of it.                                 *)
LEMMA RevisarBien ==
  ASSUME InductivoSeguidor, Revisar
  PROVE  InductivoSeguidor'
<1> USE SeguidorAssumption DEF InductivoSeguidor
<1>1. /\ pos \in Nat /\ leidos \in Nat /\ pendiente \in Seq(Celda)
      /\ Len(contenido[abierto]) \in Nat
  BY ElTramo
<1>2. /\ disco' = disco /\ pos' = pos /\ huella' = huella /\ lector' = lector
      /\ abierto' = abierto /\ epocaVista' = epocaVista /\ entregadas' = entregadas
      /\ ciego' = ciego /\ caidas' = caidas /\ leidos' = leidos
      /\ ruta' = ruta /\ contenido' = contenido /\ epoca' = epoca /\ firma' = firma
      /\ pc = "revisar" /\ lector = <<>>
  BY DEF Revisar, disco, LectorBien
<1>3. \/ pc' \in {"leer", "drenar", "firmar"} /\ pendiente' = pendiente
      \/ pc' = "abrir" /\ pendiente' = <<>> /\ ruta = abierto /\ Len(contenido[ruta]) < leidos
  BY DEF Revisar
<1>4. EnVista' = EnVista
  BY <1>2, <1>3 DEF EnVista
<1>5. TypeOKSeguidor'
  <2>1. pendiente' \in Seq(Celda) /\ pc' \in Fase
    BY <1>1, <1>3, EmptySeq DEF Fase
  <2> QED
    BY <1>2, <2>1 DEF TypeOKSeguidor, disco
<1>6. LineasSeguidas'
  BY <1>2, DiscoIgual DEF LineasSeguidas
<1>7. SinMezclas'
  BY <1>2 DEF SinMezclas
<1>8. CASE pc' = "abrir"
  <2>1. pendiente' = <<>> /\ ruta = abierto /\ Len(contenido[abierto]) < leidos
    BY <1>3, <1>8
  <2>2. ~ EnVista
    <3> SUFFICES ASSUME EnVista PROVE FALSE
      OBVIOUS
    <3>1. leidos = pos - Len(lector) /\ pos <= Len(contenido[abierto]) /\ Len(lector) = 0
      BY <1>2, <2>1, ElTramo
    <3> QED
      BY <1>1, <2>1, <3>1
  <2>3. EnMano' = <<>> /\ Parejas(<<>>)
    BY <1>2, <2>1 DEF EnMano, Parejas
  <2>4. LectorBien'
    BY <1>2, <2>1, <2>3 DEF LectorBien
  <2>5. TramoLeido'
    BY <1>4, <2>2 DEF TramoLeido
  <2> QED
    BY <1>5, <1>6, <1>7, <2>4, <2>5
<1>9. CASE pc' \in {"leer", "drenar", "firmar"} /\ pendiente' = pendiente
  <2>1. EnMano' = EnMano /\ Inicio' = Inicio
    BY <1>2, <1>9 DEF EnMano, Inicio
  <2>2. LectorBien'
    BY <1>2, <1>4, <1>9, <2>1 DEF LectorBien
  <2>3. pc' = "drenar" => abierto # ruta
    BY DEF Revisar
  <2>4. TramoLeido'
    BY <1>2, <1>4, <1>9, <2>1, <2>3 DEF TramoLeido
  <2> QED
    BY <1>5, <1>6, <1>7, <2>2, <2>4
<1> QED
  BY <1>3, <1>8, <1>9

(* Reading the signature: only a file that was truncated shows another. *)
LEMMA FirmarBien ==
  ASSUME InductivoSeguidor, Firmar
  PROVE  InductivoSeguidor'
<1> USE SeguidorAssumption DEF InductivoSeguidor
<1>1. pendiente \in Seq(Celda) /\ abierto \in Fichero
      /\ firma[abierto] \in Cabecera \cup {Vacia}
  BY ElTramo DEF TypeOKSeguidor
<1>2. /\ disco' = disco /\ pos' = pos /\ lector' = lector
      /\ abierto' = abierto /\ epocaVista' = epocaVista /\ entregadas' = entregadas
      /\ caidas' = caidas /\ leidos' = leidos
      /\ ruta' = ruta /\ contenido' = contenido /\ epoca' = epoca /\ firma' = firma
      /\ pc = "firmar" /\ lector = <<>>
      /\ ciego' = (ciego \/ (pc' = "leer" /\ epocaVista # epoca[abierto]))
  BY DEF Firmar, disco, LectorBien
<1>3. \/ /\ pc' = "leer" /\ pendiente' = pendiente /\ huella' = firma[abierto]
      \/ /\ pc' = "abrir" /\ pendiente' = <<>> /\ huella' = huella
         /\ huella # Vacia /\ firma[abierto] # huella
  BY DEF Firmar
<1>4. EnVista' = EnVista
  BY <1>2, <1>3 DEF EnVista
<1>5. TypeOKSeguidor'
  <2>1. pendiente' \in Seq(Celda) /\ pc' \in Fase /\ huella' \in Cabecera \cup {Vacia}
    BY <1>1, <1>3, EmptySeq DEF Fase, TypeOKSeguidor
  <2>2. ciego' \in BOOLEAN
    BY <1>2 DEF TypeOKSeguidor
  <2> QED
    BY <1>2, <2>1, <2>2 DEF TypeOKSeguidor, disco
<1>6. LineasSeguidas'
  BY <1>2, DiscoIgual DEF LineasSeguidas
<1>7. SinMezclas'
  BY <1>2 DEF SinMezclas
<1>8. CASE pc' = "abrir"
  <2>1. pendiente' = <<>> /\ huella # Vacia /\ firma[abierto] # huella
    BY <1>3, <1>8
  <2>2. ~ EnVista
    BY <2>1, ElTramo
  <2>3. EnMano' = <<>> /\ Parejas(<<>>)
    BY <1>2, <2>1 DEF EnMano, Parejas
  <2>4. LectorBien'
    BY <1>2, <2>1, <2>3 DEF LectorBien
  <2>5. TramoLeido'
    BY <1>4, <2>2 DEF TramoLeido
  <2> QED
    BY <1>5, <1>6, <1>7, <2>4, <2>5
<1>9. CASE pc' = "leer"
  <2>1. pendiente' = pendiente /\ huella' = firma[abierto]
    BY <1>3, <1>9
  <2>2. EnMano' = EnMano /\ Inicio' = Inicio
    BY <1>2, <2>1 DEF EnMano, Inicio
  <2>3. ~ ciego' => ~ ciego
    BY <1>2
  <2>4. LectorBien'
    BY <1>2, <1>4, <1>9, <2>1, <2>2, <2>3 DEF LectorBien
  <2>5. TramoLeido'
    BY <1>2, <1>4, <1>9, <2>1, <2>2 DEF TramoLeido
  <2> QED
    BY <1>5, <1>6, <1>7, <2>4, <2>5
<1> QED
  BY <1>3, <1>8, <1>9

(* At the end of a renamed file nothing is in hand: its last line was      *)
(* whole, so the half that drenar throws away can only come from a         *)
(* truncation.                                                             *)
LEMMA DrenarBien ==
  ASSUME InductivoSeguidor, DrenarAcaba
  PROVE  InductivoSeguidor'
<1> USE SeguidorAssumption DEF InductivoSeguidor
<1> DEFINE s == contenido[abierto]
<1>1. /\ s \in Seq(Celda) /\ Len(s) \in Nat /\ pos \in Nat /\ leidos \in Nat
      /\ abierto \in Fichero
      /\ lector \in Seq(Celda) /\ Len(lector) \in Nat
      /\ pendiente \in Seq(Celda) /\ Len(pendiente) \in Nat
      /\ EnMano \in Seq(Celda) /\ Len(EnMano) = Len(pendiente) + Len(lector)
  BY ElTramo
<1>2. /\ disco' = disco /\ pos' = pos /\ huella' = huella
      /\ abierto' = abierto /\ epocaVista' = epocaVista /\ entregadas' = entregadas
      /\ ciego' = ciego /\ caidas' = caidas /\ leidos' = leidos
      /\ ruta' = ruta /\ contenido' = contenido /\ epoca' = epoca /\ firma' = firma
      /\ pc = "drenar" /\ pc' = "abrir" /\ pendiente' = <<>> /\ lector' = <<>>
      /\ ~ HayLinea /\ pos >= Len(s)
  BY DEF DrenarAcaba, disco, AlFinal
<1>3. EnVista' = EnVista
  BY <1>2 DEF EnVista
<1>4. EnMano' = <<>> /\ Parejas(<<>>) /\ Len(EnMano') = 0
  BY <1>2 DEF EnMano, Parejas
<1>5. TypeOKSeguidor'
  BY <1>2, EmptySeq DEF TypeOKSeguidor, disco, Fase
<1>6. LineasSeguidas'
  BY <1>2, DiscoIgual DEF LineasSeguidas
<1>7. LectorBien'
  BY <1>2, <1>4 DEF LectorBien
<1>8. TramoLeido'
  <2> SUFFICES ASSUME EnVista
               PROVE  /\ Len(EnMano') <= pos /\ pos <= Len(s)
                      /\ \A i \in 1..Len(EnMano') : EnMano'[i] = s[Inicio' + i]
                      /\ Inicio' > 0 => EsFin(s[Inicio'])
                      /\ \A i \in 1..Inicio' : EsFin(s[i]) => Linea(s[i][1]) \in entregadas
                      /\ huella \in {Vacia, firma[abierto]}
                      /\ abierto # ruta
                      /\ pos = Len(s)
    BY <1>2, <1>3 DEF TramoLeido
  <2>1. /\ Len(EnMano) <= pos /\ pos <= Len(s)
        /\ Inicio \in Nat /\ pos = Inicio + Len(EnMano)
        /\ \A i \in 1..Len(EnMano) : EnMano[i] = s[Inicio + i]
        /\ Inicio > 0 => EsFin(s[Inicio])
        /\ \A i \in 1..Inicio : EsFin(s[i]) => Linea(s[i][1]) \in entregadas
        /\ huella \in {Vacia, firma[abierto]}
        /\ abierto # ruta
    BY <1>2, ElTramo
  <2>2. pos = Len(s)
    BY <1>1, <1>2, <2>1
  <2>3. Len(EnMano) = 0
    <3> SUFFICES ASSUME Len(EnMano) > 0 PROVE FALSE
      BY <1>1
    <3> DEFINE m == Len(EnMano)
    <3>1. m \in 1..Len(EnMano) /\ Inicio + m = Len(s) /\ Len(s) > 0
      BY <1>1, <2>1, <2>2
    <3>2. EnMano[m] = s[Len(s)]
      BY <2>1, <3>1
    <3>3. EsFin(s[Len(s)])
      <4>1. Entero(s) /\ s # <<>>
        BY <1>1, <2>1, <3>1 DEF LineasSeguidas
      <4> QED
        BY <4>1 DEF Entero
    <3>4. EnMano[m] = IF m <= Len(pendiente) THEN pendiente[m] ELSE lector[m - Len(pendiente)]
      BY <1>1, <3>1, LoQueHay
    <3>5. CASE m <= Len(pendiente)
      <4>1. m \in 1..Len(pendiente)
        BY <1>1, <3>1, <3>5
      <4> QED
        BY <4>1, <3>2, <3>3, <3>4, <3>5 DEF LectorBien
    <3>6. CASE ~ (m <= Len(pendiente))
      <4>1. m - Len(pendiente) \in 1..Len(lector)
        BY <1>1, <3>1, <3>6
      <4> QED
        BY <4>1, <1>2, <3>2, <3>3, <3>4, <3>6 DEF HayLinea
    <3> QED
      BY <3>5, <3>6
  <2>4. Inicio = pos
    BY <1>1, <2>1, <2>3
  <2>5. Inicio' = pos
    <3>1. Inicio' = pos' - Len(EnMano')
      BY DEF Inicio
    <3> QED
      BY <3>1, <1>1, <1>2, <1>4
  <2>6. Inicio' = Inicio
    BY <2>4, <2>5
  <2>7. Inicio > 0 => EsFin(s[Inicio])
    BY <2>1
  <2>8. \A i \in 1..Inicio : EsFin(s[i]) => Linea(s[i][1]) \in entregadas
    BY <2>1
  <2>9. Len(EnMano') <= pos /\ pos <= Len(s) /\ 1..Len(EnMano') = {}
    BY <1>1, <1>4, <2>2
  <2> QED
    BY <2>1, <2>2, <2>6, <2>7, <2>8, <2>9
<1>9. SinMezclas'
  BY <1>2 DEF SinMezclas
<1> QED
  BY <1>5, <1>6, <1>7, <1>8, <1>9

(* Opening starts at the beginning of the file with nothing in hand, in    *)
(* its signature of that moment.                                           *)
LEMMA AbrirBien ==
  ASSUME InductivoSeguidor, ArrancarSeguidor \/ Reabrir
  PROVE  InductivoSeguidor'
<1> USE SeguidorAssumption DEF InductivoSeguidor
<1>1. /\ disco' = disco /\ entregadas' = entregadas /\ ciego' = ciego /\ caidas' = caidas
      /\ ruta' = ruta /\ contenido' = contenido /\ epoca' = epoca /\ firma' = firma
      /\ ruta # 0
      /\ abierto' = ruta /\ pos' = 0 /\ leidos' = 0 /\ lector' = <<>>
      /\ huella' = firma[ruta] /\ epocaVista' = epoca[ruta] /\ pc' = "leer"
  BY DEF ArrancarSeguidor, Reabrir, Desde, disco
<1>2. pendiente' = <<>>
  BY DEF ArrancarSeguidor, Reabrir, LectorBien
<1>3. /\ ruta \in Fichero /\ Len(contenido[ruta]) \in Nat
      /\ epoca[ruta] \in 0..MaxTruncados /\ firma[ruta] \in Cabecera \cup {Vacia}
  BY <1>1, LenProperties DEF TypeOKSeguidor, Fichero
<1>4. EnMano' = <<>> /\ Len(EnMano') = 0 /\ Parejas(<<>>)
  BY <1>1, <1>2 DEF EnMano, Parejas
<1>5. Inicio' = 0
  <2>1. Inicio' = pos' - Len(EnMano')
    BY DEF Inicio
  <2>2. pos' = 0
    BY <1>1
  <2>3. Len(EnMano') = 0
    BY <1>4
  <2> QED
    BY <2>1, <2>2, <2>3
<1>6. TypeOKSeguidor'
  BY <1>1, <1>2, <1>3, EmptySeq DEF TypeOKSeguidor, disco, Fase
<1>7. LineasSeguidas'
  BY <1>1, DiscoIgual DEF LineasSeguidas
<1>8. LectorBien'
  <2>1. epocaVista' <= epoca'[abierto']
    BY <1>1, <1>3
  <2>2. Len(lector') <= Bufer /\ \A i \in 1..Len(pendiente') : ~ EsFin(pendiente'[i])
    BY <1>1, <1>2
  <2> QED
    BY <1>1, <1>2, <1>4, <2>1, <2>2 DEF LectorBien
<1>9. TramoLeido'
  <2>1. Len(EnMano') <= pos' /\ pos' <= Len(contenido'[abierto']) /\ 1..Len(EnMano') = {}
        /\ 1..Inicio' = {} /\ ~ (Inicio' > 0)
    BY <1>1, <1>3, <1>4, <1>5
  <2>2. leidos' = pos' - Len(lector')
    <3>1. leidos' = 0 /\ pos' = 0
      BY <1>1
    <3>2. Len(lector') = 0
      BY <1>1
    <3> QED
      BY <3>1, <3>2
  <2> QED
    BY <1>1, <2>1, <2>2 DEF TramoLeido
<1>10. SinMezclas'
  BY <1>1 DEF SinMezclas
<1> QED
  BY <1>6, <1>7, <1>8, <1>9, <1>10

\* The open or the Stat failed: Run waits and tries again.
LEMMA FallarBien ==
  ASSUME InductivoSeguidor, ReabrirFalla \/ Caer
  PROVE  InductivoSeguidor'
<1> USE SeguidorAssumption DEF InductivoSeguidor
<1>1. /\ disco' = disco /\ entregadas' = entregadas /\ ciego' = ciego
      /\ ruta' = ruta /\ contenido' = contenido /\ epoca' = epoca /\ firma' = firma
      /\ UNCHANGED seguir /\ pc' \in {"leer", "parado"} /\ pc # "parado"
      /\ pc' = "leer" => ruta = 0
  BY DEF ReabrirFalla, Caer, disco
<1>2. EnMano' = EnMano /\ Inicio' = Inicio
  BY <1>1 DEF EnMano, Inicio, seguir
<1>3. EnVista' => EnVista /\ pc' = "leer"
  BY <1>1 DEF EnVista, seguir
<1>4. TypeOKSeguidor'
  <2>1. caidas' \in 0..MaxCaidas
    BY DEF ReabrirFalla, Caer, TypeOKSeguidor
  <2> QED
    BY <1>1, <2>1 DEF TypeOKSeguidor, disco, seguir, Fase
<1>5. LineasSeguidas'
  BY <1>1, DiscoIgual DEF LineasSeguidas, seguir
<1>6. LectorBien'
  BY <1>1, <1>2, <1>3 DEF LectorBien, seguir
<1>7. TramoLeido'
  <2>1. abierto # 0
    BY DEF TypeOKSeguidor, Fichero
  <2> QED
    BY <1>1, <1>2, <1>3, <2>1 DEF TramoLeido, seguir
<1>8. SinMezclas'
  BY <1>1 DEF SinMezclas
<1> QED
  BY <1>4, <1>5, <1>6, <1>7, <1>8

\* Every step of Cowrie, of the rotation and of the follower keeps it.
LEMMA PasoSeguidor == InductivoSeguidor /\ [NextSeguidor]_varsSeguidor => InductivoSeguidor'
<1> SUFFICES ASSUME InductivoSeguidor, [NextSeguidor]_varsSeguidor
             PROVE  InductivoSeguidor'
  OBVIOUS
<1>1. CASE Escritor
  BY <1>1, EmpezarBien, AcabarBien, RotarBien, TruncarBien DEF Escritor
<1>2. CASE Seguir
  BY <1>2, LlenarBien, EntregarBien, EsperarBien, RevisarBien, FirmarBien, DrenarBien,
     AbrirBien, FallarBien DEF Seguir
<1>3. CASE Caer
  BY <1>3, FallarBien
<1>4. CASE UNCHANGED varsSeguidor
  BY <1>4 DEF varsSeguidor, disco, seguir, InductivoSeguidor, TypeOKSeguidor, LineasSeguidas,
     LectorBien, TramoLeido, SinMezclas, EnVista, EnMano, Inicio, AMedias
<1> QED
  BY <1>1, <1>2, <1>3, <1>4 DEF NextSeguidor

(* Seguir ("nunca se entrega JSON truncado"): while no truncation has gone *)
(* unnoticed, what alLeer is given is one whole line of the log, whatever  *)
(* halves were read, files rotated and processes restarted in between.     *)
THEOREM NuncaJSONTruncado == SpecSeguidor => []SinMezclas
<1>1. InductivoSeguidor => SinMezclas
  BY DEF InductivoSeguidor
<1> QED
  BY InicioSeguidor, PasoSeguidor, <1>1, PTL DEF SpecSeguidor

(* drenar: when Seguir goes over to the new file every line of the old one *)
(* has been given to alLeer, those written between the last read and the   *)
(* renaming too.                                                           *)
THEOREM ElViejoSeAcaba == SpecSeguidor => NadaSeDeja
<1>1. InductivoSeguidor /\ [NextSeguidor]_varsSeguidor =>
        ((pc = "abrir" /\ abierto' # abierto /\ EnVista) =>
           \A n \in 1..MaxLineas : EnFichero(abierto, n) => Linea(n) \in entregadas)
  <2> SUFFICES ASSUME InductivoSeguidor, pc = "abrir", EnVista,
                      NEW n \in 1..MaxLineas, EnFichero(abierto, n)
               PROVE  Linea(n) \in entregadas
    OBVIOUS
  <2>1. PICK i \in 1..Len(contenido[abierto]) : contenido[abierto][i] = <<n, 2>>
    BY DEF EnFichero
  <2>2. /\ pos = Len(contenido[abierto]) /\ pos = Inicio + Len(EnMano)
        /\ \A j \in 1..Inicio : EsFin(contenido[abierto][j]) =>
             Linea(contenido[abierto][j][1]) \in entregadas
    BY ElTramo
  <2>3. EnMano = <<>>
    BY DEF InductivoSeguidor, LectorBien, EnMano
  <2>4. i \in 1..Inicio
    BY <2>2, <2>3, ElTramo
  <2>5. EsFin(contenido[abierto][i]) /\ contenido[abierto][i][1] = n
    BY <2>1 DEF EsFin
  <2> QED
    BY <2>2, <2>4, <2>5
<1> QED
  BY InicioSeguidor, PasoSeguidor, <1>1, PTL DEF SpecSeguidor, NadaSeDeja

-----------------------------------------------------------------------------
(* The traps.                                                              *)

\* The tables of the protocols, one by one: where each message may lead and
\* what it leaves registered (the handlers of internal/trampa).
LEMMA PasosSaludan ==
    ASSUME NEW t \in Saludan, NEW f \in Pasos(t)
    PROVE  f.pasa \in FasesDeSesion /\ f.pasa \notin {"libre", "espera"} /\ f.anota \in SUBSET Registros
<1>1. CASE t = "mysql"
  <2>1. f \in PasosMySQL
    BY <1>1 DEF Pasos
  <2>2. f.pasa \in {"ordenes", "fin"}
    BY <2>1 DEF PasosMySQL, LoginsMySQL, Paso
  <2>3. f.anota \in SUBSET Registros
    BY <2>1 DEF Registros, PasosMySQL, LoginsMySQL, Paso
  <2> QED
    BY <2>2, <2>3 DEF FasesDeSesion
<1>2. CASE t = "postgres"
  <2>1. f \in PasosPostgres
    BY <1>2 DEF Pasos
  <2>2. f.pasa \in {"arranque_en_claro", "clave_de_alguien", "clave_de_nadie", "ordenes", "fin"}
    BY <2>1 DEF PasosPostgres, ArranquesPG, Paso
  <2>3. f.anota \in SUBSET Registros
    BY <2>1 DEF Registros, PasosPostgres, ArranquesPG, Paso
  <2> QED
    BY <2>2, <2>3 DEF FasesDeSesion
<1>3. CASE t = "redis"
  <2>1. f \in PasosRedis
    BY <1>3 DEF Pasos
  <2>2. f.pasa \in {"ordenes", "fin"}
    BY <2>1 DEF PasosRedis, Paso
  <2>3. f.anota \in SUBSET Registros
    BY <2>1 DEF Registros, PasosRedis, Paso
  <2> QED
    BY <2>2, <2>3 DEF FasesDeSesion
<1>4. CASE t = "ftp"
  <2>1. f \in PasosFTP
    BY <1>4 DEF Pasos
  <2>2. f.pasa \in {"ordenes", "fin"}
    BY <2>1 DEF PasosFTP, Paso
  <2>3. f.anota \in SUBSET Registros
    BY <2>1 DEF Registros, PasosFTP, Paso
  <2> QED
    BY <2>2, <2>3 DEF FasesDeSesion
<1>5. CASE t = "smtp"
  <2>1. f \in PasosSMTP
    BY <1>5 DEF Pasos
  <2>2. f.pasa \in {"ordenes", "usuario", "clave_de_alguien", "clave_de_nadie", "ambas", "cuerpo", "fin"}
    BY <2>1 DEF PasosSMTP, Paso
  <2>3. f.anota \in SUBSET Registros
    BY <2>1 DEF Registros, PasosSMTP, Paso
  <2> QED
    BY <2>2, <2>3 DEF FasesDeSesion
<1>6. CASE t = "rdp"
  <2>1. f \in PasosRDP
    BY <1>6 DEF Pasos
  <2>2. f.pasa \in {"fin"}
    BY <2>1 DEF PasosRDP, Paso
  <2>3. f.anota \in SUBSET Registros
    BY <2>1 DEF Registros, PasosRDP, Paso
  <2> QED
    BY <2>2, <2>3 DEF FasesDeSesion
<1> QED
  BY <1>1, <1>2, <1>3, <1>4, <1>5, <1>6 DEF Saludan

\* The one request of what speaks HTTP ends the session and is registered.
LEMMA PasosHablanHTTP ==
    ASSUME NEW t \in HablanHTTP, NEW f \in Pasos(t)
    PROVE  f.pasa = "fin" /\ f.anota \in SUBSET Registros /\ f.anota # {} /\ "comando" \notin f.anota
<1>1. ASSUME NEW paginas, f \in Peticiones(paginas)
      PROVE  f.pasa = "fin" /\ f.anota \in SUBSET Registros /\ f.anota # {} /\ "comando" \notin f.anota
  <2>1. CASE f = Paso("peticion", "ilegible", {"conexion"}, "nada", "fin")
    BY <2>1 DEF Paso, Registros
  <2>2. CASE \E p \in paginas, extra \in SUBSET {"credenciales", "exploit"} :
               f = Paso("peticion", p[1],
                        {"peticion"} \cup extra \cup (IF p[2] THEN {"cebo"} ELSE {}), p[1], "fin")
    <3>1. PICK p \in paginas, extra \in SUBSET {"credenciales", "exploit"} :
            f = Paso("peticion", p[1],
                     {"peticion"} \cup extra \cup (IF p[2] THEN {"cebo"} ELSE {}), p[1], "fin")
      BY <2>2
    <3>2. f.pasa = "fin"
      BY <3>1 DEF Paso
    <3>3. f.anota = {"peticion"} \cup extra \cup (IF p[2] THEN {"cebo"} ELSE {})
      BY <3>1 DEF Paso
    <3> QED
      BY <3>2, <3>3 DEF Registros
  <2> QED
    BY <1>1, <2>1, <2>2 DEF Peticiones
<1>2. CASE t = "http"
  BY <1>1, <1>2 DEF Pasos, PasosHTTP
<1>3. CASE t = "elastic"
  BY <1>1, <1>3 DEF Pasos
<1>4. CASE t = "jenkins"
  BY <1>1, <1>4 DEF Pasos
<1>5. CASE t = "grafana"
  BY <1>1, <1>5 DEF Pasos
<1> QED
  BY <1>2, <1>3, <1>4, <1>5 DEF HablanHTTP

\* VNC registers the version, good or bad, and then asks for one thing only.
LEMMA PasosDeVNC ==
    ASSUME NEW f \in Pasos("vnc")
    PROVE  /\ f.pasa \in {"tipo", "fin"} /\ f.anota \in SUBSET Registros /\ "comando" \notin f.anota
           /\ f.en = "tipo" \/ "conexion" \in f.anota
<1>1. f \in PasosVNC
  BY DEF Pasos
<1> QED
  BY <1>1 DEF FasesDeSesion, Registros, PasosVNC, Paso

\* Docker goes on with its requests, MongoDB ends on what it does not speak,
\* and registers it.
LEMMA PasosDeDocker ==
    ASSUME NEW f \in Pasos("docker")
    PROVE  f.pasa \in FasesDeSesion /\ f.pasa \notin {"libre", "espera"} /\ f.anota \in SUBSET Registros
<1>1. f \in PasosDocker
  BY DEF Pasos
<1>2. f.pasa \in {"peticion", "fin"} /\ f.anota \in SUBSET Registros
  BY <1>1 DEF Registros, PasosDocker, Paso
<1> QED
  BY <1>2 DEF FasesDeSesion

\* MongoDB ends the session only with something registered.
LEMMA PasosDeMongo ==
    ASSUME NEW f \in Pasos("mongodb")
    PROVE  /\ f.pasa \in FasesDeSesion /\ f.pasa \notin {"libre", "espera"} /\ f.anota \in SUBSET Registros
           /\ f.pasa = "fin" => f.anota # {}
<1>1. f \in PasosMongo
  BY DEF Pasos
<1>2. f.pasa \in {"mensaje", "fin"} /\ f.anota \in SUBSET Registros
  BY <1>1 DEF Registros, PasosMongo, Paso
<1>3. f.pasa = "fin" => f.anota # {}
  BY <1>1 DEF PasosMongo, Paso
<1> QED
  BY <1>2, <1>3 DEF FasesDeSesion

\* Whatever the protocol, a message of its table leads to a phase of its own
\* and leaves the trace its kind of trap leaves.
LEMMA ElPasoDejaRastro ==
    ASSUME NEW s \in Atencion, DejaRastro(s), s.fase # "espera",
           NEW f \in Protocolos[s.trampa], f.en = s.fase,
           NEW d \in Atencion, d.fase = f.pasa, d.trampa = s.trampa, d.rastro = s.rastro \cup f.anota
    PROVE  DejaRastro(d)
<1>1. s.trampa \in Puesto /\ f \in Pasos(s.trampa) /\ s.fase # "libre"
  <2>1. s.trampa \in Puesto /\ s.fase \in FasesDeSesion
    BY DEF Atencion
  <2>2. f \in Pasos(s.trampa)
    BY <2>1 DEF Protocolos
  <2> QED
    BY <2>1, <2>2 DEF FasesDeSesion
<1>2. s.trampa \in Nativas
  BY <1>1, TrampasAssumption
<1>3. CASE s.trampa \in Saludan
  BY <1>1, <1>3, PasosSaludan DEF DejaRastro, Saludan, HablanHTTP
<1>4. CASE s.trampa \in HablanHTTP
  BY <1>1, <1>4, PasosHablanHTTP DEF DejaRastro, Saludan, HablanHTTP
<1>5. CASE s.trampa = "vnc"
  BY <1>1, <1>5, PasosDeVNC DEF DejaRastro, Saludan, HablanHTTP
<1>6. CASE s.trampa = "docker"
  BY <1>1, <1>6, PasosDeDocker DEF DejaRastro, Saludan, HablanHTTP
<1>7. CASE s.trampa = "mongodb"
  BY <1>1, <1>7, PasosDeMongo DEF DejaRastro, Saludan, HablanHTTP
<1> QED
  BY <1>2, <1>3, <1>4, <1>5, <1>6, <1>7 DEF Nativas, Saludan, HablanHTTP

\* The types of what a message leaves.
LEMMA TiposDelPaso ==
    ASSUME NEW t \in Puesto, NEW f \in Protocolos[t]
    PROVE  f.pasa \in FasesDeSesion /\ f.pasa \notin {"libre", "espera"} /\ f.anota \in SUBSET Registros
<1>1. f \in Pasos(t) /\ t \in Nativas
  BY TrampasAssumption DEF Protocolos
<1>2. CASE t \in Saludan
  BY <1>1, <1>2, PasosSaludan
<1>3. CASE t \in HablanHTTP
  BY <1>1, <1>3, PasosHablanHTTP DEF FasesDeSesion
<1>4. CASE t = "vnc"
  BY <1>1, <1>4, PasosDeVNC DEF FasesDeSesion
<1>5. CASE t = "docker"
  BY <1>1, <1>5, PasosDeDocker
<1>6. CASE t = "mongodb"
  BY <1>1, <1>6, PasosDeMongo
<1> QED
  BY <1>1, <1>2, <1>3, <1>4, <1>5, <1>6 DEF Nativas, Saludan, HablanHTTP

\* A read that fails leaves, on the way out, what the trap had not noted yet.
LEMMA ElCorteDejaRastro ==
    ASSUME NEW s \in Atencion, DejaRastro(s), s.fase \notin {"espera", "fin"},
           NEW d \in Atencion, d.fase = "fin", d.trampa = s.trampa,
           d.rastro = s.rastro \cup AlFallar(s.trampa, s.fase)
    PROVE  DejaRastro(d)
<1>1. s.trampa \in Nativas /\ s.fase # "libre"
  <2>1. s.trampa \in Puesto /\ s.fase \in FasesDeSesion
    BY DEF Atencion
  <2> QED
    BY <2>1, TrampasAssumption DEF FasesDeSesion
<1>2. CASE s.trampa \in Saludan
  BY <1>1, <1>2 DEF DejaRastro, Saludan, HablanHTTP
<1>3. CASE s.trampa \in HablanHTTP
  <2>1. AlFallar(s.trampa, s.fase) = {"conexion"}
    BY <1>3 DEF AlFallar, HablanHTTP
  <2> QED
    BY <1>1, <1>3, <2>1 DEF DejaRastro, Saludan, HablanHTTP
<1>4. CASE s.trampa = "vnc"
  <2>1. s.fase = "version" => AlFallar(s.trampa, s.fase) = {"conexion"}
    BY <1>4 DEF AlFallar
  <2>2. s.fase = "tipo" => AlFallar(s.trampa, s.fase) = {}
    BY <1>4 DEF AlFallar
  <2> QED
    BY <1>1, <1>4, <2>1, <2>2 DEF DejaRastro, Saludan, HablanHTTP
<1>5. CASE s.trampa = "docker"
  BY <1>1, <1>5 DEF DejaRastro, Saludan, HablanHTTP
<1>6. CASE s.trampa = "mongodb"
  <2>1. AlFallar(s.trampa, s.fase) = {"conexion"}
    BY <1>6 DEF AlFallar
  <2> QED
    BY <1>1, <1>6, <2>1 DEF DejaRastro, Saludan, HablanHTTP
<1> QED
  BY <1>1, <1>2, <1>3, <1>4, <1>5, <1>6 DEF Nativas, Saludan, HablanHTTP

\* What is registered on the way out are names.
LEMMA TiposDelCorte ==
    ASSUME NEW t, NEW f
    PROVE  AlFallar(t, f) \in SUBSET Registros
BY DEF AlFallar, Registros

\* Where each handler starts, and what it notes at once.
LEMMA LaEntrada ==
    ASSUME NEW t \in Puesto
    PROVE  /\ Entrada(t) \in FasesDeSesion /\ Entrada(t) \notin {"libre", "espera"}
           /\ AlEntrar(t) \in SUBSET Registros
<1>1. t \in Nativas
  BY TrampasAssumption
<1>2. CASE t \in Saludan
  BY <1>2 DEF Saludan, Entrada, AlEntrar, FasesDeSesion, Registros
<1>3. CASE t \in Nativas \ Saludan
  BY <1>3 DEF Saludan, Nativas, Entrada, AlEntrar, FasesDeSesion, Registros
<1> QED
  BY <1>1, <1>2, <1>3

\* Who greets notes the arrival when it begins, and nobody begins at the end.
LEMMA LaEntradaDejaRastro ==
    ASSUME NEW t \in Puesto,
           NEW d, d.fase = Entrada(t), d.trampa = t, d.rastro = AlEntrar(t)
    PROVE  DejaRastro(d)
<1>1. t \in Nativas
  BY TrampasAssumption
<1>2. CASE t \in Saludan
  BY <1>2 DEF DejaRastro, Saludan, HablanHTTP, Entrada, AlEntrar
<1>3. CASE t \in Nativas \ Saludan
  BY <1>3 DEF DejaRastro, Saludan, HablanHTTP, Nativas, Entrada, AlEntrar
<1> QED
  BY <1>1, <1>2, <1>3

\* A session in progress has a trap and a phase.
LEMMA EnCurso ==
    ASSUME TypeOKTrampas, NEW c \in Conexion, sesion[c] # Nadie
    PROVE  /\ sesion[c] \in Atencion /\ sesion[c].fase # "libre" /\ sesion[c].trampa \in Puesto
           /\ sesion[c].rastro \in SUBSET Registros
BY DEF TypeOKTrampas, Atencion, FasesDeSesion

\* What a session becomes when only where it is and what it registered change ...
Movida(s, f, r) == [s EXCEPT !.fase = f, !.rastro = r]
\* ... when what is left to it changes too ...
Gastada(s, f, r, q, z) == [s EXCEPT !.fase = f, !.rastro = r, !.queda = q, !.plazo = z]
\* ... and when it has all its time again.
Renovada(s, f, z, r) == [s EXCEPT !.fase = f, !.plazo = z, !.rastro = r]

\* A session that moves is still a session, of the same trap (lectorLimitado
\* and the handlers change nothing else of it).
LEMMA OtraFase ==
    ASSUME NEW s \in Atencion, NEW f \in FasesDeSesion, NEW r \in SUBSET Registros
    PROVE  LET d == Movida(s, f, r) IN
           d \in Atencion /\ d.fase = f /\ d.trampa = s.trampa /\ d.rastro = r
<1> DEFINE e == [s EXCEPT !.fase = f]
           d == [e EXCEPT !.rastro = r]
<1>1. e \in Atencion /\ e.fase = f /\ e.trampa = s.trampa
  BY DEF Atencion
<1> HIDE DEF e
<1>2. d \in Atencion /\ d.fase = f /\ d.trampa = s.trampa /\ d.rastro = r
  BY <1>1 DEF Atencion
<1>3. Movida(s, f, r) = d
  BY DEF e, Movida
<1> QED
  BY <1>2, <1>3

\* ... with what is left to it ...
LEMMA OtroResto ==
    ASSUME NEW s \in Atencion, NEW f \in FasesDeSesion, NEW r \in SUBSET Registros,
           NEW z \in 0..Plazo, NEW q \in 0..Presupuesto
    PROVE  LET d == Gastada(s, f, r, q, z) IN
           d \in Atencion /\ d.fase = f /\ d.trampa = s.trampa /\ d.rastro = r
<1> DEFINE e == Movida(s, f, r)
           g == [e EXCEPT !.queda = q]
           d == [g EXCEPT !.plazo = z]
<1>1. e \in Atencion /\ e.fase = f /\ e.trampa = s.trampa /\ e.rastro = r
  BY OtraFase
<1> HIDE DEF e
<1>2. g \in Atencion /\ g.fase = f /\ g.trampa = s.trampa /\ g.rastro = r
  BY <1>1 DEF Atencion
<1> HIDE DEF g
<1>3. d \in Atencion /\ d.fase = f /\ d.trampa = s.trampa /\ d.rastro = r
  BY <1>2 DEF Atencion
<1>4. Gastada(s, f, r, q, z) = d
  BY DEF e, g, Movida, Gastada
<1> QED
  BY <1>3, <1>4

\* ... or when the login that never came starts the orders.
LEMMA OtroPlazo ==
    ASSUME NEW s \in Atencion, NEW f \in FasesDeSesion, NEW r \in SUBSET Registros,
           NEW z \in 0..Plazo
    PROVE  LET d == Renovada(s, f, z, r) IN
           d \in Atencion /\ d.fase = f /\ d.trampa = s.trampa /\ d.rastro = r
<1> DEFINE e == [s EXCEPT !.fase = f]
           g == [e EXCEPT !.plazo = z]
           d == [g EXCEPT !.rastro = r]
<1>1. e \in Atencion /\ e.fase = f /\ e.trampa = s.trampa
  BY DEF Atencion
<1> HIDE DEF e
<1>2. g \in Atencion /\ g.fase = f /\ g.trampa = s.trampa
  BY <1>1 DEF Atencion
<1> HIDE DEF g
<1>3. d \in Atencion /\ d.fase = f /\ d.trampa = s.trampa /\ d.rastro = r
  BY <1>2 DEF Atencion
<1>4. Renovada(s, f, z, r) = d
  BY DEF e, g, Renovada
<1> QED
  BY <1>3, <1>4

\* A step inside a session keeps its slot.
LEMMA MismaRanura ==
    ASSUME TypeOKTrampas, Ranuras, UNCHANGED huecos, NEW c \in Conexion, sesion[c] # Nadie,
           NEW d \in Atencion, d.trampa = sesion[c].trampa, sesion' = [sesion EXCEPT ![c] = d]
    PROVE  Ranuras'
<1>1. d.fase # "libre" /\ sesion[c].fase # "libre"
  BY EnCurso DEF Atencion, FasesDeSesion
<1>2. ASSUME NEW t \in Puesto PROVE Atendidas(t)' = Atendidas(t)
  BY <1>1 DEF Atendidas, TypeOKTrampas
<1> QED
  BY <1>2 DEF Ranuras

\* A connection that comes in takes a slot of its trap.
LEMMA UnaRanuraMas ==
    ASSUME TypeOKTrampas, Ranuras, NEW c \in Conexion, sesion[c] = Nadie,
           NEW d \in Atencion, sesion' = [sesion EXCEPT ![c] = d],
           huecos' = [huecos EXCEPT ![d.trampa] = @ + 1]
    PROVE  Ranuras'
<1>1. d.fase # "libre" /\ d.trampa \in Puesto
  BY DEF Atencion, FasesDeSesion
<1>2. ASSUME NEW t \in Puesto PROVE IsFiniteSet(Atendidas(t)') /\ huecos'[t] = Cardinality(Atendidas(t)')
  <2>0. IsFiniteSet(Atendidas(t)) /\ huecos[t] = Cardinality(Atendidas(t)) /\ c \notin Atendidas(t)
    BY DEF Ranuras, Atendidas, Nadie
  <2>1. CASE t = d.trampa
    <3>1. Atendidas(t)' = Atendidas(t) \cup {c}
      BY <1>1, <2>1 DEF Atendidas, TypeOKTrampas
    <3>2. huecos'[t] = huecos[t] + 1
      BY <1>1, <2>1 DEF TypeOKTrampas
    <3> QED
      BY <2>0, <3>1, <3>2, FS_AddElement
  <2>2. CASE t # d.trampa
    <3>1. Atendidas(t)' = Atendidas(t)
      BY <2>2 DEF Atendidas, TypeOKTrampas, Nadie
    <3>2. huecos'[t] = huecos[t]
      BY <1>1, <2>2 DEF TypeOKTrampas
    <3> QED
      BY <2>0, <3>1, <3>2
  <2> QED
    BY <2>1, <2>2
<1> QED
  BY <1>2 DEF Ranuras

\* One that ends, however it ends, gives its slot back; it held one.
LEMMA UnaRanuraMenos ==
    ASSUME TypeOKTrampas, Ranuras, NEW c \in Conexion, sesion[c] # Nadie,
           sesion' = [sesion EXCEPT ![c] = Nadie],
           huecos' = [huecos EXCEPT ![sesion[c].trampa] = @ - 1]
    PROVE  Ranuras' /\ huecos' \in [Puesto -> 0..MaxSimultaneas]
<1> DEFINE u == sesion[c].trampa
<1>1. sesion[c].fase # "libre" /\ u \in Puesto
  BY EnCurso
<1>2. ASSUME NEW t \in Puesto
      PROVE  /\ IsFiniteSet(Atendidas(t)') /\ huecos'[t] = Cardinality(Atendidas(t)')
             /\ huecos'[t] \in 0..MaxSimultaneas
  <2>0. /\ IsFiniteSet(Atendidas(t)) /\ huecos[t] = Cardinality(Atendidas(t))
        /\ huecos[t] \in 0..MaxSimultaneas
    BY DEF Ranuras, TypeOKTrampas
  <2>1. CASE t = u
    <3>1. Atendidas(t)' = Atendidas(t) \ {c} /\ c \in Atendidas(t)
      BY <1>1, <2>1 DEF Atendidas, TypeOKTrampas, Nadie
    <3>2. huecos'[t] = huecos[t] - 1
      BY <1>1, <2>1 DEF TypeOKTrampas
    <3>3. IsFiniteSet(Atendidas(t)') /\ Cardinality(Atendidas(t)') = Cardinality(Atendidas(t)) - 1
      BY <2>0, <3>1, FS_RemoveElement
    <3>4. Cardinality(Atendidas(t)') \in Nat
      BY <3>3, FS_CardinalityType
    <3> QED
      BY <2>0, <3>2, <3>3, <3>4, TrampasAssumption
  <2>2. CASE t # u
    <3>1. Atendidas(t)' = Atendidas(t)
      BY <2>2 DEF Atendidas, TypeOKTrampas, Nadie
    <3>2. huecos'[t] = huecos[t]
      BY <1>1, <2>2 DEF TypeOKTrampas
    <3> QED
      BY <2>0, <3>1, <3>2
  <2> QED
    BY <2>1, <2>2
<1>3. DOMAIN huecos' = Puesto /\ huecos' = [t \in Puesto |-> huecos'[t]]
  BY DEF TypeOKTrampas
<1> QED
  BY <1>2, <1>3 DEF Ranuras

\* One session moves on: types and traces.
LEMMA UnaSesion ==
    ASSUME TypeOKTrampas, \A x \in Conexion : DejaRastro(sesion[x]), NEW c \in Conexion,
           NEW d \in Atencion \cup {Nadie}, DejaRastro(d), sesion' = [sesion EXCEPT ![c] = d]
    PROVE  /\ sesion' \in [Conexion -> Atencion \cup {Nadie}]
           /\ \A x \in Conexion : DejaRastro(sesion'[x])
<1>1. sesion \in [Conexion -> Atencion \cup {Nadie}]
  BY DEF TypeOKTrampas
<1>2. \A x \in Conexion : sesion'[x] = IF x = c THEN d ELSE sesion[x]
  BY <1>1
<1>3. sesion' \in [Conexion -> Atencion \cup {Nadie}]
  BY <1>1
<1> QED
  BY <1>2, <1>3

\* Nobody has left nothing yet.
LEMMA NadieSinTraza == DejaRastro(Nadie)
BY DEF DejaRastro, Nadie, Saludan, HablanHTTP

\* The wait is never longer than the longest punishment (escaladoTarpit).
LEMMA EsperaAcotada ==
    ASSUME NEW n \in Nat
    PROVE  escaladoTarpit(n) \in 0..TarpitTope
BY TrampasAssumption DEF escaladoTarpit

\* The pruning only forgives addresses that are out of the window, and one
\* more contact counts the same for the memory and for the chain
\* (recuerdo.go: esperar, podarSiToca).
LEMMA RecordarBien ==
    ASSUME TypeOKTrampas, Memoria, NEW a \in Visitante,
           vistos' = Recordar(vistos, a), cadena' = [cadena EXCEPT ![a] = Contacto(@)]
    PROVE  /\ Memoria' /\ DOMAIN vistos' \subseteq Visitante
           /\ cadena' \in [Visitante -> Visitas] /\ vistos'[a] \in Visitas
<1> DEFINE p == podarSiToca(vistos)
<1>0. cadena \in [Visitante -> Visitas] /\ DOMAIN vistos \subseteq Visitante
  BY DEF TypeOKTrampas
<1>1. /\ DOMAIN p \subseteq DOMAIN vistos /\ \A b \in DOMAIN p : p[b] = cadena[b]
      /\ \A b \in Visitante : cadena[b].edad <= VentanaOlvido => b \in DOMAIN p
  <2>1. CASE Cardinality(DOMAIN vistos) < MaxRecordados
    BY <2>1 DEF podarSiToca, Memoria
  <2>2. CASE ~(Cardinality(DOMAIN vistos) < MaxRecordados)
    BY <2>2 DEF podarSiToca, Memoria
  <2> QED
    BY <2>1, <2>2
<1>2. cadena[a] \in Visitas /\ Contacto(cadena[a]) \in Visitas
  BY <1>0 DEF Visitas, Contacto
<1>3. Contacto(Visita(p, a)) = Contacto(cadena[a])
  <2>1. CASE a \in DOMAIN p
    BY <1>1, <2>1 DEF Visita
  <2>2. CASE a \notin DOMAIN p
    <3>1. cadena[a].edad > VentanaOlvido
      BY <1>1, <1>2, <2>2, TrampasAssumption DEF Visitas
    <3>2. Visita(p, a).edad > VentanaOlvido
      BY <2>2, TrampasAssumption DEF Visita
    <3> QED
      BY <3>1, <3>2 DEF Contacto
  <2> QED
    BY <2>1, <2>2
<1> HIDE DEF p
<1>4. /\ DOMAIN vistos' = DOMAIN p \cup {a} /\ vistos'[a] = Contacto(cadena[a])
      /\ \A b \in DOMAIN p \ {a} : vistos'[b] = cadena[b]
  BY <1>1, <1>3 DEF Recordar, p
<1>5. /\ cadena'[a] = Contacto(cadena[a]) /\ \A b \in Visitante \ {a} : cadena'[b] = cadena[b]
      /\ cadena' \in [Visitante -> Visitas]
  BY <1>0, <1>2
<1>6. \A b \in DOMAIN vistos' : vistos'[b] = cadena'[b]
  BY <1>0, <1>1, <1>4, <1>5
<1>7. \A b \in Visitante : cadena'[b].edad <= VentanaOlvido => b \in DOMAIN vistos'
  BY <1>1, <1>4, <1>5
<1> QED
  BY <1>0, <1>1, <1>2, <1>4, <1>5, <1>6, <1>7 DEF Memoria

\* The traps have just started.
LEMMA InicioTrampas == InitTrampas => InductivoTrampas
<1> SUFFICES ASSUME InitTrampas PROVE InductivoTrampas
  OBVIOUS
<1>1. TypeOKTrampas
  <2>1. VentanaOlvido + 1 \in Nat /\ 0 \in 0..MaxSimultaneas
    BY TrampasAssumption
  <2>2. oyendo \in BOOLEAN
    BY DEF InitTrampas
  <2> QED
    BY <2>1, <2>2 DEF InitTrampas, TypeOKTrampas, Visitas
<1>2. \A t \in Puesto : Atendidas(t) = {}
  BY DEF InitTrampas, Atendidas, Nadie
<1>3. Ranuras
  BY <1>2, FS_EmptySet DEF InitTrampas, Ranuras
<1>4. Memoria
  BY TrampasAssumption DEF InitTrampas, Memoria
<1>5. \A c \in Conexion : DejaRastro(sesion[c])
  BY NadieSinTraza DEF InitTrampas
<1> QED
  BY <1>1, <1>3, <1>4, <1>5 DEF InductivoTrampas

\* Time passes the same for the memory and for the chains, and takes no
\* session anywhere.
LEMMA ElTiempoPasa ==
    ASSUME InductivoTrampas, PasaTiempo
    PROVE  InductivoTrampas'
<1>0. TypeOKTrampas /\ Ranuras /\ Memoria /\ \A c \in Conexion : DejaRastro(sesion[c])
  BY DEF InductivoTrampas
<1>1. ASSUME NEW c \in Conexion
      PROVE  /\ sesion'[c] \in Atencion \cup {Nadie} /\ DejaRastro(sesion'[c])
             /\ sesion'[c].fase = sesion[c].fase /\ sesion'[c].trampa = sesion[c].trampa
  <2> DEFINE s == sesion[c]
             e == [s EXCEPT !.plazo = Menos(s.plazo)]
             d == [e EXCEPT !.espera = Menos(s.espera)]
  <2>1. sesion'[c] = d
    BY DEF PasaTiempo
  <2>2. CASE s = Nadie
    <3>1. d = Nadie
      <4>1. Menos(s.plazo) = 0 /\ Menos(s.espera) = 0
        BY <2>2 DEF Nadie, Menos
      <4>2. [Nadie EXCEPT !.plazo = 0] = Nadie /\ [Nadie EXCEPT !.espera = 0] = Nadie
        BY DEF Nadie
      <4> QED
        BY <2>2, <4>1, <4>2
    <3> QED
      BY <2>1, <2>2, <3>1, NadieSinTraza
  <2>3. CASE s # Nadie
    <3>1. s \in Atencion
      BY <1>0, <2>3, EnCurso
    <3>2. s.plazo \in 0..Plazo /\ s.espera \in 0..TarpitTope
      BY <3>1 DEF Atencion
    <3>3. Menos(s.plazo) \in 0..Plazo /\ Menos(s.espera) \in 0..TarpitTope
      BY <3>2, TrampasAssumption DEF Menos
    <3>4. e \in Atencion /\ e.fase = s.fase /\ e.trampa = s.trampa /\ e.rastro = s.rastro
      BY <3>1, <3>3 DEF Atencion
    <3> HIDE DEF e
    <3>5. d \in Atencion /\ d.fase = s.fase /\ d.trampa = s.trampa /\ d.rastro = s.rastro
      BY <3>3, <3>4 DEF Atencion
    <3> HIDE DEF d
    <3>6. DejaRastro(d)
      BY <1>0, <3>5 DEF DejaRastro
    <3> QED
      BY <2>1, <3>5, <3>6
  <2> QED
    BY <2>2, <2>3
<1>2. sesion' \in [Conexion -> Atencion \cup {Nadie}]
  <2>1. sesion' = [c \in Conexion |-> sesion'[c]]
    BY DEF PasaTiempo
  <2> QED
    BY <1>1, <2>1
<1>3. ASSUME NEW x \in Visitas PROVE Envejece(x) \in Visitas
  BY <1>3 DEF Envejece, Visitas
<1>4. /\ \A a \in Visitante : cadena'[a] = Envejece(cadena[a]) /\ cadena'[a] \in Visitas
      /\ cadena' \in [Visitante -> Visitas]
  BY <1>0, <1>3 DEF PasaTiempo, TypeOKTrampas
<1>5. DOMAIN vistos' = DOMAIN vistos /\ \A a \in DOMAIN vistos : vistos'[a] = Envejece(vistos[a])
  BY DEF PasaTiempo
<1>6. UNCHANGED <<huecos, oyendo, contactos>>
  BY DEF PasaTiempo
<1>7. TypeOKTrampas'
  BY <1>0, <1>2, <1>4, <1>5, <1>6 DEF TypeOKTrampas
<1>8. Memoria'
  <2>1. \A a \in DOMAIN vistos' : vistos'[a] = cadena'[a]
    BY <1>0, <1>4, <1>5 DEF Memoria, TypeOKTrampas
  <2>2. ASSUME NEW a \in Visitante, cadena'[a].edad <= VentanaOlvido PROVE a \in DOMAIN vistos'
    <3>1. cadena[a] \in Visitas
      BY <1>0 DEF TypeOKTrampas
    <3>2. cadena[a].edad <= VentanaOlvido
      BY <1>4, <2>2, <3>1, TrampasAssumption DEF Envejece, Visitas
    <3> QED
      BY <1>0, <1>5, <3>2 DEF Memoria
  <2> QED
    BY <2>1, <2>2 DEF Memoria
<1>9. Ranuras'
  <2>1. \A t \in Puesto : Atendidas(t)' = Atendidas(t)
    BY <1>1 DEF Atendidas
  <2> QED
    BY <1>0, <1>6, <2>1 DEF Ranuras
<1> QED
  BY <1>1, <1>7, <1>8, <1>9 DEF InductivoTrampas

\* Every step of the traps, whoever takes it, keeps the slots, the memory and
\* the traces.
LEMMA PasoTrampas == InductivoTrampas /\ [NextTrampas]_varsTrampas => InductivoTrampas'
<1> SUFFICES ASSUME InductivoTrampas, [NextTrampas]_varsTrampas PROVE InductivoTrampas'
  OBVIOUS
<1>0. TypeOKTrampas /\ Ranuras /\ Memoria /\ \A c \in Conexion : DejaRastro(sesion[c])
  BY DEF InductivoTrampas
<1>1. ASSUME NEW c \in Conexion, NEW t \in Puesto, NEW a \in Visitante, Aceptar(c, t, a)
      PROVE  InductivoTrampas'
  <2> DEFINE d == [fase |-> "espera", trampa |-> t, ip |-> a, plazo |-> Plazo,
                   espera |-> escaladoTarpit(vistos'[a].veces), queda |-> Presupuesto,
                   rastro |-> {}]
  <2>1. /\ sesion[c] = Nadie /\ huecos[t] < MaxSimultaneas
        /\ huecos' = [huecos EXCEPT ![t] = @ + 1] /\ sesion' = [sesion EXCEPT ![c] = d]
        /\ vistos' = Recordar(vistos, a) /\ cadena' = [cadena EXCEPT ![a] = Contacto(@)]
        /\ contactos' = contactos + 1 /\ oyendo' = oyendo
    BY <1>1 DEF Aceptar
  <2>2. /\ Memoria' /\ DOMAIN vistos' \subseteq Visitante
        /\ cadena' \in [Visitante -> Visitas] /\ vistos'[a] \in Visitas
    BY <1>0, <2>1, RecordarBien
  <2>3. escaladoTarpit(vistos'[a].veces) \in 0..TarpitTope
    BY <2>2, EsperaAcotada DEF Visitas
  <2>4. d \in Atencion /\ d.trampa = t
    BY <2>3, TrampasAssumption DEF Atencion, FasesDeSesion
  <2>5. DejaRastro(d)
    BY DEF DejaRastro, Saludan, HablanHTTP
  <2> HIDE DEF d
  <2>6. Ranuras'
    BY <1>0, <2>1, <2>4, UnaRanuraMas
  <2>7. huecos' \in [Puesto -> 0..MaxSimultaneas]
    BY <1>0, <2>1, TrampasAssumption DEF TypeOKTrampas
  <2>8. /\ sesion' \in [Conexion -> Atencion \cup {Nadie}]
        /\ \A x \in Conexion : DejaRastro(sesion'[x])
    BY <1>0, <2>1, <2>4, <2>5, UnaSesion
  <2>9. TypeOKTrampas'
    BY <1>0, <2>1, <2>2, <2>7, <2>8 DEF TypeOKTrampas
  <2> QED
    BY <2>2, <2>6, <2>8, <2>9 DEF InductivoTrampas
<1>2. ASSUME NEW t \in Puesto, Saturada(t) PROVE InductivoTrampas'
  <2>1. UNCHANGED <<sesion, huecos, vistos, oyendo, cadena>> /\ contactos' = contactos + 1
    BY <1>2 DEF Saturada
  <2>2. TypeOKTrampas'
    BY <1>0, <2>1 DEF TypeOKTrampas
  <2> QED
    BY <1>0, <2>1, <2>2 DEF InductivoTrampas, Ranuras, Memoria, Atendidas
\* A step of one session that keeps its slot.
<1>3. ASSUME NEW c \in Conexion, sesion[c] # Nadie,
             NEW d \in Atencion, d.trampa = sesion[c].trampa, DejaRastro(d),
             sesion' = [sesion EXCEPT ![c] = d],
             UNCHANGED <<huecos, vistos, oyendo, cadena, contactos>>
      PROVE  InductivoTrampas'
  <2>1. Ranuras'
    BY <1>0, <1>3, MismaRanura
  <2>2. /\ sesion' \in [Conexion -> Atencion \cup {Nadie}]
        /\ \A x \in Conexion : DejaRastro(sesion'[x])
    BY <1>0, <1>3, UnaSesion
  <2>3. TypeOKTrampas' /\ Memoria'
    BY <1>0, <1>3, <2>2 DEF TypeOKTrampas, Memoria
  <2> QED
    BY <2>1, <2>2, <2>3 DEF InductivoTrampas
<1>4. ASSUME NEW c \in Conexion, Atender(c) PROVE InductivoTrampas'
  <2> DEFINE s == sesion[c]
             d == Movida(s, Entrada(s.trampa), AlEntrar(s.trampa))
  <2>1. s # Nadie
    BY <1>4 DEF Atender, Nadie
  <2>2. s \in Atencion /\ s.trampa \in Puesto
    BY <1>0, <2>1, EnCurso
  <2>3. Entrada(s.trampa) \in FasesDeSesion /\ AlEntrar(s.trampa) \in SUBSET Registros
    BY <2>2, LaEntrada
  <2>4. /\ d \in Atencion /\ d.fase = Entrada(s.trampa) /\ d.trampa = s.trampa
        /\ d.rastro = AlEntrar(s.trampa)
    BY <2>2, <2>3, OtraFase
  <2>5. /\ sesion' = [sesion EXCEPT ![c] = d]
        /\ UNCHANGED <<huecos, vistos, oyendo, cadena, contactos>>
    BY <1>4, <1>0 DEF Atender, TypeOKTrampas, Movida
  <2> HIDE DEF d
  <2>6. DejaRastro(d)
    BY <2>2, <2>4, LaEntradaDejaRastro
  <2> QED
    BY <1>3, <2>1, <2>4, <2>5, <2>6
<1>5. ASSUME NEW c \in Conexion, NEW f \in Protocolos[sesion[c].trampa], Mensaje(c, f)
      PROVE  InductivoTrampas'
  <2> DEFINE s == sesion[c]
             r == s.rastro \cup f.anota
             z == IF Renueva(s.trampa, f.pasa) THEN Plazo ELSE s.plazo
             d == Gastada(s, f.pasa, r, Gastar(s), z)
  <2>1. s # Nadie /\ s.fase # "espera" /\ f.en = s.fase /\ s.queda > 0
    BY <1>5 DEF Mensaje, Leyendo, Nadie
  <2>2. s \in Atencion /\ s.trampa \in Puesto /\ s.rastro \in SUBSET Registros
    BY <1>0, <2>1, EnCurso
  <2>3. f.pasa \in FasesDeSesion /\ r \in SUBSET Registros
    BY <2>2, TiposDelPaso
  <2>4. z \in 0..Plazo /\ Gastar(s) \in 0..Presupuesto
    BY <2>1, <2>2, TrampasAssumption DEF Atencion, Gastar
  <2>5. /\ sesion' = [sesion EXCEPT ![c] = d]
        /\ UNCHANGED <<huecos, vistos, oyendo, cadena, contactos>>
    BY <1>5 DEF Mensaje, Gastada
  <2> HIDE DEF r, z
  <2>6. d \in Atencion /\ d.fase = f.pasa /\ d.trampa = s.trampa /\ d.rastro = r
    BY <2>2, <2>3, <2>4, OtroResto
  <2> HIDE DEF d
  <2>7. DejaRastro(d)
    BY <1>0, <2>1, <2>2, <2>6, ElPasoDejaRastro DEF r
  <2> QED
    BY <1>3, <2>1, <2>5, <2>6, <2>7
<1>6. ASSUME NEW c \in Conexion, Corte(c) PROVE InductivoTrampas'
  <2> DEFINE s == sesion[c]
             r == s.rastro \cup AlFallar(s.trampa, s.fase)
             d == Movida(s, "fin", r)
  <2>1. s # Nadie /\ s.fase \notin {"espera", "fin"}
    BY <1>6 DEF Corte, Leyendo, Nadie
  <2>2. s \in Atencion /\ s.rastro \in SUBSET Registros
    BY <1>0, <2>1, EnCurso
  <2>3. r \in SUBSET Registros /\ "fin" \in FasesDeSesion
    BY <2>2, TiposDelCorte DEF FasesDeSesion
  <2>4. d \in Atencion /\ d.fase = "fin" /\ d.trampa = s.trampa /\ d.rastro = r
    BY <2>2, <2>3, OtraFase
  <2>5. /\ sesion' = [sesion EXCEPT ![c] = d]
        /\ UNCHANGED <<huecos, vistos, oyendo, cadena, contactos>>
    BY <1>6, <1>0 DEF Corte, TypeOKTrampas, Movida
  <2> HIDE DEF d
  <2>6. DejaRastro(d)
    BY <1>0, <2>1, <2>2, <2>4, ElCorteDejaRastro
  <2> QED
    BY <1>3, <2>1, <2>4, <2>5, <2>6
<1>7. ASSUME NEW c \in Conexion, SinClavePG(c) PROVE InductivoTrampas'
  <2> DEFINE s == sesion[c]
             r == s.rastro \cup AlFallar("postgres", s.fase)
             d == Renovada(s, "ordenes", Plazo, r)
  <2>1. s # Nadie /\ s.trampa = "postgres" /\ s.fase \notin {"libre", "espera"}
    BY <1>7 DEF SinClavePG, Nadie
  <2>2. s \in Atencion /\ s.rastro \in SUBSET Registros
    BY <1>0, <2>1, EnCurso
  <2>3. r \in SUBSET Registros /\ "ordenes" \in FasesDeSesion /\ Plazo \in 0..Plazo
    BY <2>2, TiposDelCorte, TrampasAssumption DEF FasesDeSesion
  <2>4. d \in Atencion /\ d.fase = "ordenes" /\ d.trampa = s.trampa /\ d.rastro = r
    BY <2>2, <2>3, OtroPlazo
  <2>5. /\ sesion' = [sesion EXCEPT ![c] = d]
        /\ UNCHANGED <<huecos, vistos, oyendo, cadena, contactos>>
    BY <1>7 DEF SinClavePG, Renovada
  <2> HIDE DEF d
  <2>6. DejaRastro(d)
    BY <1>0, <2>1, <2>4 DEF DejaRastro, Saludan, HablanHTTP
  <2> QED
    BY <1>3, <2>1, <2>4, <2>5, <2>6
<1>8. ASSUME NEW c \in Conexion, Terminar(c) \/ Panico(c) PROVE InductivoTrampas'
  <2>1. /\ sesion[c] # Nadie /\ sesion' = [sesion EXCEPT ![c] = Nadie]
        /\ huecos' = [huecos EXCEPT ![sesion[c].trampa] = @ - 1]
        /\ UNCHANGED <<vistos, oyendo, cadena, contactos>>
    BY <1>8 DEF Terminar, Panico, Leyendo, Nadie
  <2>2. Ranuras' /\ huecos' \in [Puesto -> 0..MaxSimultaneas]
    BY <1>0, <2>1, UnaRanuraMenos
  <2>3. /\ sesion' \in [Conexion -> Atencion \cup {Nadie}]
        /\ \A x \in Conexion : DejaRastro(sesion'[x])
    BY <1>0, <2>1, NadieSinTraza, UnaSesion
  <2>4. TypeOKTrampas' /\ Memoria'
    BY <1>0, <2>1, <2>2, <2>3 DEF TypeOKTrampas, Memoria
  <2> QED
    BY <2>2, <2>3, <2>4 DEF InductivoTrampas
<1>9. CASE Cancelar
  <2>1. UNCHANGED <<sesion, huecos, vistos, cadena, contactos>> /\ oyendo' = FALSE
    BY <1>9 DEF Cancelar
  <2>2. oyendo' \in BOOLEAN
    BY <2>1
  <2>3. TypeOKTrampas'
    BY <1>0, <2>1, <2>2 DEF TypeOKTrampas
  <2> QED
    BY <1>0, <2>1, <2>3 DEF InductivoTrampas, Ranuras, Memoria, Atendidas
<1>10. CASE PasaTiempo
  BY <1>10, ElTiempoPasa
<1>11. CASE UNCHANGED varsTrampas
  <2>1. UNCHANGED <<sesion, huecos, vistos, oyendo, cadena, contactos>>
    BY <1>11 DEF varsTrampas
  <2>2. TypeOKTrampas'
    BY <1>0, <2>1 DEF TypeOKTrampas
  <2> QED
    BY <1>0, <2>1, <2>2 DEF InductivoTrampas, Ranuras, Memoria, Atendidas
<1> QED
  BY <1>1, <1>2, <1>4, <1>5, <1>6, <1>7, <1>8, <1>9, <1>10, <1>11 DEF NextTrampas

\* For any number of connections, addresses and slots: every connection in
\* progress holds one slot of its trap and gives it back however it ends, a
\* panic included, and the shared memory never forgives an address that is
\* still within the window (trampa.go: servirTCP; recuerdo.go).
THEOREM LaMemoriaEsExacta == SpecTrampas => []RecuerdoExacto
<1>1. InductivoTrampas => RecuerdoExacto
  BY DEF InductivoTrampas, Ranuras, Memoria, RecuerdoExacto
<1> QED
  BY InicioTrampas, PasoTrampas, <1>1, PTL DEF SpecTrampas

\* What a session registers on its way: the arrival before any order, and
\* something before its end.
LEMMA ElRastroBasta == InductivoTrampas => NadieSinRastro
<1> SUFFICES ASSUME InductivoTrampas, NEW c \in Conexion
             PROVE  /\ sesion[c].fase = "fin" /\ sesion[c].trampa # "docker" => sesion[c].rastro # {}
                    /\ "comando" \in sesion[c].rastro /\ sesion[c].trampa \notin {"docker", "mongodb"}
                          => "conexion" \in sesion[c].rastro
  BY DEF NadieSinRastro
<1>1. TypeOKTrampas /\ DejaRastro(sesion[c])
  BY DEF InductivoTrampas
<1>2. CASE sesion[c] = Nadie
  BY <1>2 DEF Nadie
<1>3. CASE sesion[c] # Nadie
  <2>1. sesion[c].trampa \in Nativas /\ sesion[c].fase # "libre"
    BY <1>1, <1>3, EnCurso, TrampasAssumption
  <2> QED
    BY <1>1, <2>1 DEF DejaRastro, Saludan, HablanHTTP, Nativas
<1> QED
  BY <1>2, <1>3

\* Every session of every protocol leaves something registered when it ends,
\* and no order is registered without the arrival (the handlers of trampa).
THEOREM NadieSeVaSinRastro == SpecTrampas => []NadieSinRastro
<1> QED
  BY InicioTrampas, PasoTrampas, ElRastroBasta, PTL DEF SpecTrampas

-----------------------------------------------------------------------------
(* The three together.                                                     *)

\* A step of MCCapturas is a step of one of the three and none of the others.
LEMMA PasoDeUnaCaptura ==
    ASSUME [NextCapturas]_varsCapturas
    PROVE  /\ [Next]_vars /\ [NextSeguidor]_varsSeguidor /\ [NextTrampas]_varsTrampas
<1>1. CASE UNCHANGED varsCapturas
  BY <1>1 DEF varsCapturas
<1>2. CASE NextCapturas
  BY <1>2 DEF NextCapturas
<1> QED
  BY <1>1, <1>2

\* TiposDeLaCaptura, in every execution: the inductive invariants of the loop
\* that groups, of the follower and of the traps, and their trace.
THEOREM LaCapturaSeTiene == SpecCapturas => []TiposDeLaCaptura
<1>1. InitCapturas => TiposDeLaCaptura
  BY InicioBucle, InicioSeguidor, InicioTrampas, ElRastroBasta
     DEF InitCapturas, TiposDeLaCaptura
<1>2. TiposDeLaCaptura /\ [NextCapturas]_varsCapturas => TiposDeLaCaptura'
  <2> SUFFICES ASSUME TiposDeLaCaptura, [NextCapturas]_varsCapturas PROVE TiposDeLaCaptura'
    OBVIOUS
  <2>1. InductivoBucle' /\ InductivoSeguidor' /\ InductivoTrampas'
    BY PasoDeUnaCaptura, PasoBucle, PasoSeguidor, PasoTrampas DEF TiposDeLaCaptura
  <2>2. NadieSinRastro'
    BY <2>1, ElRastroBasta, PTL
  <2> QED
    BY <2>1, <2>2 DEF TiposDeLaCaptura
<1> QED
  BY <1>1, <1>2, PTL DEF SpecCapturas
=============================================================================
