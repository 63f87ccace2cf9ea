-------------------------- MODULE CuotaLLMPruebas ---------------------------
(***************************************************************************)
(* Proofs about the daily budget.  The argument is bookkeeping: every step *)
(* moves one call between the columns of the sum of Cuadra (a crash moves  *)
(* a whole set of them), so the row of a day equals the sum; and the only  *)
(* step that raises a row checks it against a configured limit first.      *)
(***************************************************************************)
EXTENDS CuotaLLM, FiniteSetTheorems, TLAPS

\* The calls in flight of a day are a finite set (the requesters are).
LEMMA EnVueloFinito ==
    ASSUME NEW d
    PROVE  /\ IsFiniteSet(EnVuelo(d))
           /\ Cardinality(EnVuelo(d)) \in Nat
<1>1. EnVuelo(d) \subseteq Peticionario
  BY DEF EnVuelo
<1> QED
  BY <1>1, FS_Subset, FS_CardinalityType, CuotaAssumption

\* The books balance at the start, with nothing noted (the empty table).
LEMMA InicioCuadra == Init => Inductivo
<1> SUFFICES ASSUME Init PROVE Inductivo
  OBVIOUS
<1>1. TypeOK
  BY CuotaAssumption DEF Init, TypeOK, Dia
<1>2. \A d \in Dia : EnVuelo(d) = {}
  BY DEF Init, EnVuelo
<1>3. Cuadra
  BY <1>2, FS_EmptySet DEF Init, Cuadra
<1>4. FilaAcotada
  <2> SUFFICES ASSUME \A t \in Topes : t > 0, NEW d \in Dia
               PROVE  \E t \in Topes : llamadas[d] <= t
    BY DEF FilaAcotada
  <2>1. tope \in Topes /\ tope > 0 /\ llamadas[d] = 0
    BY DEF Init
  <2> QED
    BY <2>1, CuotaAssumption
<1> QED
  BY <1>1, <1>3, <1>4 DEF Inductivo

\* Types are kept by every action (the handlers, DevolverCuotaLLM, a crash).
LEMMA PasoTipos == TypeOK /\ [Next]_vars => TypeOK'
<1> SUFFICES ASSUME TypeOK, [Next]_vars PROVE TypeOK'
  OBVIOUS
<1> USE DEF TypeOK
<1>1. CASE PasarMedianoche
  BY <1>1, CuotaAssumption DEF PasarMedianoche, Dia, historia
<1>2. ASSUME NEW t \in Topes, CambiarTope(t) PROVE TypeOK'
  BY <1>2 DEF CambiarTope, historia
<1>3. ASSUME NEW p \in Peticionario, Pedir(p) PROVE TypeOK'
  <2>1. CASE Empezar(p)
    BY <2>1 DEF Empezar, historia
  <2>2. CASE Consumir(p)
    <3>1. dia[p] \in Dia /\ llamadas[dia[p]] + 1 \in Nat
      OBVIOUS
    <3>2. llamadas' \in [Dia -> Nat]
      BY <2>2, <3>1 DEF Consumir
    <3> QED
      BY <2>2, <3>2 DEF Consumir, historia
  <2>3. CASE Desistir(p)
    BY <2>3 DEF Desistir, historia
  <2> QED
    BY <1>3, <2>1, <2>2, <2>3 DEF Pedir
<1>4. ASSUME NEW p \in Peticionario, Acabar(p) PROVE TypeOK'
  <2>1. CASE Responder(p)
    BY <2>1 DEF Responder
  <2>2. CASE Fallar(p)
    BY <2>2 DEF Fallar, Devolver, historia
  <2>3. CASE FallarAtendida(p)
    BY <2>3 DEF FallarAtendida, Devolver
  <2>4. CASE FallarSinDevolver(p)
    BY <2>4 DEF FallarSinDevolver
  <2> QED
    BY <1>4, <2>1, <2>2, <2>3, <2>4 DEF Acabar
<1>5. ASSUME NEW q \in Proceso, Caer(q) PROVE TypeOK'
  <2>1. \A d \in Dia : Cardinality(EnVuelo(d) \cap DelProceso(q)) \in Nat
    BY EnVueloFinito, FS_Intersection, FS_CardinalityType
  <2> QED
    BY <1>5, <2>1 DEF Caer
<1>6. CASE UNCHANGED vars
  BY <1>6 DEF vars, historia
<1> QED
  BY <1>1, <1>2, <1>3, <1>4, <1>5, <1>6 DEF Next

\* Starting a call adds one to the calls in flight of its day, ending it takes
\* one away, and the other days keep theirs: fase and dia of one requester.
LEMMA UnoMas ==
    ASSUME TypeOK, NEW p \in Peticionario, fase[p] # "llamando",
           fase' = [fase EXCEPT ![p] = "llamando"], dia' = dia, NEW d \in Dia
    PROVE  Cardinality(EnVuelo(d)') =
             Cardinality(EnVuelo(d)) + (IF d = dia[p] THEN 1 ELSE 0)
<1>1. CASE d = dia[p]
  <2>1. EnVuelo(d)' = EnVuelo(d) \cup {p} /\ p \notin EnVuelo(d)
    BY <1>1 DEF EnVuelo, TypeOK
  <2> QED
    BY <1>1, <2>1, EnVueloFinito, FS_AddElement
<1>2. CASE d # dia[p]
  <2>1. EnVuelo(d)' = EnVuelo(d)
    BY <1>2 DEF EnVuelo, TypeOK
  <2> QED
    BY <1>2, <2>1, EnVueloFinito
<1> QED
  BY <1>1, <1>2

\* ... and ending one takes it away from its day.
LEMMA UnoMenos ==
    ASSUME TypeOK, NEW p \in Peticionario, fase[p] = "llamando",
           fase' = [fase EXCEPT ![p] = "reposo"], dia' = dia, NEW d \in Dia
    PROVE  Cardinality(EnVuelo(d)) =
             Cardinality(EnVuelo(d)') + (IF d = dia[p] THEN 1 ELSE 0)
<1>1. CASE d = dia[p]
  <2>1. EnVuelo(d)' = EnVuelo(d) \ {p} /\ p \in EnVuelo(d)
    BY <1>1 DEF EnVuelo, TypeOK
  <2>2. /\ IsFiniteSet(EnVuelo(d))
        /\ Cardinality(EnVuelo(d)) \in Nat
    BY EnVueloFinito
  <2>3. Cardinality(EnVuelo(d) \ {p}) = Cardinality(EnVuelo(d)) - 1
    BY <2>1, <2>2, FS_RemoveElement
  <2> QED
    BY <1>1, <2>1, <2>2, <2>3
<1>2. CASE d # dia[p]
  <2>1. EnVuelo(d)' = EnVuelo(d)
    BY <1>2 DEF EnVuelo, TypeOK
  <2> QED
    BY <1>2, <2>1, EnVueloFinito
<1> QED
  BY <1>1, <1>2

\* A requester that is not calling can come or go without touching the sets.
LEMMA MismosEnVuelo ==
    ASSUME TypeOK, NEW p \in Peticionario, fase[p] # "llamando",
           NEW f, f # "llamando", fase' = [fase EXCEPT ![p] = f],
           NEW e, dia' = [dia EXCEPT ![p] = e], NEW d \in Dia
    PROVE  EnVuelo(d)' = EnVuelo(d)
BY DEF EnVuelo, TypeOK

\* The calls that die with a process leave the calls in flight as a set.
LEMMA CaidaReparte ==
    ASSUME TypeOK, NEW q \in Proceso, Caer(q), NEW d \in Dia
    PROVE  Cardinality(EnVuelo(d)) =
             Cardinality(EnVuelo(d)') + Cardinality(EnVuelo(d) \cap DelProceso(q))
<1>1. EnVuelo(d)' = EnVuelo(d) \ DelProceso(q)
  BY DEF Caer, EnVuelo, DelProceso, TypeOK
<1>2. /\ IsFiniteSet(EnVuelo(d))
      /\ Cardinality(EnVuelo(d) \ DelProceso(q)) =
           Cardinality(EnVuelo(d)) - Cardinality(EnVuelo(d) \cap DelProceso(q))
  BY EnVueloFinito, FS_Difference
<1>3. /\ Cardinality(EnVuelo(d)) \in Nat
      /\ Cardinality(EnVuelo(d) \cap DelProceso(q)) \in Nat
  BY EnVueloFinito, FS_Intersection, FS_CardinalityType
<1> QED
  BY <1>1, <1>2, <1>3

\* The books stay balanced (ConsumirCuotaLLM, DevolverCuotaLLM, a crash).
LEMMA PasoCuadra == Inductivo /\ [Next]_vars => Cuadra'
<1> SUFFICES ASSUME Inductivo, [Next]_vars, NEW d \in Dia
             PROVE  llamadas'[d] =
                      Cardinality(EnVuelo(d)') + atendidas'[d] + huerfanas'[d]
  BY DEF Cuadra, Dia
<1>0. /\ TypeOK
      /\ llamadas[d] = Cardinality(EnVuelo(d)) + atendidas[d] + huerfanas[d]
      /\ llamadas[d] \in Nat /\ atendidas[d] \in Nat /\ huerfanas[d] \in Nat
      /\ Cardinality(EnVuelo(d)) \in Nat
  BY EnVueloFinito DEF Inductivo, Cuadra, TypeOK
<1>1. ASSUME UNCHANGED <<llamadas, fase, dia, atendidas, huerfanas>>
      PROVE  llamadas'[d] =
               Cardinality(EnVuelo(d)') + atendidas'[d] + huerfanas'[d]
  <2>1. EnVuelo(d)' = EnVuelo(d)
    BY <1>1 DEF EnVuelo
  <2> QED
    BY <1>0, <1>1, <2>1
<1>2. CASE PasarMedianoche \/ (\E t \in Topes : CambiarTope(t)) \/ UNCHANGED vars
  BY <1>1, <1>2 DEF PasarMedianoche, CambiarTope, vars, historia
<1>3. ASSUME NEW p \in Peticionario, Pedir(p)
      PROVE  llamadas'[d] =
               Cardinality(EnVuelo(d)') + atendidas'[d] + huerfanas'[d]
  <2>1. CASE Empezar(p)
    <3>1. EnVuelo(d)' = EnVuelo(d)
      BY <1>0, <2>1, MismosEnVuelo DEF Empezar
    <3> QED
      BY <1>0, <2>1, <3>1 DEF Empezar, historia
  <2>2. CASE Desistir(p)
    <3>1. EnVuelo(d)' = EnVuelo(d)
      BY <1>0, <2>2 DEF Desistir, EnVuelo, TypeOK
    <3> QED
      BY <1>0, <2>2, <3>1 DEF Desistir, historia
  <2>3. CASE Consumir(p)
    <3>1. Cardinality(EnVuelo(d)') =
            Cardinality(EnVuelo(d)) + (IF d = dia[p] THEN 1 ELSE 0)
      BY <1>0, <2>3, UnoMas DEF Consumir
    <3>2. llamadas'[d] = llamadas[d] + (IF d = dia[p] THEN 1 ELSE 0)
      BY <1>0, <2>3 DEF Consumir, TypeOK
    <3> QED
      BY <1>0, <2>3, <3>1, <3>2 DEF Consumir, historia
  <2> QED
    BY <1>3, <2>1, <2>2, <2>3 DEF Pedir
<1>4. ASSUME NEW p \in Peticionario, Acabar(p)
      PROVE  llamadas'[d] =
               Cardinality(EnVuelo(d)') + atendidas'[d] + huerfanas'[d]
  <2>1. /\ fase[p] = "llamando"
        /\ fase' = [fase EXCEPT ![p] = "reposo"]
        /\ dia' = dia
    BY <1>4 DEF Acabar, Responder, Fallar, FallarAtendida, FallarSinDevolver
  <2>2. /\ Cardinality(EnVuelo(d)) =
             Cardinality(EnVuelo(d)') + (IF d = dia[p] THEN 1 ELSE 0)
        /\ Cardinality(EnVuelo(d)') \in Nat
    <3>1. Cardinality(EnVuelo(d)) =
             Cardinality(EnVuelo(d)') + (IF d = dia[p] THEN 1 ELSE 0)
      BY <1>0, <2>1, UnoMenos
    <3>2. EnVuelo(d)' \subseteq Peticionario
      BY DEF EnVuelo
    <3>3. Cardinality(EnVuelo(d)') \in Nat
      BY <3>2, FS_Subset, FS_CardinalityType, CuotaAssumption
    <3> QED
      BY <3>1, <3>3
  <2>3. CASE Responder(p)
    <3>1. atendidas'[d] = atendidas[d] + (IF d = dia[p] THEN 1 ELSE 0)
      BY <1>0, <2>3 DEF Responder, TypeOK
    <3> QED
      BY <1>0, <2>2, <2>3, <3>1 DEF Responder
  <2>4. CASE FallarSinDevolver(p)
    <3>1. huerfanas'[d] = huerfanas[d] + (IF d = dia[p] THEN 1 ELSE 0)
      BY <1>0, <2>4 DEF FallarSinDevolver, TypeOK
    <3> QED
      BY <1>0, <2>2, <2>4, <3>1 DEF FallarSinDevolver
  <2>5. CASE Fallar(p) \/ FallarAtendida(p)
    <3>1. Devolver(p) /\ UNCHANGED <<atendidas, huerfanas>>
      BY <2>5 DEF Fallar, FallarAtendida, historia
    <3>2. CASE d = dia[p]
      <4>1. llamadas[d] > 0
        BY <1>0, <2>2, <3>2
      <4>2. llamadas'[d] = llamadas[d] - 1
        BY <1>0, <3>1, <3>2, <4>1 DEF Devolver, TypeOK
      <4> QED
        BY <1>0, <2>2, <3>1, <3>2, <4>2
    <3>3. CASE d # dia[p]
      <4>1. llamadas'[d] = llamadas[d]
        BY <1>0, <3>1, <3>3 DEF Devolver, TypeOK
      <4> QED
        BY <1>0, <2>2, <3>1, <3>3, <4>1
    <3> QED
      BY <3>2, <3>3
  <2> QED
    BY <1>4, <2>3, <2>4, <2>5 DEF Acabar
<1>5. ASSUME NEW q \in Proceso, Caer(q)
      PROVE  llamadas'[d] =
               Cardinality(EnVuelo(d)') + atendidas'[d] + huerfanas'[d]
  <2>1. Cardinality(EnVuelo(d)) =
          Cardinality(EnVuelo(d)') + Cardinality(EnVuelo(d) \cap DelProceso(q))
    BY <1>0, <1>5, CaidaReparte
  <2>2. /\ Cardinality(EnVuelo(d) \cap DelProceso(q)) \in Nat
        /\ Cardinality(EnVuelo(d)') \in Nat
    <3>1. EnVuelo(d)' \subseteq Peticionario
      BY DEF EnVuelo
    <3>2. Cardinality(EnVuelo(d)') \in Nat
      BY <3>1, FS_Subset, FS_CardinalityType, CuotaAssumption
    <3>3. Cardinality(EnVuelo(d) \cap DelProceso(q)) \in Nat
      BY EnVueloFinito, FS_Intersection, FS_CardinalityType
    <3> QED
      BY <3>2, <3>3
  <2>3. /\ huerfanas'[d] = huerfanas[d] + Cardinality(EnVuelo(d) \cap DelProceso(q))
        /\ llamadas' = llamadas /\ atendidas' = atendidas
    BY <1>5 DEF Caer
  <2> QED
    BY <1>0, <2>1, <2>2, <2>3
<1> QED
  BY <1>2, <1>3, <1>4, <1>5 DEF Next

\* A row stays within the limits configured (ConsumirCuotaLLM).
LEMMA PasoAcotada == Inductivo /\ [Next]_vars => FilaAcotada'
<1> SUFFICES ASSUME Inductivo, [Next]_vars, \A t \in Topes : t > 0, NEW d \in Dia
             PROVE  \E t \in Topes : llamadas'[d] <= t
  BY DEF FilaAcotada, Dia
<1>0. /\ TypeOK /\ llamadas[d] \in Nat
      /\ \A t \in Topes : t \in Int
  BY CuotaAssumption DEF Inductivo, TypeOK
<1>a. PICK t0 \in Topes : llamadas[d] <= t0
  BY DEF Inductivo, FilaAcotada
<1>1. CASE \E p \in Peticionario : Consumir(p) /\ dia[p] = d
  <2>1. PICK p \in Peticionario : Consumir(p) /\ dia[p] = d
    BY <1>1
  <2>2. limite[p] \in Topes /\ limite[p] \in Int /\ limite[p] > 0
    BY <1>0 DEF TypeOK
  <2>3. llamadas[d] < limite[p] /\ llamadas'[d] = llamadas[d] + 1
    BY <1>0, <2>1, <2>2 DEF Consumir, Cabe, TypeOK
  <2>4. llamadas'[d] <= limite[p]
    BY <1>0, <2>2, <2>3
  <2> QED
    BY <2>2, <2>4
<1>2. CASE ~ \E p \in Peticionario : Consumir(p) /\ dia[p] = d
  <2>1. llamadas'[d] <= llamadas[d]
    <3>1. ASSUME NEW p \in Peticionario, Pedir(p) PROVE llamadas'[d] <= llamadas[d]
      BY <1>0, <1>2, <3>1 DEF Pedir, Empezar, Desistir, Consumir, TypeOK
    <3>2. ASSUME NEW p \in Peticionario, Devolver(p)
          PROVE llamadas'[d] <= llamadas[d] /\ llamadas'[d] \in Nat
      BY <1>0, <3>2 DEF Devolver, TypeOK
    <3>3. ASSUME NEW p \in Peticionario, Acabar(p) PROVE llamadas'[d] <= llamadas[d]
      BY <1>0, <3>2, <3>3
      DEF Acabar, Responder, Fallar, FallarAtendida, FallarSinDevolver
    <3>4. CASE PasarMedianoche \/ (\E t \in Topes : CambiarTope(t))
               \/ (\E q \in Proceso : Caer(q)) \/ UNCHANGED vars
      BY <1>0, <3>4 DEF PasarMedianoche, CambiarTope, Caer, vars
    <3> QED
      BY <3>1, <3>3, <3>4 DEF Next
  <2>2. llamadas'[d] \in Nat
    BY <1>0, PasoTipos DEF TypeOK
  <2> QED
    BY <1>0, <1>a, <2>1, <2>2
<1> QED
  BY <1>1, <1>2

\* Every day's row is exactly the calls in flight, answered or orphaned: no
\* failure is charged and no note is undone twice (informe.go:117-130).
THEOREM LaCuotaCuadra == Spec => []Cuadra
<1>1. Init => Inductivo
  BY InicioCuadra
<1>2. Inductivo /\ [Next]_vars => Inductivo'
  BY PasoTipos, PasoCuadra, PasoAcotada DEF Inductivo
<1>3. Inductivo => Cuadra
  BY DEF Inductivo
<1> QED
  BY <1>1, <1>2, <1>3, PTL DEF Spec

\* However many requesters, processes, changes of the limit, midnights and
\* crashes: calls in flight and answered never pass the largest limit.
THEOREM ElTopeSeRespeta == Spec => []TopeRespetado
<1>1. Init => Inductivo
  BY InicioCuadra
<1>2. Inductivo /\ [Next]_vars => Inductivo'
  BY PasoTipos, PasoCuadra, PasoAcotada DEF Inductivo
<1>3. Inductivo => TopeRespetado
  <2> SUFFICES ASSUME Inductivo, \A t \in Topes : t > 0, NEW d \in Dia
               PROVE  \E t \in Topes : Cardinality(EnVuelo(d)) + atendidas[d] <= t
    BY DEF TopeRespetado
  <2>1. PICK t \in Topes : llamadas[d] <= t
    BY DEF Inductivo, FilaAcotada
  <2>2. /\ llamadas[d] = Cardinality(EnVuelo(d)) + atendidas[d] + huerfanas[d]
        /\ atendidas[d] \in Nat /\ huerfanas[d] \in Nat
        /\ Cardinality(EnVuelo(d)) \in Nat /\ t \in Int
    BY EnVueloFinito, CuotaAssumption DEF Inductivo, Cuadra, TypeOK
  <2> QED
    BY <2>1, <2>2
<1> QED
  BY <1>1, <1>2, <1>3, PTL DEF Spec
-----------------------------------------------------------------------------
(***************************************************************************)
(* Each day's row implements Presupuesto: its variables are mapped to the  *)
(* calls in flight of the day, the notes that stay and the row.            *)
(***************************************************************************)

\* What the mapping gives a day: three naturals that add up.
LEMMA CuentasDelDia ==
    ASSUME Inductivo, NEW d \in Dia
    PROVE  /\ Cardinality(EnVuelo(d)) \in Nat
           /\ llamadas[d] \in Nat /\ atendidas[d] \in Nat /\ huerfanas[d] \in Nat
           /\ llamadas[d] = Cardinality(EnVuelo(d)) + atendidas[d] + huerfanas[d]
BY EnVueloFinito DEF Inductivo, TypeOK, Cuadra

\* An empty table begins as a day's budget does (InitPresupuesto).
LEMMA InicioCumple == Init => \A d \in Dia : PorDia(d)!InitPresupuesto
<1> SUFFICES ASSUME Init, NEW d \in Dia PROVE PorDia(d)!InitPresupuesto
  OBVIOUS
<1>1. EnVuelo(d) = {}
  BY DEF Init, EnVuelo
<1> QED
  BY <1>1, FS_EmptySet DEF Init, PorDia!InitPresupuesto

\* ConsumirCuotaLLM reserves on its own day and leaves the others alone: the
\* limit its WHERE compares with is one that was configured.
LEMMA ConsumirReserva ==
    ASSUME Inductivo, NEW p \in Peticionario, Consumir(p), NEW d \in Dia
    PROVE  IF d = dia[p] THEN PorDia(d)!Reservar
           ELSE UNCHANGED PorDia(d)!varsPresupuesto
<1>1. /\ TypeOK
      /\ Cardinality(EnVuelo(d)') =
           Cardinality(EnVuelo(d)) + (IF d = dia[p] THEN 1 ELSE 0)
  BY UnoMas DEF Inductivo, Consumir
<1>2. /\ llamadas'[d] = llamadas[d] + (IF d = dia[p] THEN 1 ELSE 0)
      /\ UNCHANGED <<atendidas, huerfanas>>
  BY <1>1, CuentasDelDia DEF Consumir, historia, TypeOK
<1>3. CASE d = dia[p]
  <2>1. limite[p] \in Topes /\ (limite[p] <= 0 \/ llamadas[d] < limite[p])
    BY <1>1, <1>3, CuotaAssumption DEF Consumir, Cabe, TypeOK
  <2>2. PorDia(d)!HaySitio
    BY <2>1 DEF PorDia!HaySitio
  <2> QED
    BY <1>1, <1>2, <1>3, <2>2 DEF PorDia!Reservar
<1>4. CASE d # dia[p]
  BY <1>1, <1>2, <1>4, CuentasDelDia DEF PorDia!varsPresupuesto
<1> QED
  BY <1>3, <1>4

\* A call that ends is paid for or its note undone, on the day it was noted;
\* the other days do not notice (DevolverCuotaLLM and the callers' errors).
LEMMA AcabarPagaODeshace ==
    ASSUME Inductivo, NEW p \in Peticionario, Acabar(p), NEW d \in Dia
    PROVE  IF d = dia[p] THEN PorDia(d)!Pagar \/ PorDia(d)!Deshacer
           ELSE UNCHANGED PorDia(d)!varsPresupuesto
<1>1. /\ TypeOK /\ fase[p] = "llamando" /\ dia' = dia
      /\ fase' = [fase EXCEPT ![p] = "reposo"]
  BY DEF Inductivo, Acabar, Responder, Fallar, FallarAtendida, FallarSinDevolver
<1>2. /\ Cardinality(EnVuelo(d)) =
           Cardinality(EnVuelo(d)') + (IF d = dia[p] THEN 1 ELSE 0)
      /\ Cardinality(EnVuelo(d)') \in Nat
  <2>1. EnVuelo(d)' \subseteq Peticionario
    BY DEF EnVuelo
  <2> QED
    BY <1>1, <2>1, UnoMenos, FS_Subset, FS_CardinalityType, CuotaAssumption
<1>3. CASE Responder(p) \/ FallarSinDevolver(p)
  <2>1. /\ llamadas' = llamadas
        /\ atendidas'[d] + huerfanas'[d] =
             atendidas[d] + huerfanas[d] + (IF d = dia[p] THEN 1 ELSE 0)
    <3>0. atendidas[d] \in Nat /\ huerfanas[d] \in Nat
      BY CuentasDelDia
    <3>1. CASE Responder(p)
      BY <1>1, <3>0, <3>1 DEF Responder, TypeOK
    <3>2. CASE FallarSinDevolver(p)
      BY <1>1, <3>0, <3>2 DEF FallarSinDevolver, TypeOK
    <3> QED
      BY <1>3, <3>1, <3>2
  <2>2. CASE d = dia[p]
    <3>1. /\ 1 \in 1..Cardinality(EnVuelo(d))
          /\ Cardinality(EnVuelo(d)') = Cardinality(EnVuelo(d)) - 1
          /\ atendidas'[d] + huerfanas'[d] = (atendidas[d] + huerfanas[d]) + 1
      BY <1>2, <2>1, <2>2, CuentasDelDia
    <3> QED
      BY <2>1, <2>2, <3>1 DEF PorDia!Pagar
  <2>3. CASE d # dia[p]
    BY <1>2, <2>1, <2>3, CuentasDelDia DEF PorDia!varsPresupuesto
  <2> QED
    BY <2>2, <2>3
<1>4. CASE Fallar(p) \/ FallarAtendida(p)
  <2>1. Devolver(p) /\ UNCHANGED <<atendidas, huerfanas>>
    BY <1>4 DEF Fallar, FallarAtendida, historia
  <2>2. CASE d = dia[p]
    <3>1. Cardinality(EnVuelo(d)) > 0 /\ llamadas[d] > 0
      BY <1>2, <2>2, CuentasDelDia
    <3>2. llamadas'[d] = llamadas[d] - 1
      BY <1>1, <2>1, <2>2, <3>1 DEF Devolver, TypeOK
    <3>3. Cardinality(EnVuelo(d)') = Cardinality(EnVuelo(d)) - 1
      BY <1>2, <2>2, CuentasDelDia
    <3> QED
      BY <2>1, <2>2, <3>1, <3>2, <3>3 DEF PorDia!Deshacer
  <2>3. CASE d # dia[p]
    <3>1. llamadas'[d] = llamadas[d]
      BY <1>1, <2>1, <2>3 DEF Devolver, TypeOK
    <3> QED
      BY <1>2, <2>1, <2>3, <3>1, CuentasDelDia DEF PorDia!varsPresupuesto
  <2> QED
    BY <2>2, <2>3
<1> QED
  BY <1>3, <1>4 DEF Acabar

\* A process that dies pays, on each day, for the calls it had noted there.
LEMMA CaerPaga ==
    ASSUME Inductivo, NEW q \in Proceso, Caer(q), NEW d \in Dia
    PROVE  PorDia(d)!Pagar \/ UNCHANGED PorDia(d)!varsPresupuesto
<1> DEFINE n == Cardinality(EnVuelo(d) \cap DelProceso(q))
<1>1. /\ Cardinality(EnVuelo(d)) = Cardinality(EnVuelo(d)') + n
      /\ n \in Nat /\ Cardinality(EnVuelo(d)') \in Nat
  <2>1. TypeOK
    BY DEF Inductivo
  <2>2. EnVuelo(d)' \subseteq Peticionario
    BY DEF EnVuelo
  <2>3. Cardinality(EnVuelo(d)') \in Nat
    BY <2>2, FS_Subset, FS_CardinalityType, CuotaAssumption
  <2>4. n \in Nat
    BY EnVueloFinito, FS_Intersection, FS_CardinalityType
  <2> QED
    BY <2>1, <2>3, <2>4, CaidaReparte
<1>2. /\ llamadas' = llamadas /\ atendidas' = atendidas
      /\ huerfanas'[d] = huerfanas[d] + n
  BY DEF Caer
<1> HIDE DEF n
<1>3. CASE n = 0
  BY <1>1, <1>2, <1>3, CuentasDelDia DEF PorDia!varsPresupuesto
<1>4. CASE n > 0
  <2>1. /\ n \in 1..Cardinality(EnVuelo(d))
        /\ Cardinality(EnVuelo(d)') = Cardinality(EnVuelo(d)) - n
        /\ atendidas'[d] + huerfanas'[d] = (atendidas[d] + huerfanas[d]) + n
    BY <1>1, <1>2, <1>4, CuentasDelDia
  <2> QED
    BY <1>2, <2>1 DEF PorDia!Pagar
<1> QED
  BY <1>1, <1>3, <1>4

\* Every step of the table is a step of each day's budget, or none of it.
LEMMA PasoCumple ==
    ASSUME Inductivo, [Next]_vars, NEW d \in Dia
    PROVE  PorDia(d)!NextPresupuesto \/ UNCHANGED PorDia(d)!varsPresupuesto
<1>1. CASE PasarMedianoche \/ (\E t \in Topes : CambiarTope(t)) \/ UNCHANGED vars
  <2>1. UNCHANGED <<llamadas, fase, dia, atendidas, huerfanas>>
    BY <1>1 DEF PasarMedianoche, CambiarTope, vars, historia
  <2>2. EnVuelo(d)' = EnVuelo(d)
    BY <2>1 DEF EnVuelo
  <2> QED
    BY <2>1, <2>2 DEF PorDia!varsPresupuesto
<1>2. ASSUME NEW p \in Peticionario, Empezar(p) \/ Desistir(p)
      PROVE  UNCHANGED PorDia(d)!varsPresupuesto
  <2>1. UNCHANGED <<llamadas, atendidas, huerfanas>>
    BY <1>2 DEF Empezar, Desistir, historia
  <2>2. EnVuelo(d)' = EnVuelo(d)
    <3>1. TypeOK /\ fase[p] # "llamando"
      BY <1>2 DEF Inductivo, Empezar, Desistir
    <3> QED
      BY <1>2, <3>1 DEF Empezar, Desistir, EnVuelo, TypeOK
  <2> QED
    BY <2>1, <2>2 DEF PorDia!varsPresupuesto
<1>3. ASSUME NEW p \in Peticionario, Pedir(p) \/ Acabar(p)
      PROVE  PorDia(d)!NextPresupuesto \/ UNCHANGED PorDia(d)!varsPresupuesto
  BY <1>2, <1>3, ConsumirReserva, AcabarPagaODeshace
  DEF Pedir, PorDia!NextPresupuesto
<1>4. ASSUME NEW q \in Proceso, Caer(q)
      PROVE  PorDia(d)!NextPresupuesto \/ UNCHANGED PorDia(d)!varsPresupuesto
  BY <1>4, CaerPaga DEF PorDia!NextPresupuesto
<1> QED
  BY <1>1, <1>3, <1>4 DEF Next

\* The table cuota_llm, with its two processes, its crashes and its limits
\* changed on the way, implements each day's abstract budget: a note is taken
\* only while some configured limit has room, and is paid for or undone once
\* (informe.go: ConsumirCuotaLLM, DevolverCuotaLLM).
THEOREM CadaDiaImplementaElPresupuesto == Spec => CadaDiaCumple
<1>1. Init => Inductivo /\ \A d \in Dia : PorDia(d)!InitPresupuesto
  BY InicioCuadra, InicioCumple
<1>2. Inductivo /\ [Next]_vars => Inductivo'
  BY PasoTipos, PasoCuadra, PasoAcotada DEF Inductivo
<1>3. Inductivo /\ [Next]_vars
        => [\A d \in Dia : PorDia(d)!NextPresupuesto
                           \/ UNCHANGED PorDia(d)!varsPresupuesto]_vars
  BY PasoCumple
<1> QED
  BY <1>1, <1>2, <1>3, PTL DEF Spec, CadaDiaCumple

-----------------------------------------------------------------------------
\* One step of the abstract budget keeps its books, whatever implements it.
LEMMA UnPasoCuadra ==
    ASSUME NEW d \in Dia, PorDia(d)!TypeOKPresupuesto, PorDia(d)!LibrosCuadran,
           PorDia(d)!NextPresupuesto \/ UNCHANGED PorDia(d)!varsPresupuesto
    PROVE  PorDia(d)!TypeOKPresupuesto' /\ PorDia(d)!LibrosCuadran'
<1> DEFINE enVuelo == Cardinality(EnVuelo(d))
           pagadas == atendidas[d] + huerfanas[d]
           notas == llamadas[d]
<1>1. /\ enVuelo \in Nat /\ pagadas \in Nat /\ notas \in Nat
      /\ notas = enVuelo + pagadas
      /\ (\A t \in Topes : t > 0) => \E t \in Topes \cup {0} : notas <= t
  BY DEF PorDia!TypeOKPresupuesto, PorDia!LibrosCuadran
<1>2. Topes \subseteq Int
  BY CuotaAssumption
<1>3. CASE PorDia(d)!Reservar
  <2>1. /\ \E t \in Topes : t <= 0 \/ notas < t
        /\ notas' = notas + 1 /\ enVuelo' = enVuelo + 1 /\ pagadas' = pagadas
    BY <1>3 DEF PorDia!Reservar, PorDia!HaySitio
  <2> HIDE DEF enVuelo, pagadas, notas
  <2>2. enVuelo' \in Nat /\ pagadas' \in Nat /\ notas' \in Nat /\ notas' = enVuelo' + pagadas'
    BY <1>1, <2>1
  <2>3. (\A t \in Topes : t > 0) => \E t \in Topes \cup {0} : notas' <= t
    <3> SUFFICES ASSUME \A t \in Topes : t > 0
                 PROVE  \E t \in Topes \cup {0} : notas' <= t
      OBVIOUS
    <3>1. PICK t \in Topes : t <= 0 \/ notas < t
      BY <2>1
    <3>2. t \in Int /\ t > 0
      BY <1>2
    <3>3. notas' <= t
      BY <1>1, <2>1, <3>1, <3>2
    <3> QED
      BY <3>3
  <2> QED
    BY <2>2, <2>3 DEF PorDia!TypeOKPresupuesto, PorDia!LibrosCuadran, enVuelo, pagadas, notas
<1>4. CASE PorDia(d)!Pagar \/ PorDia(d)!Deshacer \/ UNCHANGED PorDia(d)!varsPresupuesto
  <2>1. /\ enVuelo' \in Nat /\ pagadas' \in Nat /\ notas' \in Nat
        /\ notas' = enVuelo' + pagadas' /\ notas' <= notas
    <3>1. \/ /\ \E n \in 1..enVuelo : enVuelo' = enVuelo - n /\ pagadas' = pagadas + n
             /\ notas' = notas
          \/ /\ enVuelo > 0 /\ notas' = notas - 1
             /\ enVuelo' = enVuelo - 1 /\ pagadas' = pagadas
          \/ enVuelo' = enVuelo /\ pagadas' = pagadas /\ notas' = notas
      BY <1>4 DEF PorDia!Pagar, PorDia!Deshacer, PorDia!varsPresupuesto
    <3> HIDE DEF enVuelo, pagadas, notas
    <3> QED
      BY <1>1, <3>1
  <2> HIDE DEF enVuelo, pagadas, notas
  <2>2. (\A t \in Topes : t > 0) => \E t \in Topes \cup {0} : notas' <= t
    <3> SUFFICES ASSUME \A t \in Topes : t > 0
                 PROVE  \E t \in Topes \cup {0} : notas' <= t
      OBVIOUS
    <3>1. PICK t \in Topes \cup {0} : notas <= t
      BY <1>1
    <3>2. t \in Int
      BY <1>2
    <3>3. notas \in Nat
      BY <1>1
    <3>4. notas' \in Nat /\ notas' <= notas
      BY <2>1
    <3>5. notas <= t
      BY <3>1
    <3>6. notas' <= t
      BY <3>2, <3>3, <3>4, <3>5
    <3> QED
      BY <3>6
  <2> QED
    BY <2>1, <2>2 DEF PorDia!TypeOKPresupuesto, PorDia!LibrosCuadran, enVuelo, pagadas, notas
<1> QED
  BY <1>3, <1>4 DEF PorDia!NextPresupuesto

\* What the abstract budget promises, from its own steps alone: the notes of a
\* day are the calls in flight and those paid for, and with a limit they never
\* pass the largest.  The table does as it says (ConsumirCuotaLLM,
\* DevolverCuotaLLM), so its rows keep the promise.
THEOREM LosLibrosCuadran ==
    /\ CadaDiaCumple => [](\A d \in Dia : PorDia(d)!LibrosCuadran)
    /\ Spec => [](\A d \in Dia : PorDia(d)!LibrosCuadran)
<1> DEFINE Bien == \A d \in Dia : PorDia(d)!TypeOKPresupuesto /\ PorDia(d)!LibrosCuadran
           Libros == \A d \in Dia : PorDia(d)!LibrosCuadran
           Empieza == \A d \in Dia : PorDia(d)!InitPresupuesto
           Paso == \A d \in Dia :
                     PorDia(d)!NextPresupuesto \/ UNCHANGED PorDia(d)!varsPresupuesto
<1>1. Empieza => Bien
  BY DEF PorDia!InitPresupuesto, PorDia!TypeOKPresupuesto, PorDia!LibrosCuadran
<1>2. Bien /\ [Paso]_vars => Bien'
  <2> SUFFICES ASSUME Bien, [Paso]_vars, NEW d \in Dia
               PROVE  PorDia(d)!TypeOKPresupuesto' /\ PorDia(d)!LibrosCuadran'
    OBVIOUS
  <2>1. UNCHANGED vars => UNCHANGED PorDia(d)!varsPresupuesto
    BY DEF vars, historia, EnVuelo, PorDia!varsPresupuesto
  <2> QED
    BY <2>1, UnPasoCuadra
<1>3. Bien => Libros
  OBVIOUS
<1>4. CadaDiaCumple => []Libros
  BY <1>1, <1>2, <1>3, PTL DEF CadaDiaCumple
<1> QED
  BY <1>4, CadaDiaImplementaElPresupuesto, PTL
=============================================================================
