------------------------------ MODULE CuotaLLM ------------------------------
(***************************************************************************)
(* The daily budget of calls to the language model: the table cuota_llm    *)
(* (internal/store/informe.go) and everyone that spends from it.  The      *)
(* panel's handlers, its background sweeper and the collector's learner    *)
(* all follow one discipline: take the day and the limit, note the call in *)
(* the table, call, and undo the note if the call fails.  They run in two  *)
(* operating-system processes that share nothing but the database, and     *)
(* either may die with a call in flight.                                   *)
(***************************************************************************)
EXTENDS Integers, FiniteSets

CONSTANTS Peticionario,  \* what can have a call in flight: requests, loops
          Proceso,       \* the panel and the collector
          ProcesoDe,     \* the process each one runs in
          Topes,         \* values InformeTopeDiario may take; <= 0: no limit
          MaxDia,        \* bound: calendar days
          MaxLlamadas,   \* bound: calls noted on a day without limit
          MaxGastadas,   \* bound: failed calls the provider served anyway
          MaxCaidas      \* bound: crashes

ASSUME CuotaAssumption ==
    /\ IsFiniteSet(Peticionario)
    /\ ProcesoDe \in [Peticionario -> Proceso]
    /\ Topes \subseteq Int
    /\ MaxDia \in Nat \ {0}
    /\ MaxLlamadas \in Nat /\ MaxGastadas \in Nat /\ MaxCaidas \in Nat

Dia == 1..MaxDia

VARIABLES
    hoy,        \* the calendar day
    tope,       \* InformeTopeDiario as the configuration has it now
    llamadas,   \* cuota_llm: calls noted on each day
    fase,       \* where each requester is
    dia,        \* the day it took when it started
    limite,     \* the limit it took when it started
    atendidas,  \* history: calls answered and kept, by the day noted
    gastadas,   \* history: calls the provider served and whose note was undone
    huerfanas,  \* history: notes that outlived their call
    caidas      \* bound: crashes so far

historia == <<atendidas, gastadas, huerfanas, caidas>>
vars == <<hoy, tope, llamadas, fase, dia, limite, historia>>

Init ==
    /\ hoy = 1
    /\ tope \in Topes
    /\ llamadas = [d \in Dia |-> 0]
    /\ fase = [p \in Peticionario |-> "reposo"]
    /\ dia = [p \in Peticionario |-> 1]
    /\ limite \in [Peticionario -> {tope}]
    /\ atendidas = [d \in Dia |-> 0]
    /\ gastadas = [d \in Dia |-> 0]
    /\ huerfanas = [d \in Dia |-> 0]
    /\ caidas = 0

-----------------------------------------------------------------------------
PasarMedianoche ==
    /\ hoy < MaxDia
    /\ hoy' = hoy + 1
    /\ UNCHANGED <<tope, llamadas, fase, dia, limite, historia>>

CambiarTope(t) ==
    /\ tope' = t
    /\ UNCHANGED <<hoy, llamadas, fase, dia, limite, historia>>

\* dia := time.Now(), tope := config: read once, used until the call ends.
Empezar(p) ==
    /\ fase[p] = "reposo"
    /\ fase' = [fase EXCEPT ![p] = "calculado"]
    /\ dia' = [dia EXCEPT ![p] = hoy]
    /\ limite' = [limite EXCEPT ![p] = tope]
    /\ UNCHANGED <<hoy, tope, llamadas, historia>>

\* Mutant: off by one in the WHERE.
CabeUnaMas(d, t) == IF t <= 0 THEN llamadas[d] < MaxLlamadas ELSE llamadas[d] <= t

\* The WHERE of the upsert: there is room on day d under limit t.
Cabe(d, t) == IF t <= 0 THEN llamadas[d] < MaxLlamadas ELSE llamadas[d] < t

\* ConsumirCuotaLLM: check and increment are one statement.
Consumir(p) ==
    /\ fase[p] = "calculado"
    /\ Cabe(dia[p], limite[p])
    /\ llamadas' = [llamadas EXCEPT ![dia[p]] = @ + 1]
    /\ fase' = [fase EXCEPT ![p] = "llamando"]
    /\ UNCHANGED <<hoy, tope, dia, limite, historia>>

\* No room, or the database could not say: nothing is noted, nothing called.
Desistir(p) ==
    /\ fase[p] = "calculado"
    /\ fase' = [fase EXCEPT ![p] = "reposo"]
    /\ UNCHANGED <<hoy, tope, llamadas, dia, limite, historia>>

Responder(p) ==
    /\ fase[p] = "llamando"
    /\ fase' = [fase EXCEPT ![p] = "reposo"]
    /\ atendidas' = [atendidas EXCEPT ![dia[p]] = @ + 1]
    /\ UNCHANGED <<hoy, tope, llamadas, dia, limite, gastadas, huerfanas, caidas>>

\* Mutant: the note is undone on today's row, not on the row it was written in.
DevolverHoy(p) ==
    llamadas' = [llamadas EXCEPT ![hoy] = IF @ > 0 THEN @ - 1 ELSE 0]

\* DevolverCuotaLLM(dia): MAX(0, llamadas - 1) on the day the note was taken.
Devolver(p) ==
    llamadas' = [llamadas EXCEPT ![dia[p]] = IF @ > 0 THEN @ - 1 ELSE 0]

\* The call ends in an error before the provider did any work: a refused
\* connection, a 429.
Fallar(p) ==
    /\ fase[p] = "llamando"
    /\ fase' = [fase EXCEPT ![p] = "reposo"]
    /\ Devolver(p)
    /\ UNCHANGED <<hoy, tope, dia, limite, historia>>

\* The call ends in an error although the provider served it: a text without
\* usable JSON, a refusal to answer, an answer later than the 90 s deadline.
\* The code cannot tell, and undoes the note too.
FallarAtendida(p) ==
    /\ fase[p] = "llamando"
    /\ gastadas[dia[p]] < MaxGastadas
    /\ fase' = [fase EXCEPT ![p] = "reposo"]
    /\ Devolver(p)
    /\ gastadas' = [gastadas EXCEPT ![dia[p]] = @ + 1]
    /\ UNCHANGED <<hoy, tope, dia, limite, atendidas, huerfanas, caidas>>

\* The call fails and so does undoing its note, an error every caller drops.
FallarSinDevolver(p) ==
    /\ fase[p] = "llamando"
    /\ fase' = [fase EXCEPT ![p] = "reposo"]
    /\ huerfanas' = [huerfanas EXCEPT ![dia[p]] = @ + 1]
    /\ UNCHANGED <<hoy, tope, llamadas, dia, limite, atendidas, gastadas, caidas>>

\* Requesters with a call noted on day d and not yet finished.
EnVuelo(d) == {p \in Peticionario : fase[p] = "llamando" /\ dia[p] = d}
DelProceso(q) == {p \in Peticionario : ProcesoDe[p] = q}

\* A process dies: what it had noted stays noted.
Caer(q) ==
    /\ caidas < MaxCaidas
    /\ caidas' = caidas + 1
    /\ huerfanas' = [d \in Dia |->
                       huerfanas[d] + Cardinality(EnVuelo(d) \cap DelProceso(q))]
    /\ fase' = [p \in Peticionario |->
                  IF ProcesoDe[p] = q THEN "reposo" ELSE fase[p]]
    /\ UNCHANGED <<hoy, tope, llamadas, dia, limite, atendidas, gastadas>>

Pedir(p) == Empezar(p) \/ Consumir(p) \/ Desistir(p)
Acabar(p) == Responder(p) \/ Fallar(p) \/ FallarAtendida(p) \/ FallarSinDevolver(p)

Next ==
    \/ PasarMedianoche
    \/ \E t \in Topes : CambiarTope(t)
    \/ \E p \in Peticionario : Pedir(p) \/ Acabar(p)
    \/ \E q \in Proceso : Caer(q)

Spec == Init /\ [][Next]_vars

-----------------------------------------------------------------------------
\* The types of the variables (the tables of informe.go and the locals of the
\* callers): a call in flight always belongs to a day that has begun.
TypeOK ==
    /\ hoy \in Dia
    /\ tope \in Topes
    /\ llamadas \in [Dia -> Nat]
    /\ fase \in [Peticionario -> {"reposo", "calculado", "llamando"}]
    /\ dia \in [Peticionario -> Dia]
    /\ limite \in [Peticionario -> Topes]
    /\ atendidas \in [Dia -> Nat]
    /\ gastadas \in [Dia -> Nat]
    /\ huerfanas \in [Dia -> Nat]
    /\ caidas \in Nat

\* The table's books balance: what a day has noted is exactly the calls in
\* flight, the calls answered and the notes nobody was left to undo.  So the
\* MAX(0, ...) of DevolverCuotaLLM never hides a note undone twice, and a
\* provider's breakdown is never charged to the user's budget
\* (informe.go:117-122).
Cuadra ==
    \A d \in Dia : llamadas[d] = Cardinality(EnVuelo(d)) + atendidas[d] + huerfanas[d]

\* However requests of both processes, changes of the limit, midnights and
\* crashes interleave, the calls in flight and answered that a day pays for
\* never exceed the largest limit that was ever configured: the check and the
\* increment leave no window between them (informe.go:77-79).
TopeRespetado ==
    (\A t \in Topes : t > 0) =>
        \A d \in Dia : \E t \in Topes : Cardinality(EnVuelo(d)) + atendidas[d] <= t

\* A day's row never passes the largest limit configured: what TopeRespetado
\* rests on (ConsumirCuotaLLM).
FilaAcotada ==
    (\A t \in Topes : t > 0) => \A d \in Dia : \E t \in Topes : llamadas[d] <= t

\* The inductive invariant of the proofs in CuotaLLMPruebas: types, balanced
\* books (DevolverCuotaLLM) and rows within the limit (ConsumirCuotaLLM).
Inductivo == TypeOK /\ Cuadra /\ FilaAcotada

\* Each day's row spends as Presupuesto says: a note is taken only while some
\* limit ever configured has room, is kept when its call was answered or its
\* process died, and undone once otherwise (informe.go: ConsumirCuotaLLM,
\* DevolverCuotaLLM).
PorDia(d) == INSTANCE Presupuesto WITH
    Limites <- Topes,
    enVuelo <- Cardinality(EnVuelo(d)),
    pagadas <- atendidas[d] + huerfanas[d],
    notas <- llamadas[d]
CadaDiaCumple ==
    /\ \A d \in Dia : PorDia(d)!InitPresupuesto
    /\ [][\A d \in Dia :
           PorDia(d)!NextPresupuesto \/ UNCHANGED PorDia(d)!varsPresupuesto]_vars
=============================================================================
