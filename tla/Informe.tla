------------------------------ MODULE Informe ------------------------------
(***************************************************************************)
(* The period's report and the models that write it.  Politica serves the  *)
(* panel (report/programado.go): a refresh never costs, a report asked for *)
(* by hand is noted, written by the first model with tokens, and stored if *)
(* a model did write it.  Multiplexor walks the configured models in order *)
(* and pauses the ones that answer 429; questions fall through to the next *)
(* model, reports fall back to the rules (report/multiplexor.go).          *)
(***************************************************************************)
EXTENDS Integers, FiniteSets

CONSTANTS Peticion,   \* requests of the panel in flight
          Modelos,    \* how many models ModelosEfectivos lists
          Periodos,   \* values of "dias"
          TopeInforme,\* InformeTopeDiario; <= 0: no limit
          MaxPausa,   \* ticks of the longest pause
          MaxNotas,   \* bound: notes of the day when there is no limit
          MaxDatos    \* bound: changes of what a report would tell

ASSUME InformeAssumption ==
    /\ IsFiniteSet(Peticion) /\ Modelos \in Nat \ {0} /\ TopeInforme \in Int
    /\ MaxPausa \in Nat \ {0} /\ MaxNotas \in Nat /\ MaxDatos \in Nat

VARIABLES
    datos,      \* Huella of what the tables say now
    guardado,   \* the one row of table informe, or SinInforme
    notas,      \* cuota_llm of today
    pausa,      \* ia_pausa:<id>: ticks left of each model's pause
    trabajo,    \* each request: phase, what it read, the model it is at
    servido,    \* the last report served, with what its request had read
    redactadas  \* history: texts the models delivered

varsInforme == <<datos, guardado, notas, pausa, trabajo, servido, redactadas>>

SinInforme == [autor |-> "nadie", huella |-> 0, dias |-> 0]
Libre == [fase |-> "libre", que |-> "nada", huella |-> 0, dias |-> 0, i |-> 1]
SinServir == [autor |-> "nadie", huella |-> 0, dias |-> 0,
              conIA |-> FALSE, viejo |-> FALSE, leida |-> 0, pedidos |-> 0]

\* Mutant: only the exact signature of the rules.
SoloFirmaExacta(autor) == autor = "reglas"
\* The signature of the rules, alone or with the reason of the fallback.
loEscribieronLasReglas(autor) == autor \in {"reglas", "reglas (el LLM no estaba disponible)"}
Repliegue == "reglas (el LLM no estaba disponible)"

InitInforme ==
    /\ datos = 0
    /\ guardado = SinInforme
    /\ notas = 0
    /\ pausa = [m \in 1..Modelos |-> 0]
    /\ trabajo = [r \in Peticion |-> Libre]
    /\ servido = SinServir
    /\ redactadas = 0

-----------------------------------------------------------------------------
CambianDatos ==
    /\ datos < MaxDatos
    /\ datos' = datos + 1
    /\ UNCHANGED <<guardado, notas, pausa, trabajo, servido, redactadas>>

PasaElRato ==
    /\ \E m \in 1..Modelos : pausa[m] > 0
    /\ pausa' = [m \in 1..Modelos |-> IF pausa[m] > 0 THEN pausa[m] - 1 ELSE 0]
    /\ UNCHANGED <<datos, guardado, notas, trabajo, servido, redactadas>>

\* The handler gathers the data: GET "auto", POST "mano"; "pregunta" is any
\* of the requests that only want an answer.
Recibir(r, que, d) ==
    /\ trabajo[r].fase = "libre"
    /\ trabajo' = [trabajo EXCEPT ![r] =
         [fase |-> IF que = "auto" THEN "auto" ELSE "cuota",
          que |-> que, i |-> 1, dias |-> IF que = "pregunta" THEN 0 ELSE d,
          huella |-> IF que = "pregunta" THEN 0 ELSE datos]]
    /\ UNCHANGED <<datos, guardado, notas, pausa, servido, redactadas>>

Servir(r, autor, huella, d, ia, viejo) ==
    servido' = [autor |-> autor, huella |-> huella, dias |-> d, conIA |-> ia,
                viejo |-> viejo, leida |-> trabajo[r].huella, pedidos |-> trabajo[r].dias]

Soltar(r) == trabajo' = [trabajo EXCEPT ![r] = Libre]

\* The stored report is served whatever it says when a model wrote it about
\* the same period, and marked when the data are others.
ValeElGuardado(d) ==
    guardado # SinInforme /\ guardado.dias = d /\ ~loEscribieronLasReglas(guardado.autor)

ServirAutomatico(r) ==
    LET t == trabajo[r] IN
      IF ValeElGuardado(t.dias)
      THEN Servir(r, guardado.autor, guardado.huella, guardado.dias, TRUE,
                  guardado.huella # t.huella)
      ELSE Servir(r, "reglas", t.huella, t.dias, FALSE, FALSE)

Automatico(r) ==
    /\ trabajo[r].fase = "auto"
    /\ ServirAutomatico(r)
    /\ Soltar(r)
    /\ UNCHANGED <<datos, guardado, notas, pausa, redactadas>>

HayCuota == IF TopeInforme <= 0 THEN notas < MaxNotas ELSE notas < TopeInforme

\* ConsumirCuotaLLM; refused, a report by hand is served like a refresh.
Apuntar(r) ==
    /\ trabajo[r].fase = "cuota"
    /\ IF HayCuota
       THEN /\ notas' = notas + 1
            /\ trabajo' = [trabajo EXCEPT ![r].fase = "eligiendo"]
       ELSE /\ trabajo' = [trabajo EXCEPT ![r] =
                 IF @.que = "mano" THEN [@ EXCEPT !.fase = "auto"] ELSE Libre]
            /\ UNCHANGED notas
    /\ UNCHANGED <<datos, guardado, pausa, servido, redactadas>>

\* Mutant: nobody undoes the note.
NoDevolverNota == UNCHANGED notas

DevolverNota == notas' = IF notas > 0 THEN notas - 1 ELSE 0

-----------------------------------------------------------------------------
(* Multiplexor.                                                            *)
Saltar(r) ==
    /\ trabajo[r].fase = "eligiendo" /\ trabajo[r].i <= Modelos
    /\ pausa[trabajo[r].i] > 0
    /\ trabajo' = [trabajo EXCEPT ![r].i = @ + 1]
    /\ UNCHANGED <<datos, guardado, notas, pausa, servido, redactadas>>

Llamar(r) ==
    /\ trabajo[r].fase = "eligiendo" /\ trabajo[r].i <= Modelos
    /\ pausa[trabajo[r].i] = 0
    /\ trabajo' = [trabajo EXCEPT ![r].fase = "llamando"]
    /\ UNCHANGED <<datos, guardado, notas, pausa, servido, redactadas>>

\* No model left: the rules write the report, a question is an error.
SinModelos(r) ==
    /\ trabajo[r].fase = "eligiendo" /\ trabajo[r].i > Modelos
    /\ DevolverNota
    /\ IF trabajo[r].que = "mano"
       THEN Servir(r, "reglas", trabajo[r].huella, trabajo[r].dias, FALSE, FALSE)
       ELSE UNCHANGED servido
    /\ Soltar(r)
    /\ UNCHANGED <<datos, guardado, pausa, redactadas>>

\* What AMano does with a written report: kept when a model wrote it, and its
\* note undone when not.  If the INSERT fails the text is lost, the note stays.
Entregar(r, autor) ==
    LET t == trabajo[r]
        ia == ~loEscribieronLasReglas(autor) IN
    /\ IF ia THEN UNCHANGED notas ELSE DevolverNota
    /\ \/ /\ guardado' = IF ia THEN [autor |-> autor, huella |-> t.huella, dias |-> t.dias]
                               ELSE guardado
          /\ Servir(r, autor, t.huella, t.dias, ia, FALSE)
       \/ ia /\ UNCHANGED <<guardado, servido>>

Redactar(r) ==
    /\ trabajo[r].fase = "llamando"
    /\ redactadas' = redactadas + 1
    /\ IF trabajo[r].que = "mano" THEN Entregar(r, "modelo")
       ELSE UNCHANGED <<notas, guardado, servido>>
    /\ Soltar(r)
    /\ UNCHANGED <<datos, pausa>>

\* A report's call fails: the model's own Generar falls back to the rules.
Replegarse(r) ==
    /\ trabajo[r].fase = "llamando" /\ trabajo[r].que = "mano"
    /\ Entregar(r, Repliegue)
    /\ Soltar(r)
    /\ UNCHANGED <<datos, pausa, redactadas>>

\* A question's call fails: the next model; after a 429 the model rests p
\* ticks, whatever was left of an earlier pause.
ProbarSiguiente(r, p) ==
    /\ trabajo[r].fase = "llamando" /\ trabajo[r].que = "pregunta"
    /\ pausa' = IF p > 0 THEN [pausa EXCEPT ![trabajo[r].i] = p] ELSE pausa
    /\ trabajo' = [trabajo EXCEPT ![r].fase = "eligiendo", ![r].i = @ + 1]
    /\ UNCHANGED <<datos, guardado, notas, servido, redactadas>>

NextInforme ==
    \/ CambianDatos
    \/ PasaElRato
    \/ \E r \in Peticion :
         \/ \E que \in {"auto", "mano", "pregunta"}, d \in Periodos : Recibir(r, que, d)
         \/ Automatico(r) \/ Apuntar(r)
         \/ Saltar(r) \/ Llamar(r) \/ SinModelos(r)
         \/ Redactar(r) \/ Replegarse(r)
         \/ \E p \in 0..MaxPausa : ProbarSiguiente(r, p)

SpecInforme == InitInforme /\ [][NextInforme]_varsInforme

-----------------------------------------------------------------------------
EnCurso == {r \in Peticion : trabajo[r].fase \in {"eligiendo", "llamando"}}

\* The locals of a request's handler: i may run past the last model.
Trabajos == [fase : {"libre", "auto", "cuota", "eligiendo", "llamando"},
             que : {"nada", "auto", "mano", "pregunta"},
             huella : 0..MaxDatos, dias : Periodos \cup {0}, i : 1..(Modelos + 1)]

\* The types of the rows and of the requests' locals.
TypeOKInforme ==
    /\ datos \in 0..MaxDatos
    /\ guardado.huella \in 0..MaxDatos
    /\ notas \in Nat /\ redactadas \in Nat
    /\ pausa \in [1..Modelos -> 0..MaxPausa]
    /\ trabajo \in [Peticion -> Trabajos]

\* Nothing the rules wrote is ever stored or served as the model's; what is
\* served covers the period asked for; and unless it is marked as outdated it
\* tells the data its own request read, however late a slower request
\* overwrote the row (programado.go: GuardarInforme, Desactualizado).
InformeHonesto ==
    /\ guardado = SinInforme \/ guardado.autor = "modelo"
    /\ servido.conIA = (servido.autor = "modelo")
    /\ servido.dias = servido.pedidos
    /\ servido.viejo = (servido.huella # servido.leida)

\* A model is called only while there is one (multiplexor.go).
LlamaAUno == \A r \in Peticion : trabajo[r].fase = "llamando" => trabajo[r].i <= Modelos

\* The day's row is the requests under way and the texts delivered: that is
\* why DevolverNota's MAX(0, ...) never takes a note somebody else paid.
NotasCuadran == notas = Cardinality(EnCurso) + redactadas

\* The inductive invariant of PanelPruebas (programado.go, multiplexor.go).
InductivoInforme == TypeOKInforme /\ LlamaAUno /\ NotasCuadran /\ InformeHonesto

\* Informe spends as Presupuesto says: a request is noted once, before the
\* first model, and pays if and only if a model delivered a text; models
\* skipped, questions handed from one model to the next and fallbacks to the
\* rules give the note back (multiplexor.go, programado.go: AMano).
ElPresupuesto == INSTANCE Presupuesto WITH
    Limites <- {TopeInforme},
    enVuelo <- Cardinality(EnCurso),
    pagadas <- redactadas
CumplePresupuesto == ElPresupuesto!SpecPresupuesto
=============================================================================
