------------------------------ MODULE Aprendiz ------------------------------
(***************************************************************************)
(* The learner: the collector looks at the commands captured since its     *)
(* watermark, asks the model to gloss the forms nobody knows, a batch at a *)
(* time, and only then moves the watermark (aprenderComandos in main.go).  *)
(* The panel's "explain step by step" (web/glosa.go) fills the same table  *)
(* from another process.  Whether the daily budget has room is left open   *)
(* here: CuotaLLM models it.                                               *)
(***************************************************************************)
EXTENDS Integers, FiniteSets

CONSTANTS Forma,       \* normalised commands the fixed catalogue does not know
          Nada,        \* any other event: no command, or one it does know
          Idiomas,     \* languages of the glosses
          Tanda,       \* forms of the learner's batch (maxPorTanda)
          TandaPanel,  \* forms of the panel's batch (maxCount)
          MaxId,       \* bound: events
          MaxCambios,  \* bound: changes of language, purges
          MaxParos     \* bound: crashes of the collector

ASSUME AprendizAssumption ==
    /\ IsFiniteSet(Forma) /\ Nada \notin Forma
    /\ Tanda \in Nat \ {0} /\ TandaPanel \in Nat \ {0}
    /\ MaxId \in Nat /\ MaxCambios \in Nat /\ MaxParos \in Nat

VARIABLES
    eventos,   \* table eventos: what each identifier in it was
    ultimoId,  \* AUTOINCREMENT: the largest identifier ever given
    glosas,    \* table glosas_aprendidas: its (norm, idioma) keys
    idioma,    \* c.Idioma
    marca,     \* ultimoComando, in the collector's memory
    marcaDB,   \* the row aprendiz_ultimo_evento
    vuelta,    \* the round of the learner: its phase and locals
    peticion,  \* the panel's request: its phase and locals
    intentadas,\* history: forms of the learner's answered batches
    cambios, paros

varsAprendiz == <<eventos, ultimoId, glosas, idioma, marca, marcaDB, vuelta,
                  peticion, intentadas, cambios, paros>>

Ids == 1..MaxId
Reposo == [fase |-> "reposo", hasta |-> 0, lote |-> {}, resto |-> FALSE,
           en |-> CHOOSE l \in Idiomas : TRUE]

InitAprendiz ==
    /\ eventos = [i \in {} |-> Nada]
    /\ ultimoId = 0
    /\ glosas = {}
    /\ idioma \in Idiomas
    /\ marca = 0 /\ marcaDB = 0
    /\ vuelta = Reposo
    /\ peticion = Reposo
    /\ intentadas = {}
    /\ cambios = 0 /\ paros = 0

-----------------------------------------------------------------------------
(* Around the learner.                                                     *)
Llega(f) ==
    /\ ultimoId < MaxId
    /\ ultimoId' = ultimoId + 1
    /\ eventos' = [i \in DOMAIN eventos \cup {ultimoId'} |->
                     IF i = ultimoId' THEN f ELSE eventos[i]]
    /\ UNCHANGED <<glosas, idioma, marca, marcaDB, vuelta, peticion, intentadas,
                   cambios, paros>>

\* Retention goes by date, not by identifier: a line of a late log may be the
\* newest row and the first to go.
PurgaEvento(i) ==
    /\ cambios < MaxCambios
    /\ cambios' = cambios + 1
    /\ eventos' = [j \in DOMAIN eventos \ {i} |-> eventos[j]]
    /\ UNCHANGED <<ultimoId, glosas, idioma, marca, marcaDB, vuelta, peticion,
                   intentadas, paros>>

CambiaIdioma(l) ==
    /\ cambios < MaxCambios /\ l # idioma
    /\ cambios' = cambios + 1
    /\ idioma' = l
    /\ UNCHANGED <<eventos, ultimoId, glosas, marca, marcaDB, vuelta, peticion,
                   intentadas, paros>>

-----------------------------------------------------------------------------
(* The learner.                                                            *)
Mayor(S, otro) == IF S = {} THEN otro ELSE CHOOSE n \in S : \A m \in S : m <= n

\* ComandosNuevosAgrupados, first statement: COALESCE(MAX(id), desdeID).
FijarTecho ==
    /\ vuelta.fase = "reposo"
    /\ vuelta' = [Reposo EXCEPT !.fase = "techo", !.en = idioma,
                                 !.hasta = Mayor(DOMAIN eventos, marca)]
    /\ UNCHANGED <<eventos, ultimoId, glosas, idioma, marca, marcaDB, peticion,
                   intentadas, cambios, paros>>

\* How many events between the mark and the ceiling have form f.
Veces(f) == Cardinality({i \in DOMAIN eventos : i > marca /\ i <= vuelta.hasta /\ eventos[i] = f})
Nuevas(l) == {f \in Forma : Veces(f) > 0 /\ <<f, l>> \notin glosas}

\* The batch: the most frequent forms, or one alone when it is too long for
\* company (maxCharsTanda), so any size from one to the limit.
Lotes(S, n) ==
    {L \in SUBSET S : /\ L # {} /\ Cardinality(L) <= n
                      /\ \A f \in L, g \in S \ L : Veces(f) >= Veces(g)}

\* Mutant: the mark is moved although the batch did not hold every form.
MarcaTrasSinResto(hecho) == vuelta.hasta

\* The mark after a round: kept when some form was left out of the batch.
MarcaTras(hecho) == IF hecho THEN vuelta.hasta ELSE marca

\* The caller: the memory, then the row, whose failure is ignored.
Avanzar(m) ==
    /\ marca' = m
    /\ marcaDB' \in IF m = marca THEN {marcaDB} ELSE {m, marcaDB}

\* Second statement, and the sieve: catalogue, empty forms, glosses known.
Agrupar ==
    /\ vuelta.fase = "techo"
    /\ \/ /\ Nuevas(vuelta.en) = {}
          /\ Avanzar(MarcaTras(TRUE))
          /\ vuelta' = Reposo
       \/ /\ \E L \in Lotes(Nuevas(vuelta.en), Tanda) :
               vuelta' = [vuelta EXCEPT !.fase = "llamando", !.lote = L,
                                        !.resto = L # Nuevas(vuelta.en)]
          /\ UNCHANGED <<marca, marcaDB>>
    /\ UNCHANGED <<eventos, ultimoId, glosas, idioma, peticion, intentadas, cambios, paros>>

\* GlosarComandos answered: the blank ones (and those whose INSERT failed) are
\* not in the table, and nothing tells them from the rest.
Glosar(dichas) ==
    /\ vuelta.fase = "llamando"
    /\ glosas' = glosas \cup (dichas \X {vuelta.en})
    /\ intentadas' = intentadas \cup vuelta.lote
    /\ Avanzar(MarcaTras(~vuelta.resto))
    /\ vuelta' = Reposo
    /\ UNCHANGED <<eventos, ultimoId, idioma, peticion, cambios, paros>>

\* Switched off, budget spent, a statement or the call failed: same mark.
Abandonar ==
    /\ vuelta.fase # "reposo"
    /\ vuelta' = Reposo
    /\ UNCHANGED <<eventos, ultimoId, glosas, idioma, marca, marcaDB, peticion,
                   intentadas, cambios, paros>>

\* The collector restarts and reads the row back.
ReiniciaAprendiz ==
    /\ paros < MaxParos
    /\ paros' = paros + 1
    /\ marca' = marcaDB
    /\ vuelta' = Reposo
    /\ UNCHANGED <<eventos, ultimoId, glosas, idioma, marcaDB, peticion, intentadas, cambios>>

-----------------------------------------------------------------------------
(* The panel: glosarEpisodio.                                              *)

\* The commands of one attack, whichever events it has, without the forms
\* already glossed in the request's language; at most a batch of them.
PedirGlosa(S, l) ==
    /\ peticion.fase = "reposo"
    /\ S \subseteq {eventos[i] : i \in DOMAIN eventos} \cap Forma
    /\ S # {} /\ Cardinality(S) <= TandaPanel
    /\ \A f \in S : <<f, l>> \notin glosas
    /\ peticion' = [Reposo EXCEPT !.fase = "llamando", !.lote = S, !.en = l]
    /\ UNCHANGED <<eventos, ultimoId, glosas, idioma, marca, marcaDB, vuelta,
                   intentadas, cambios, paros>>

\* The answer, or (dichas = {}) its failure and the budget's refusal.
AcabarGlosa(dichas) ==
    /\ peticion.fase = "llamando"
    /\ glosas' = glosas \cup (dichas \X {peticion.en})
    /\ peticion' = Reposo
    /\ UNCHANGED <<eventos, ultimoId, idioma, marca, marcaDB, vuelta, intentadas,
                   cambios, paros>>

GlosarTodo == Glosar(vuelta.lote)

NextAprendiz ==
    \/ \E f \in Forma \cup {Nada} : Llega(f)
    \/ \E i \in DOMAIN eventos : PurgaEvento(i)
    \/ \E l \in Idiomas : CambiaIdioma(l)
    \/ FijarTecho
    \/ Agrupar
    \/ \E dichas \in SUBSET vuelta.lote : Glosar(dichas)
    \/ Abandonar
    \/ ReiniciaAprendiz
    \/ \E S \in SUBSET Forma, l \in Idiomas : PedirGlosa(S, l)
    \/ \E dichas \in SUBSET peticion.lote : AcabarGlosa(dichas)

SpecAprendiz == InitAprendiz /\ [][NextAprendiz]_varsAprendiz

\* The loop runs while the collector does.  A round that reaches the model
\* again and again is answered whole again and again: a provider that always
\* leaves the most frequent forms blank would be asked the same batch for ever.
JustoAprendiz ==
    /\ WF_varsAprendiz(FijarTecho)
    /\ SF_varsAprendiz(Agrupar)
    /\ SF_varsAprendiz(GlosarTodo)

-----------------------------------------------------------------------------
Vueltas(fases) == [fase : fases, hasta : 0..MaxId, lote : SUBSET Forma,
                   resto : BOOLEAN, en : Idiomas]

\* The types of the tables, the marks and the locals of the two loops.
TypeOKAprendiz ==
    /\ ultimoId \in 0..MaxId
    /\ DOMAIN eventos \subseteq 1..ultimoId
    /\ \A i \in DOMAIN eventos : eventos[i] \in Forma \cup {Nada}
    /\ glosas \subseteq Forma \X Idiomas
    /\ idioma \in Idiomas
    /\ marca \in 0..ultimoId /\ marcaDB \in 0..ultimoId
    /\ vuelta \in Vueltas({"reposo", "techo", "llamando"}) /\ vuelta.hasta <= ultimoId
    /\ peticion \in Vueltas({"reposo", "llamando"})
    /\ intentadas \subseteq Forma

SabidaOPreguntada(f) == f \in intentadas \/ \E l \in Idiomas : <<f, l>> \in glosas

\* Neither mark ever passes an event whose command nobody knows and nobody
\* asked about: in spite of events that arrive between the ceiling and the
\* grouping, batches that leave forms out, purges, crashes and a panel that
\* answers the same forms meanwhile (aprenderComandos, "no adelantamos la
\* marca").  What a batch left blank does count as asked.
MarcaSoloLoVisto ==
    \A i \in DOMAIN eventos :
        (eventos[i] \in Forma /\ (i <= marca \/ i <= marcaDB)) =>
            SabidaOPreguntada(eventos[i])

\* The batch the model was asked for is all there was to ask below the ceiling,
\* when the round is going to move the mark.
LoteCompleto ==
    (vuelta.fase = "llamando" /\ ~vuelta.resto) =>
        \A i \in DOMAIN eventos :
            (eventos[i] \in Forma /\ i <= vuelta.hasta) =>
                eventos[i] \in vuelta.lote \/ SabidaOPreguntada(eventos[i])

InductivoAprendiz == TypeOKAprendiz /\ MarcaSoloLoVisto /\ LoteCompleto

\* Every command captured ends up explained in some language, or was in a
\* batch the model answered, or its event was purged.
TodoSeGlosa ==
    \A i \in Ids :
        (i \in DOMAIN eventos /\ eventos[i] \in Forma) ~>
            (i \notin DOMAIN eventos \/ SabidaOPreguntada(eventos[i]))
=============================================================================
