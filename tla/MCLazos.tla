------------------------------- MODULE MCLazos -------------------------------
(***************************************************************************)
(* The loops that run without anybody asking: the learner, the narratives, *)
(* the caches of the panel and the care of the installation.  Each lives   *)
(* on tables of its own, so an execution moves one of the four ("parte")   *)
(* and the rest stay as they began.                                        *)
(***************************************************************************)
EXTENDS Aprendiz, Narrativas, EstadoCache, Cuidados

CONSTANT y
VARIABLE parte

varsLazos == <<varsAprendiz, varsNarrativas, varsEstado, varsCuidados, parte>>

\* The languages are alike, so it does not matter which is configured first;
\* and who stays where it began begins in one way.
InitLazos ==
    /\ parte \in {"aprendiz", "narrativas", "estado", "cuidados"}
    /\ InitAprendiz /\ InitNarrativas /\ InitEstado /\ InitCuidados
    /\ idioma = Reposo.en /\ lengua = Reposo.en
    /\ parte # "narrativas" => \A a \in Explicados : explicacion[a].en = lengua

\* The learner is restarted, or loses an event, or changes its language: one
\* of the three in an execution.
UnPercance == cambios + paros <= 1

\* Of the two attacks only the other grows, and is asked for with the button.
SoloSeAbre == guion[y] = 1 /\ boton.de # {y}

\* Every step of one part leaves the other three as they are.
Quietas ==
    /\ UNCHANGED parte
    /\ CASE parte = "aprendiz"   -> UNCHANGED <<varsNarrativas, varsEstado, varsCuidados>>
         [] parte = "narrativas" -> UNCHANGED <<varsAprendiz, varsEstado, varsCuidados>>
         [] parte = "estado"     -> UNCHANGED <<varsAprendiz, varsNarrativas, varsCuidados>>
         [] parte = "cuidados"   -> UNCHANGED <<varsAprendiz, varsNarrativas, varsEstado>>

NextLazos ==
    /\ Quietas
    /\ \/ parte = "aprendiz" /\ NextAprendiz /\ UnPercance'
       \/ parte = "narrativas" /\ NextNarrativas /\ SoloSeAbre'
       \/ parte = "estado" /\ NextEstado
       \/ parte = "cuidados" /\ NextCuidados

(* JustoAprendiz, JustoNarrativas, JustoEstado and JustoCuidados, each for *)
(* the executions it moves in.                                             *)
JustoLazos ==
    /\ WF_varsAprendiz(parte = "aprendiz" /\ FijarTecho)
    /\ SF_varsAprendiz(parte = "aprendiz" /\ Agrupar)
    /\ SF_varsAprendiz(parte = "aprendiz" /\ GlosarTodo)
    /\ SF_varsNarrativas(parte = "narrativas" /\ Barrer)
    /\ SF_varsNarrativas(parte = "narrativas" /\ Escribir)
    /\ WF_varsEstado(parte = "estado" /\ Envejecer)
    /\ WF_varsEstado(parte = "estado" /\ RecalcularIntel)
    /\ \A d \in Rango : WF_varsEstado(parte = "estado" /\ PedirRango(d))
    /\ \A k \in Calculo : WF_varsEstado(parte = "estado" /\ Acierto(k))
    /\ WF_varsCuidados(parte = "cuidados" /\ Vuelta)
    /\ WF_varsCuidados(parte = "cuidados" /\ PasarTiempo)

SpecLazos == InitLazos /\ [][NextLazos]_varsLazos /\ JustoLazos

-----------------------------------------------------------------------------
\* The tables and the locals of the four keep their types, and the learner's
\* mark does not run ahead of what was asked.
TiposDeLosLazos ==
    InductivoAprendiz /\ InductivoNarrativas /\ TypeOKEstado /\ TypeOKCuidados

\* TodoSeRefresca, in the executions that move the caches: whoever keeps
\* asking gets to see what the database has (estado_cache.go:61-85).
LaCacheSeRefresca == parte = "estado" => TodoSeRefresca
=============================================================================
