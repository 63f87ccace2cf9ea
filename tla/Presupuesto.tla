----------------------------- MODULE Presupuesto -----------------------------
(***************************************************************************)
(* What a day's budget of model calls promises whoever spends from it: a   *)
(* call is noted before it is made, if there is room; its note is kept     *)
(* when the call is paid for, and undone when it is not.  CuotaLLM (the    *)
(* table and its two processes) and Informe (the requests of the panel and *)
(* the models they go through) each implement it.                          *)
(***************************************************************************)
EXTENDS Integers

CONSTANT Limites    \* what the limit may be, now or before; <= 0: none

VARIABLES
    enVuelo,  \* calls noted and not finished
    pagadas,  \* calls finished whose note stays
    notas     \* llamadas, the day's row of cuota_llm

varsPresupuesto == <<enVuelo, pagadas, notas>>

InitPresupuesto == enVuelo = 0 /\ pagadas = 0 /\ notas = 0

HaySitio == \E t \in Limites : t <= 0 \/ notas < t

Reservar ==
    /\ HaySitio
    /\ notas' = notas + 1
    /\ enVuelo' = enVuelo + 1
    /\ UNCHANGED pagadas

\* Some calls end and are paid for: one answered, or those of a process that
\* dies, which nobody is left to undo.
Pagar ==
    /\ \E n \in 1..enVuelo : enVuelo' = enVuelo - n /\ pagadas' = pagadas + n
    /\ UNCHANGED notas

Deshacer ==
    /\ enVuelo > 0
    /\ notas' = notas - 1
    /\ enVuelo' = enVuelo - 1
    /\ UNCHANGED pagadas

NextPresupuesto == Reservar \/ Pagar \/ Deshacer

SpecPresupuesto == InitPresupuesto /\ [][NextPresupuesto]_varsPresupuesto

-----------------------------------------------------------------------------
TypeOKPresupuesto == enVuelo \in Nat /\ pagadas \in Nat /\ notas \in Nat

\* The books balance, and with a limit the notes never pass the largest.
LibrosCuadran ==
    /\ notas = enVuelo + pagadas
    /\ (\A t \in Limites : t > 0) => \E t \in Limites \cup {0} : notas <= t
=============================================================================
