---------------------------- MODULE BucleAgrupar ----------------------------
(***************************************************************************)
(* The loop of episodio.Agrupar, one event at a time.                      *)
(*                                                                         *)
(* The slice comes ordered by date (events of the same tick in any order). *)
(* "abiertos" remembers, for each pair, the row its events are going to;   *)
(* absorber folds an event into that row.                                  *)
(***************************************************************************)
EXTENDS Agrupacion

CONSTANT Tandas    \* the batches of events the loop is started on

ASSUME TandasAssumption ==
  \A S \in Tandas : S \subseteq Evento /\ IsFiniteSet(S)

VARIABLES
  tanda,      \* the whole batch
  quedan,     \* the part of it the loop has not reached
  abiertos,   \* pair -> key of its open row; a pair without one is absent
  filas       \* key -> row

vars == <<tanda, quedan, abiertos, filas>>

Init ==
  /\ tanda \in Tandas
  /\ quedan = tanda
  /\ abiertos = [g \in {} |-> <<>>]
  /\ filas = [k \in {} |-> <<>>]

Vacio == [fin |-> 0, eventos |-> 0, severidad |-> Roce, soloConexiones |-> TRUE]

(* Mutant: the row takes the severity, the date and the kind of its last
   event. *)
AbsorberUltimo(f, e) ==
  [fin            |-> e.ts,
   eventos        |-> f.eventos + 1,
   severidad      |-> Rango(e),
   soloConexiones |-> e.hecho.tipo = "conexion"]

(* absorber: the row after one more event. *)
Absorber(f, e) ==
  [fin            |-> IF e.ts > f.fin THEN e.ts ELSE f.fin,
   eventos        |-> f.eventos + 1,
   severidad      |-> Peor(f.severidad, Rango(e)),
   soloConexiones |-> f.soloConexiones /\ e.hecho.tipo = "conexion"]

(* The open row still takes the event: no more than a silence has passed. *)
Sigue(e) ==
  /\ e.grupo \in DOMAIN abiertos
  /\ e.ts - filas[abiertos[e.grupo]].fin <= Hueco

Continuar(e) ==
  /\ Sigue(e)
  /\ filas' = [filas EXCEPT ![abiertos[e.grupo]] = Absorber(@, e)]
  /\ UNCHANGED abiertos

Abrir(e) ==
  LET k == <<e.grupo, e.ts>>
  IN  /\ ~ Sigue(e)
      /\ filas' = [j \in DOMAIN filas \cup {k} |->
                     IF j = k THEN Absorber(Vacio, e) ELSE filas[j]]
      /\ abiertos' = [g \in DOMAIN abiertos \cup {e.grupo} |->
                        IF g = e.grupo THEN k ELSE abiertos[g]]

Siguiente(e) == \A d \in quedan : e.ts <= d.ts

Next ==
  \E e \in quedan :
    /\ Siguiente(e)
    /\ Continuar(e) \/ Abrir(e)
    /\ quedan' = quedan \ {e}
    /\ UNCHANGED tanda

Spec == Init /\ [][Next]_vars

-----------------------------------------------------------------------------
(* At every turn of the loop the rows are exactly the attacks among the    *)
(* events absorbed so far: the loop agrees with the set definition of an   *)
(* attack that every other module uses.                                    *)
FilasSonLosAtaques == filas = Agrupar(tanda \ quedan)

(* The loop: what it has absorbed comes before what it has not, and the    *)
(* open row of a pair is the one of its last run.                          *)
AbiertosSonLosUltimos ==
  LET S == tanda \ quedan
  IN  /\ \A x \in S : \A y \in quedan : x.ts <= y.ts
      /\ DOMAIN abiertos = {x.grupo : x \in S}
      /\ \A g \in DOMAIN abiertos :
           LET s == abiertos[g][2]
           IN  /\ abiertos[g] = <<g, s>>
               /\ EsInicio(S, g, s)
               /\ \A x \in Del(S, g) : EsInicio(S, g, x.ts) => x.ts <= s

InductivoBucle ==
  /\ tanda \subseteq Evento /\ IsFiniteSet(tanda) /\ quedan \subseteq tanda
  /\ AbiertosSonLosUltimos
  /\ FilasSonLosAtaques

=============================================================================
