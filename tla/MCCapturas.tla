----------------------------- MODULE MCCapturas -----------------------------
(***************************************************************************)
(* How what the traps see becomes attacks: the sessions of the native      *)
(* traps, the collector that follows Cowrie's log, and the loop that       *)
(* groups what both leave in the table.  Only the table lies between them, *)
(* and a module's input is whatever the ones before may have left there,   *)
(* so an execution moves one of the three ("parte") and the rest stay as   *)
(* they began.                                                             *)
(*                                                                         *)
(* The loop runs on every batch of up to MaxTanda events of two pairs (one *)
(* with a shell, one without), ticks 0..MaxTs and three kinds of event.    *)
(***************************************************************************)
EXTENDS BucleAgrupar, Seguidor, Trampas

CONSTANTS MaxTs, MaxTanda, Companeras, c2
VARIABLE parte

Muestra ==
  << [tipo |-> "conexion",      cebo |-> FALSE, elevado |-> FALSE],
     [tipo |-> "login_fallido", cebo |-> TRUE,  elevado |-> FALSE],
     [tipo |-> "comando",       cebo |-> FALSE, elevado |-> TRUE] >>

(* The loop never looks at an id, so one is derived from the rest. *)
Universo ==
  {[id    |-> 1 + 3 * p[2] + p[3],
    grupo |-> p[1], ts |-> p[2], hecho |-> Muestra[p[3]]] :
     p \in Grupo \X (0..MaxTs) \X (1..3)}

MCTandas ==
  {{}} \cup {{f[i] : i \in 1..MaxTanda} : f \in [1..MaxTanda -> Universo]}

(* The second connection comes to the traps Companeras, and while it lasts *)
(* so does the first: the handlers share nothing but the memory, which is  *)
(* the same whatever the protocol.                                         *)
Cerca(c) == sesion[c].trampa \in Companeras \cup {"ninguna"}
JuntasCaben == Cerca(c2) /\ (sesion[c2] # Nadie => \A c \in Conexion : Cerca(c))

varsCapturas == <<vars, varsSeguidor, varsTrampas, parte>>

InitCapturas ==
  /\ parte \in {"bucle", "seguidor", "trampas"}
  /\ InitSeguidor /\ InitTrampas
  /\ Init
  /\ parte # "bucle" => tanda = {}

NextCapturas ==
  /\ UNCHANGED parte
  /\ \/ parte = "bucle" /\ Next /\ UNCHANGED <<varsSeguidor, varsTrampas>>
     \/ parte = "seguidor" /\ NextSeguidor /\ UNCHANGED <<vars, varsTrampas>>
     \/ /\ parte = "trampas" /\ NextTrampas /\ JuntasCaben'
        /\ UNCHANGED <<vars, varsSeguidor>>

(* JustoSeguidor and JustoTrampas, each for the executions it moves in. *)
JustoCapturas ==
  /\ WF_varsSeguidor(parte = "seguidor" /\ Seguir)
  /\ WF_varsSeguidor(parte = "seguidor" /\ CrearFichero)
  /\ WF_varsTrampas(parte = "trampas" /\ PasaTiempo)
  /\ \A c \in Conexion : WF_varsTrampas(parte = "trampas" /\ Avanzar(c))

SpecCapturas == InitCapturas /\ [][NextCapturas]_varsCapturas /\ JustoCapturas

-----------------------------------------------------------------------------
(* The variables keep their types; the loop's open rows are those of the   *)
(* last runs; what the follower has read and not given is one stretch of   *)
(* the file; and every session leaves its trace.                           *)
TiposDeLaCaptura ==
  InductivoBucle /\ InductivoSeguidor /\ InductivoTrampas /\ NadieSinRastro

=============================================================================
