----------------------------- MODULE Agrupacion -----------------------------
(***************************************************************************)
(* What an attack is: the pure part of internal/episodio.                  *)
(*                                                                         *)
(* Agrupar cuts the events of each (IP, protocol) pair at every silence    *)
(* longer than Hueco and summarises each run of events in one row.  Here   *)
(* it is a function of a SET of events; module BucleAgrupar walks the      *)
(* sorted slice as the Go loop does and is checked to build the same rows. *)
(*                                                                         *)
(* Timestamps are whole ticks.  A row is keyed by its pair and the tick    *)
(* of its first event, as the code's "ip|protocolo|unix" string is.        *)
(***************************************************************************)
EXTENDS Integers, FiniteSets

CONSTANTS
  Grupo,      \* the (IP, protocol) pairs that attack
  SinShell,   \* the pairs whose protocol has no shell: redis, ftp, smtp, ...
  Hueco       \* silence, in ticks, after which an attack is over

ASSUME HuecoAssumption == Hueco \in Nat \ {0}
ASSUME SinShellAssumption == SinShell \subseteq Grupo

-----------------------------------------------------------------------------
(* Severities are their ranks: roce 0, tanteo 1, acceso 2, intrusion 3,    *)
(* trampa 4.                                                               *)
Severidad == 0..4
Roce == 0
Tanteo == 1
Acceso == 2
Intrusion == 3
Trampa == 4

Peor(a, b) == IF b > a THEN b ELSE a

(* The greatest element of a finite, non-empty set of naturals. *)
Maximo(S) == CHOOSE m \in S : \A x \in S : x <= m

(* What an event says.  "grave" is a protocol verb the code knows to be an *)
(* attempt (CONFIG SET); "elevado" is a verdict of Revisar or Notable.     *)
Tipo == {"conexion", "huella", "login_fallido", "login_exitoso", "comando",
         "grave", "http", "descarga", "tunel"}
Hecho == [tipo : Tipo, cebo : BOOLEAN, elevado : BOOLEAN]
Evento == [id : Nat \ {0}, grupo : Grupo, ts : Nat, hecho : Hecho]

(* A command is an intrusion when it came through a shell; on the other    *)
(* protocols only the grave verbs are.                                     *)
RangoDeTipo(g, t) ==
  CASE t \in {"conexion", "huella"}      -> Roce
    [] t \in {"login_fallido", "http"}   -> Tanteo
    [] t = "login_exitoso"               -> Acceso
    [] t = "comando" /\ g \in SinShell   -> Tanteo
    [] OTHER                             -> Intrusion

(* What one event alone raises the severity of its episode to. *)
Rango(e) ==
  Peor(IF e.hecho.cebo THEN Trampa ELSE Roce,
       Peor(RangoDeTipo(e.grupo, e.hecho.tipo),
            IF e.hecho.elevado THEN Tanteo ELSE Roce))

-----------------------------------------------------------------------------
Del(S, g) == {e \in S : e.grupo = g}

(* Tick t opens an episode of g: the previous event of g, if there is one, *)
(* is more than Hueco behind.                                              *)
EsInicio(S, g, t) ==
  /\ \E e \in Del(S, g) : e.ts = t
  /\ \A e \in Del(S, g) : e.ts < t => t - e.ts > Hueco

(* The events of the episode of g that opens at tick s. *)
Tramo(S, g, s) ==
  {e \in Del(S, g) :
     e.ts >= s /\ \A u \in (s + 1)..e.ts : ~ EsInicio(S, g, u)}

Clave == Grupo \X Nat

Claves(S) ==
  {<<e.grupo, e.ts>> : e \in {x \in S : EsInicio(S, x.grupo, x.ts)}}

(* The row an episode is summarised in. *)
Fila == [fin : Nat, eventos : Nat, severidad : Severidad, soloConexiones : BOOLEAN]

Resumen(T) ==
  [fin            |-> Maximo({e.ts : e \in T}),
   eventos        |-> Cardinality(T),
   severidad      |-> Maximo({Rango(e) : e \in T}),
   soloConexiones |-> \A e \in T : e.hecho.tipo = "conexion"]

Agrupar(S) == [k \in Claves(S) |-> Resumen(Tramo(S, k[1], k[2]))]

=============================================================================
