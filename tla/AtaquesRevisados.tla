--------------------------- MODULE AtaquesRevisados ---------------------------
(***************************************************************************)
(* Ataques together with the two places that change a verdict after the    *)
(* event was ingested:                                                     *)
(*                                                                         *)
(*  - reclasificarIP, in the enrichment goroutine of the collector, when   *)
(*    the origin of an address becomes known;                              *)
(*  - "k0pot -reclasificar", another process on the same database, which   *)
(*    judges every event again and then deletes every attack.              *)
(*                                                                         *)
(* Which verdict the classifier gives is left open: it depends on an       *)
(* origin, on thresholds and on the version of the classifier.             *)
(***************************************************************************)
EXTENDS Ataques

CONSTANT MaxRevisiones    \* bound: verdicts that enrichment changes

ASSUME RevisionesAssumption == MaxRevisiones \in Nat

VARIABLES
  cli,          \* the command: not run yet, reviewing, finished or failed
  porRevisar,   \* ids of the events it has read and not judged yet
  revisiones    \* verdicts enrichment has changed

revision == <<cli, porRevisar, revisiones>>
varsR == <<vars, revision>>

InitR ==
  /\ Init
  /\ cli = "pendiente" /\ porRevisar = {} /\ revisiones = 0

(* UPDATE eventos SET clasificacion: nothing happens if the event is gone. *)
Reclasificar(i, v) ==
  eventos' = {IF e.id = i THEN [e EXCEPT !.hecho.elevado = v] ELSE e : e \in eventos}

SinTocarCiclo == UNCHANGED <<reloj, ultimoId, pc, ultimoEvento, ciclo, enviados, caidas>>

-----------------------------------------------------------------------------
(* reclasificarIP: only a verdict that changes is written.  The watermark  *)
(* and the stored attacks are not touched.                                 *)
RevisarPorOrigen(e) ==
  /\ revisiones < MaxRevisiones
  /\ revisiones' = revisiones + 1
  /\ Reclasificar(e.id, ~ e.hecho.elevado)
  /\ SinTocarCiclo
  /\ UNCHANGED <<episodios, avisado, olvidados, cli, porRevisar>>

(* reclasificar: EventosDesde(desde), one UPDATE per event ... *)
CliLee(d) ==
  /\ cli = "pendiente"
  /\ cli' = "revisando"
  /\ porRevisar' = {e.id : e \in {x \in eventos : x.ts >= d}}
  /\ SinTocarCiclo
  /\ UNCHANGED <<eventos, episodios, avisado, olvidados, revisiones>>

CliRevisa(i, v) ==
  /\ cli = "revisando"
  /\ i \in porRevisar
  /\ porRevisar' = porRevisar \ {i}
  /\ Reclasificar(i, v)
  /\ SinTocarCiclo
  /\ UNCHANGED <<episodios, avisado, olvidados, cli, revisiones>>

(* ... and PurgarEpisodios(now + 1 s): every attack of the past. *)
CliPurga ==
  /\ cli = "revisando"
  /\ porRevisar = {}
  /\ cli' = "hecho"
  /\ LET quedan == {k \in DOMAIN episodios : episodios[k].fin >= reloj + 1}
     IN  /\ episodios' = [k \in quedan |-> episodios[k]]
         /\ avisado' = [k \in quedan |-> avisado[k]]
  /\ SinTocarCiclo
  /\ UNCHANGED <<eventos, olvidados, porRevisar, revisiones>>

(* Any statement of the command may fail; what it wrote so far stays. *)
CliFalla ==
  /\ cli = "revisando"
  /\ cli' = "fallido"
  /\ porRevisar' = {}
  /\ SinTocarCiclo
  /\ UNCHANGED <<eventos, episodios, avisado, olvidados, revisiones>>

Enriquecimiento == \E e \in eventos : RevisarPorOrigen(e)

Cli ==
  \/ \E d \in 0..MaxReloj : CliLee(d)
  \/ \E i \in 1..MaxEventos, v \in BOOLEAN : CliRevisa(i, v)
  \/ CliPurga
  \/ CliFalla

NextR ==
  \/ Next /\ UNCHANGED revision
  \/ Enriquecimiento
  \/ Cli

SpecR == InitR /\ [][NextR]_varsR

JusticiaR ==
  /\ WF_varsR(Mantenimiento /\ UNCHANGED revision)
  /\ SF_varsR(Novedades /\ UNCHANGED revision)
  /\ SF_varsR(LeerEventos /\ UNCHANGED revision)
  /\ SF_varsR(GuardarEpisodios /\ UNCHANGED revision)

SpecVivaR == SpecR /\ JusticiaR

-----------------------------------------------------------------------------
(* Every stored event is told by some stored attack with the severity its  *)
(* present verdict gives it.                                               *)
AlDia == \A e \in eventos : Vigente(e) => \E k \in DOMAIN episodios : Cubre(k, e)

(* Attacks are derived data: once verdicts have stopped changing, a        *)
(* restart of the collector rebuilds every one of them from the events.    *)
RecienArrancado == pc = "novedades" /\ ultimoEvento = 0
SinRevisionesPendientes == cli \in {"hecho", "fallido"} /\ revisiones = MaxRevisiones
ReinicioRehace == (RecienArrancado /\ SinRevisionesPendientes) ~> AlDia

=============================================================================
