------------------------------- MODULE Ataques -------------------------------
(***************************************************************************)
(* From captured events to attacks to notices: the collector process.      *)
(*                                                                         *)
(* Two goroutines share the database.  Ingestion inserts events one by     *)
(* one.  Maintenance runs a cycle every 30 s: reconstruirEpisodios regroups *)
(* the events around the new ones, avisarDeLoGrave sends what is serious,  *)
(* and now and then retencion.Aplicar purges what is old.  Each database   *)
(* statement is one step; between two of them anything else may happen,    *)
(* a statement may fail, and the process may be killed and restarted.      *)
(*                                                                         *)
(* The watermark ultimoEvento lives in memory only, so a restart regroups  *)
(* everything once.                                                        *)
(***************************************************************************)
EXTENDS Agrupacion

CONSTANTS
  Muestra,         \* what an event may say in this instance, a subset of Hecho
  Retraso,         \* how old an event may be when it is ingested (log backlog)
  Minima,          \* severity from which the operator wants to be told
  RetEventos,      \* ticks an event is kept; 0 keeps it for ever
  RetEpisodios,    \* ticks an attack is kept; 0 keeps it for ever
  MaxReloj,        \* bound: last tick of the clock
  MaxEventos,      \* bound: events ingested
  MaxCaidas        \* bound: kills of the process

ASSUME MuestraAssumption == Muestra \subseteq Hecho
ASSUME MinimaAssumption == Minima \in Severidad
ASSUME PlazosAssumption ==
  /\ Retraso \in Nat /\ RetEventos \in Nat /\ RetEpisodios \in Nat
  /\ MaxReloj \in Nat /\ MaxEventos \in Nat /\ MaxCaidas \in Nat

VARIABLES
  reloj,           \* the clock
  eventos,         \* table eventos
  ultimoId,        \* its AUTOINCREMENT counter
  episodios,       \* table episodios: key -> row
  avisado,         \* column avisado of the same table: key -> severity told
  pc,              \* where the maintenance goroutine is in its cycle
  ultimoEvento,    \* its watermark: events up to this id have been grouped
  maxID, desde,    \* what NovedadesDesde answered in this cycle
  lote,            \* the events EventosDesde read in this cycle
  pendientes,      \* key -> severity, the attacks being told in this cycle
  enviados,        \* history: <<key, severity>> pairs the channel accepted
  olvidados,       \* history: accepted pairs whose mark was lost or purged
  caidas           \* how often the process was killed

tablas == <<eventos, ultimoId, episodios, avisado>>
ciclo == <<maxID, desde, lote, pendientes>>
historia == <<enviados, olvidados>>
vars == <<reloj, tablas, pc, ultimoEvento, ciclo, historia, caidas>>

Paso == {"novedades", "leer", "guardar", "porAvisar", "enviar", "marcar",
         "retencion", "purgarEpisodios"}

Ninguno == [k \in {} |-> 0]

TypeOK ==
  /\ reloj \in 0..MaxReloj
  /\ eventos \subseteq Evento
  /\ ultimoId \in 0..MaxEventos
  /\ DOMAIN episodios \subseteq Clave
  /\ episodios \in [DOMAIN episodios -> Fila]
  /\ avisado \in [DOMAIN episodios -> Severidad]
  /\ pc \in Paso
  /\ ultimoEvento \in 0..MaxEventos
  /\ maxID \in 0..MaxEventos
  /\ desde \in Int
  /\ lote \subseteq Evento
  /\ DOMAIN pendientes \subseteq Clave
  /\ pendientes \in [DOMAIN pendientes -> Severidad]
  /\ enviados \subseteq Clave \X Severidad
  /\ olvidados \subseteq Clave \X Severidad
  /\ caidas \in 0..MaxCaidas

Init ==
  /\ reloj = 0
  /\ eventos = {} /\ ultimoId = 0
  /\ episodios = Ninguno /\ avisado = Ninguno
  /\ pc = "novedades" /\ ultimoEvento = 0
  /\ maxID = 0 /\ desde = 0 /\ lote = {} /\ pendientes = Ninguno
  /\ enviados = {} /\ olvidados = {}
  /\ caidas = 0

-----------------------------------------------------------------------------
(* Ingestion.  A line read again is ignored by the UNIQUE id_externo, so   *)
(* only a new event changes anything; it may be older than the clock when  *)
(* it comes from a log written while the collector was down.               *)
Ingerir(g, ts, h) ==
  /\ ultimoId < MaxEventos
  /\ reloj - Retraso <= ts /\ ts <= reloj
  /\ eventos' = eventos \cup {[id |-> ultimoId + 1, grupo |-> g, ts |-> ts, hecho |-> h]}
  /\ ultimoId' = ultimoId + 1
  /\ UNCHANGED <<reloj, episodios, avisado, pc, ultimoEvento, ciclo, historia, caidas>>

Tic ==
  /\ reloj < MaxReloj
  /\ reloj' = reloj + 1
  /\ UNCHANGED <<tablas, pc, ultimoEvento, ciclo, historia, caidas>>

-----------------------------------------------------------------------------
(* reconstruirEpisodios.                                                   *)

Ir(p) == pc' = p

(* What a task of the cycle read is local to it: it is gone when it ends. *)
Olvidar == maxID' = 0 /\ desde' = 0 /\ lote' = {} /\ pendientes' = Ninguno

MaxId == IF eventos = {} THEN 0 ELSE Maximo({e.id : e \in eventos})

(* Timestamp of the oldest event past the watermark; with none (retention  *)
(* took the newest away) the code gets the zero time and reads everything. *)
MinNuevo ==
  LET nuevos == {e \in eventos : e.id > ultimoEvento}
  IN  IF nuevos = {} THEN 0
      ELSE CHOOSE t \in {e.ts : e \in nuevos} : \A e \in nuevos : t <= e.ts

Novedades ==
  /\ pc = "novedades"
  /\ IF MaxId = ultimoEvento
       THEN /\ Ir("porAvisar")
            /\ UNCHANGED <<maxID, desde>>
       ELSE /\ Ir("leer")
            /\ maxID' = MaxId
            /\ desde' = MinNuevo - Hueco
  /\ UNCHANGED <<reloj, tablas, ultimoEvento, lote, pendientes, historia, caidas>>

(* Mutant: only the new events are read, not the window around them. *)
LeerSoloNuevos ==
  /\ pc = "leer"
  /\ lote' = {e \in eventos : e.id > ultimoEvento}
  /\ Ir("guardar")
  /\ UNCHANGED <<reloj, tablas, ultimoEvento, maxID, desde, pendientes, historia, caidas>>

LeerEventos ==
  /\ pc = "leer"
  /\ lote' = {e \in eventos : e.ts >= desde}
  /\ Ir("guardar")
  /\ UNCHANGED <<reloj, tablas, ultimoEvento, maxID, desde, pendientes, historia, caidas>>

(* Mutant: a new row is inserted without its "avisado" column. *)
GuardarSinAvisado(nuevas) ==
  /\ episodios' = [k \in DOMAIN episodios \cup DOMAIN nuevas |->
                     IF k \in DOMAIN nuevas THEN nuevas[k] ELSE episodios[k]]
  /\ UNCHANGED avisado

(* Mutant: INSERT OR REPLACE, which resets "avisado". *)
GuardarReemplazando(nuevas) ==
  LET claves == DOMAIN episodios \cup DOMAIN nuevas
  IN  /\ episodios' = [k \in claves |->
                         IF k \in DOMAIN nuevas THEN nuevas[k] ELSE episodios[k]]
      /\ avisado' = [k \in claves |->
                       IF k \in DOMAIN nuevas THEN Roce ELSE avisado[k]]

(* Mutant: INSERT OR IGNORE, which leaves an old row as it was. *)
GuardarSiFalta(nuevas) ==
  LET claves == DOMAIN episodios \cup DOMAIN nuevas
  IN  /\ episodios' = [k \in claves |->
                         IF k \in DOMAIN episodios THEN episodios[k] ELSE nuevas[k]]
      /\ avisado' = [k \in claves |->
                       IF k \in DOMAIN avisado THEN avisado[k] ELSE Roce]

(* The upsert: a key already there keeps its "avisado". *)
Guardar(nuevas) ==
  LET claves == DOMAIN episodios \cup DOMAIN nuevas
  IN  /\ episodios' = [k \in claves |->
                         IF k \in DOMAIN nuevas THEN nuevas[k] ELSE episodios[k]]
      /\ avisado' = [k \in claves |->
                       IF k \in DOMAIN avisado THEN avisado[k] ELSE Roce]

(* Mutant: the watermark jumps to the newest event of the table, which may
   have arrived after the batch was read. *)
GuardarHastaHoy ==
  /\ pc = "guardar"
  /\ Guardar(Agrupar(lote))
  /\ ultimoEvento' = MaxId
  /\ Ir("porAvisar")
  /\ Olvidar
  /\ UNCHANGED <<reloj, eventos, ultimoId, historia, caidas>>

GuardarEpisodios ==
  /\ pc = "guardar"
  /\ Guardar(Agrupar(lote))
  /\ ultimoEvento' = maxID
  /\ Ir("porAvisar")
  /\ Olvidar
  /\ UNCHANGED <<reloj, eventos, ultimoId, historia, caidas>>

-----------------------------------------------------------------------------
(* avisarDeLoGrave, with notices switched on (off, the cycle ends as it    *)
(* does in Fallar).  pendientes is the list EpisodiosPorAvisar returned:   *)
(* what the notice says and what MarcarAvisados later marks.               *)

(* Mutant: an attack told of once is never told of again, however it
   escalates. *)
PorAvisarUnaVez ==
  {k \in DOMAIN episodios : episodios[k].severidad >= Minima /\ avisado[k] = Roce}

PorAvisar ==
  {k \in DOMAIN episodios : /\ episodios[k].severidad >= Minima
                            /\ episodios[k].severidad > avisado[k]}

EpisodiosPorAvisar ==
  /\ pc = "porAvisar"
  /\ pendientes' = [k \in PorAvisar |-> episodios[k].severidad]
  /\ Ir(IF PorAvisar = {} THEN "retencion" ELSE "enviar")
  /\ UNCHANGED <<reloj, tablas, ultimoEvento, maxID, desde, lote, historia, caidas>>

Avisos == {<<k, pendientes[k]>> : k \in DOMAIN pendientes}

Enviar ==
  /\ pc = "enviar"
  /\ enviados' = enviados \cup Avisos
  /\ Ir("marcar")
  /\ UNCHANGED <<reloj, tablas, ultimoEvento, ciclo, olvidados, caidas>>

(* Mutant: the error of the channel is logged and the attacks are marked all
   the same. *)
EnviarFallaYMarca ==
  /\ pc = "enviar"
  /\ Ir("marcar")
  /\ UNCHANGED <<reloj, tablas, ultimoEvento, ciclo, historia, caidas>>

(* The channel refused: nothing is marked, the next cycle tries again. *)
EnviarFalla ==
  /\ pc = "enviar"
  /\ Ir("retencion")
  /\ Olvidar
  /\ UNCHANGED <<reloj, tablas, ultimoEvento, historia, caidas>>

(* UPDATE ... WHERE clave: a row gone meanwhile is not marked. *)
MarcarAvisados ==
  /\ pc = "marcar"
  /\ avisado' = [k \in DOMAIN avisado |->
                   IF k \in DOMAIN pendientes THEN pendientes[k] ELSE avisado[k]]
  /\ Ir("retencion")
  /\ Olvidar
  /\ UNCHANGED <<reloj, eventos, ultimoId, episodios, ultimoEvento, historia, caidas>>

-----------------------------------------------------------------------------
(* retencion.Aplicar, when an hour has passed since the last one.          *)

SinPurga ==
  /\ pc = "retencion"
  /\ Ir("novedades")
  /\ UNCHANGED <<reloj, tablas, ultimoEvento, ciclo, historia, caidas>>

PurgarEventos ==
  /\ pc = "retencion"
  /\ eventos' = IF RetEventos = 0 THEN eventos
                ELSE {e \in eventos : e.ts >= reloj - RetEventos}
  /\ Ir("purgarEpisodios")
  /\ UNCHANGED <<reloj, ultimoId, episodios, avisado, ultimoEvento, ciclo, historia, caidas>>

(* DELETE FROM episodios: only the rows of "claves" stay. *)
Dejar(claves) ==
  /\ episodios' = [k \in claves |-> episodios[k]]
  /\ avisado' = [k \in claves |-> avisado[k]]
  /\ olvidados' = olvidados \cup {a \in enviados : a[1] \notin claves}

(* Mutant: attacks are purged by the date they began, not by the date they
   ended. *)
PurgarPorInicio ==
  /\ pc = "purgarEpisodios"
  /\ Dejar(IF RetEpisodios = 0 THEN DOMAIN episodios
           ELSE {k \in DOMAIN episodios : k[2] >= reloj - RetEpisodios})
  /\ Ir("novedades")
  /\ UNCHANGED <<reloj, eventos, ultimoId, ultimoEvento, ciclo, enviados, caidas>>

PurgarEpisodios ==
  /\ pc = "purgarEpisodios"
  /\ Dejar(IF RetEpisodios = 0 THEN DOMAIN episodios
           ELSE {k \in DOMAIN episodios : episodios[k].fin >= reloj - RetEpisodios})
  /\ Ir("novedades")
  /\ UNCHANGED <<reloj, eventos, ultimoId, ultimoEvento, ciclo, enviados, caidas>>

-----------------------------------------------------------------------------
(* Failure.  A statement that fails (a locked database) ends its task; the *)
(* cycle goes on with the next one.  A failed mark leaves attacks told and *)
(* not marked.                                                             *)

Fallar ==
  /\ \/ pc \in {"novedades", "leer", "guardar"} /\ Ir("porAvisar")
     \/ pc \in {"porAvisar", "marcar"} /\ Ir("retencion")
     \/ pc \in {"retencion", "purgarEpisodios"} /\ Ir("novedades")
  /\ olvidados' = IF pc = "marcar" THEN olvidados \cup Avisos ELSE olvidados
  /\ Olvidar
  /\ UNCHANGED <<reloj, tablas, ultimoEvento, enviados, caidas>>

(* The process dies and starts again: memory is lost, the tables stay. *)
Caer ==
  /\ caidas < MaxCaidas
  /\ caidas' = caidas + 1
  /\ olvidados' = IF pc = "marcar" THEN olvidados \cup Avisos ELSE olvidados
  /\ Ir("novedades")
  /\ ultimoEvento' = 0
  /\ Olvidar
  /\ UNCHANGED <<reloj, tablas, enviados>>

-----------------------------------------------------------------------------
Mantenimiento ==
  \/ Novedades \/ LeerEventos \/ GuardarEpisodios
  \/ EpisodiosPorAvisar \/ Enviar \/ EnviarFalla \/ MarcarAvisados
  \/ SinPurga \/ PurgarEventos \/ PurgarEpisodios
  \/ Fallar

Ingesta == \E g \in Grupo, ts \in 0..MaxReloj, h \in Muestra : Ingerir(g, ts, h)

Next == Ingesta \/ Tic \/ Mantenimiento \/ Caer

Spec == Init /\ [][Next]_vars

(* The cycle never stops for good, and a statement or a send retried in    *)
(* every cycle does not fail in every one of them.                         *)
Justicia ==
  /\ WF_vars(Mantenimiento)
  /\ SF_vars(Novedades) /\ SF_vars(LeerEventos) /\ SF_vars(GuardarEpisodios)
  /\ SF_vars(EpisodiosPorAvisar) /\ SF_vars(Enviar) /\ SF_vars(MarcarAvisados)

SpecViva == Spec /\ Justicia

-----------------------------------------------------------------------------
(* Properties.                                                             *)

Cubre(k, e) ==
  /\ k[1] = e.grupo
  /\ k[2] <= e.ts /\ e.ts <= episodios[k].fin
  /\ Rango(e) <= episodios[k].severidad

Vigente(e) == RetEpisodios = 0 \/ e.ts >= reloj - RetEpisodios

(* No evidence is lost: every event the watermark has passed lies inside a *)
(* stored attack of its pair at least as severe as the event, unless it is *)
(* old enough for retention to have dropped the attack.                    *)
Cobertura ==
  \A e \in eventos : (e.id <= ultimoEvento /\ Vigente(e)) => \E k \in DOMAIN episodios : Cubre(k, e)

(* A regrouping never takes anything away from a stored attack: while its  *)
(* row is there it only grows, in time, in events and in severity.         *)
FilasNoEncogen ==
  [][\A k \in DOMAIN episodios \cap DOMAIN episodios' :
        /\ episodios'[k].fin >= episodios[k].fin
        /\ episodios'[k].eventos >= episodios[k].eventos
        /\ episodios'[k].severidad >= episodios[k].severidad]_vars

(* The mark is never ahead of the notice: an attack is marked as told at a *)
(* severity only after the channel accepted it at that severity.           *)
MarcaSoloLoEnviado ==
  \A k \in DOMAIN avisado : avisado[k] > Roce => <<k, avisado[k]>> \in enviados

(* A row is told again at the same severity only if an earlier mark was    *)
(* lost to a crash or a failed statement, or if its row was purged.        *)
NoRepiteAviso ==
  [][(pc = "enviar" /\ pc' = "marcar") => Avisos \cap enviados \subseteq olvidados]_vars

(* Every attack at or above the configured severity is told in the end, at *)
(* that severity or a worse one, also when it got worse after a first      *)
(* notice, and whatever is ingested or fails meanwhile.                    *)
Alcanza(k, s) == k \in DOMAIN episodios /\ episodios[k].severidad = s

TodoSeAvisa ==
  \A g \in Grupo, t \in 0..MaxReloj, s \in {r \in Severidad : r >= Minima /\ r > Roce} :
    Alcanza(<<g, t>>, s) ~> \/ <<g, t>> \notin DOMAIN episodios
                            \/ \E r \in s..Trampa : <<<<g, t>>, r>> \in enviados

(* Every event is part of a stored attack in the end. *)
TodoSeAgrupa ==
  \A i \in 1..MaxEventos :
    (\E e \in eventos : e.id = i) ~>
      (\A e \in eventos : e.id = i => \/ ~ Vigente(e)
                                      \/ \E k \in DOMAIN episodios : Cubre(k, e))

-----------------------------------------------------------------------------
(* The inductive invariant behind the safety properties.                   *)

Acotado ==
  /\ IsFiniteSet(eventos) /\ IsFiniteSet(lote)
  /\ \A e \in eventos : e.id <= ultimoId /\ e.ts <= reloj
  /\ \A e \in lote : e.ts <= reloj
  /\ ultimoEvento <= ultimoId /\ maxID <= ultimoId

(* What is new up to maxID lies inside the window that is being reread ... *)
VentanaAbarca ==
  pc \in {"leer", "guardar"} =>
    \A e \in eventos : (ultimoEvento < e.id /\ e.id <= maxID) => e.ts >= desde

(* ... and once reread, the batch holds the window and nothing older. *)
LoteCompleto ==
  pc = "guardar" =>
    /\ \A e \in lote : e.ts >= desde
    /\ \A e \in eventos : (e.id <= maxID /\ e.ts >= desde) => e \in lote

(* The list being told is ahead of the marks until it is marked itself. *)
AvisosAdelantan ==
  /\ pc \in {"enviar", "marcar"} =>
       \A k \in DOMAIN pendientes : k \in DOMAIN avisado /\ pendientes[k] > avisado[k]
  /\ pc = "marcar" => Avisos \subseteq enviados

(* What was told is marked, about to be marked, or forgotten. *)
EnviadoConsta ==
  \A a \in enviados \ olvidados :
    \/ a[1] \in DOMAIN avisado /\ avisado[a[1]] >= a[2]
    \/ pc = "marcar" /\ a \in Avisos

(* An unbroken run of events still backs each row, or retention has taken  *)
(* the event that opens it and nothing as old can come back: a regrouping  *)
(* finds at least what the row tells.                                      *)

(* The run T opens at the tick of key k and has no silence over Hueco. *)
Seguido(T, k) ==
  /\ \E e \in T : e.ts = k[2]
  /\ \A e \in T : /\ e.grupo = k[1] /\ e.ts >= k[2]
                  /\ e.ts > k[2] => \E f \in T : f.ts < e.ts /\ e.ts - f.ts <= Hueco

Respaldada(k) ==
  \E T \in SUBSET eventos :
    /\ Seguido(T, k)
    /\ episodios[k] = Resumen(T)
    /\ pc = "guardar" => \A e \in T : e.ts >= desde => e \in lote

Caducada(k) ==
  /\ RetEventos # 0 /\ k[2] < reloj - RetEventos
  /\ \A e \in eventos : e.ts > k[2]

FilasConRespaldo ==
  /\ pc = "guardar" => lote \subseteq eventos /\ \A e \in lote : e.ts >= desde
  /\ \A k \in DOMAIN episodios : Respaldada(k) \/ Caducada(k)

(* Retention keeps an event for longer than ingestion can lag behind. *)
AtrasoCorto == RetEventos = 0 \/ Retraso <= RetEventos

Inductivo ==
  /\ TypeOK /\ Acotado
  /\ VentanaAbarca /\ LoteCompleto /\ Cobertura
  /\ AvisosAdelantan /\ EnviadoConsta /\ MarcaSoloLoEnviado
  /\ AtrasoCorto => FilasConRespaldo

=============================================================================
