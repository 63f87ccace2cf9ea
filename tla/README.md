# k0Pot in TLA+

Specifications of the parts of k0Pot whose correctness depends on what
happens *between* steps: goroutines, two processes over one database, crashes,
clocks, quotas and a log that is rotated while it is read. Every definition is
translated from the Go source; names are the source's names. `PROJECT.json`
says which lines each definition models.

Run a model with `tlc -config MCX.cfg MCX`, check proofs with `tlapm XPruebas.tla`.

## 1. The system

Two long-lived processes share one SQLite database (WAL, one writer at a time)
and the configuration row in it; a third one appears when somebody runs a command.

| process | goroutines | code |
|---|---|---|
| collector (`ejecutar`) | ingest of Cowrie's log, traps and their supervisor, maintenance cycle (30 s), enrichment loop (30 s) | `cmd/k0pot/main.go` |
| panel (`servirPanel`) | HTTP handlers, scheduled reports, narrative sweeper | `internal/web` |
| command line | `-reclasificar`, `-respaldo`, user management | `cmd/k0pot/main.go` |

Inventory. "Hard" is what a test would hardly reach, "correct" what the
component owes to the rest.

| component | state | operations | hard | correct when | module |
|---|---|---|---|---|---|
| Grouping (`internal/episodio`) | none: a fold over events sorted by date | `Agrupar`, `absorber` | silences of exactly the gap, pairs interleaved | its rows are the maximal runs without a silence, and lose nothing | `Agrupacion`, `BucleAgrupar` |
| Attack cycle and notices (`main.go`, `store/episodio.go`, `retencion`) | tables `eventos`, `episodios` (with `avisado`), the watermark `ultimoEvento` in memory | ingest, `reconstruirEpisodios`, `avisarDeLoGrave`, retention | ingest races the cycle, late events, crash between statements, failed sends | nothing behind the watermark is uncovered; the mark follows the notice; notices are not repeated, and come | `Ataques` |
| Revision of verdicts (`reclasificarIP`, `k0pot -reclasificar`) | the verdict of stored events | rewrite verdicts, delete attacks | another goroutine and another process against the cycle | a restart rebuilds the attacks with the present verdicts | `AtaquesRevisados` |
| Trap supervisor (`trampa/supervisor.go`) | `corriendo`, `ultimoErr`, a mutex, a goroutine per trap | `Aplicar`, `Parar`, the goroutine's end | waiting for a goroutine with the mutex held, ports taken by others | no goroutine out of reach, nothing listens after `Parar`, configuration is reached | `Supervisor` |
| Budget of the language model (`store/informe.go` and its callers) | a counter per day, calls in flight | consume, undo | two processes, midnight, crash with a call in flight | the row is what was called; the limit holds | `CuotaLLM` |
| Classifier (`classify`) | none | `Clasificar` | fame against facts | facts are never outweighed | `Clasificacion` |
| Enrichment (`main.go`, `enrich`) | table `ips`, client with `restantes` and `pausaHasta`, batch in memory | ask, store, judge again | quota known only from answers, settings switched meanwhile, events captured between read and write | reserve kept, nothing asked twice, every address known in the end | `Enriquecedor` |
| Log follower (`collector/tail.go`) | file, buffer, half line, signature | read, look, drain, reopen | rotation and truncation between any two system calls | whole lines only, none left behind | `Seguidor` |
| Trap protocols (`internal/trampa`) | slots and deadlines of each trap, one shared memory of visitors, what is left to each connection | accept, wait, read, register, answer, hang up | slots given back on every way out, pruning in the middle of a count, deadlines renewed by each message | every session ends and leaves its trace; the tarpit punishes exactly consecutive contacts | `Trampas` |
| Learner (`aprenderComandos`, `web/glosa.go`) | table of glosses, watermark in memory and in a row | fix a ceiling, group, ask, move the mark | batches that leave forms out, events between the two statements, the panel glossing the same forms, a crash | no unknown command is passed over, and all are asked about in the end | `Aprendiz` |
| Narratives (`web/explicar_fondo.go`) | queue in memory, column and table of texts, memory by signature | open, sweep one per tick, button, seed | the request is taken off before it is served; the attack grows while the model writes | a text is filed under what it tells; no request is lost in silence | `Narrativas` |
| Report policy and model providers (`report/programado.go`, `report/multiplexor.go`) | one stored report, pauses per model, the note of the day | serve, write, fall through, fall back | two requests over one row, all models paused, a call that fails after it was noted | nothing the rules wrote passes for the model's; a request pays once and only for a text | `Informe` |
| Configuration (`config`, `web/config.go`, wizard) | a row, a copy per process, the generator built from it | read, save, reload | saves that start from an old read, keys the form never gets | no setting or key is lost on the way | `Ajustes` |
| Accounts and sessions (`web/sesion.go`, `store/auth.go`, login limiter) | accounts, sessions, failures of each address | enter, leave, change, reset, expire | a slow verification against a change of password | the old password opens nothing any more | `Sesiones` |
| Health, summary, backup | marks in the database and in the loop | once an hour, a day, a cadence | mark before or after the deed; incomplete copies in the rotation | told in the end; there is always a whole copy | `Cuidados` |
| Caches of the panel (`web/estado_cache.go`, `web/intel_cache.go`) | an entry per range with its age | first visit, warm-up, refresh in the background | computations overlap and fail | nothing stays stale for whoever keeps asking | `EstadoCache` |
| Changes of network and firewall (`web/red.go`, `deploy/k0pot-red.sh`, `deploy/k0pot-nft.sh`) | of each, one copy of what there was; a witness and sleeping processes (network), a timer and its service (firewall) | apply, confirm, revert, time out | the margin ends between any two commands of the script, and the confirmation may come while the change is being undone; a second change on top, an old margin, a restart | what nobody confirmed is undone | `CambioDeRed`, `CambioDeReglas` |
| Notice channels, GeoIP, campaigns, artefacts, knowledge base, read-only handlers, web client | – | – | parsing, queries and rendering | – | not modelled |

How they meet: the follower and the traps write events through
`Store.Guardar` (UNIQUE key: repeats are absorbed); classification happens
before the insert, with whatever `ips` knows at that moment; enrichment writes
`ips` and rewrites verdicts; the cycle reads events and writes attacks; notices
read and mark attacks; retention deletes events, records and attacks; the panel
changes the configuration that every goroutine rereads.

## 2. The modules

`Agrupacion` – what grouping is, without a loop: the attacks of a pair are its
runs of events cut where nothing came for more than `Hueco`; a row is their end,
count, severity and "only connections". `BucleAgrupar` is the loop of
`episodio.Agrupar`, event by event. The texts a row collects are left out.

`Ataques` – `Ingerir` (`Store.Guardar` by any goroutine), the cycle
`Novedades → LeerEventos → GuardarEpisodios`, then `EpisodiosPorAvisar →
Enviar/EnviarFalla → MarcarAvisados`, then `PurgarEventos → PurgarEpisodios`,
each SQL statement or send an action, with `Fallar` at each and `Caer` anywhere.
Variables are the tables, `ultimoEvento` and the locals of the function under
way. `enviados` and `olvidados` are history: what the channel accepted, and
which marks were lost. Notices are taken as switched on (off, the cycle ends at
that step as in `Fallar`) and the severity that is told as constant.

`AtaquesRevisados` – extends it: verdicts raised by `reclasificarIP`, and the
command line rewriting verdicts and deleting every attack, as another process.

`Supervisor` – `Aplicar` walks the traps in order, with the mutex; stopping one
is cancel and then wait (`VisitarCancela`, `VisitarRecoge`); the goroutine
listens or fails, closes, and takes the mutex to strike itself off
(`Retirarse`). `Parar` is deferred after maintenance. Other programs take and
leave ports; the panel changes the configuration.

`CuotaLLM` – `ConsumirCuotaLLM` and `DevolverCuotaLLM` are one statement each;
a caller computes the day and the limit, consumes, calls, and gives back on
error. Requesters live in two processes that may die.

`Clasificacion` – `Clasificar` as a function of a record of Booleans (what the
patterns say of the event) and of the origin. `Enriquecedor` – the loop of
`enriquecerEnBucle`/`enriquecerTanda`, the AbuseIPDB client and
`reclasificarIP`, against captures, the panel's switches, retention and a new
day. An event is judged (`Capturar`) and stored (`Guardar`) in two steps, one in
flight at a time. Retention may choose any stored events. An answer whose header
of the quota is missing or unreadable leaves the client believing what it did.

`Seguidor` – `Seguir`, `drenar` and `revisar` system call by system call
against a writer that leaves lines by halves and renames or truncates the file.
A line is two cells; the signature of a file is the header of its first line,
and two lines may share it.

`Trampas` – `servirTCP` (slot, deadline, wait, handler, and the deferred
function that gives the slot back, panics included), `recuerdo.go` as a
function from addresses to contacts and age, and each protocol as a table of
steps `[en, llega, anota, responde, pasa]`: what may arrive in a phase, what is
registered, what is answered, where the session goes. Bytes are the kinds of
messages the handlers tell apart; `maxPorConexion` is a number of messages.

`Aprendiz` – a round of `aprenderComandos` statement by statement: the ceiling
(`FijarTecho`), the grouping and choice of a batch (`Agrupar`), the answer with
blanks (`Glosar`), the mark in memory and in its row, whose failure is ignored
(`Avanzar`); the panel's `glosarEpisodio` as a second writer of the same table;
retention and a restart.

`Narrativas` – opening (`Abrir`), the sweeper (`BarrerSinModelo`,
`BarrerConModelo`, `Escribir` and its two halves), the button, the seeding row
by row, growth of the attack, change of language, restart of the panel. The
signature of an attack is how far its script goes and whether it bit the bait.
`olvidadas` is history: whose last request ended without a text. The page that
waits for one only polls (`explicacionEstado`), which changes nothing.

`Presupuesto` – the abstract specification of a day's budget: noted before, if
there is room; kept if paid for; undone if not. `CuotaLLM` implements it for
every day (`PorDia`, from its two processes), `Informe` for the requests of the
panel (`ElPresupuesto`).

`Informe` – `Politica.Automatico` and `AMano` around `Multiplexor`: a request
reads the data, is noted, walks the models in order, skips those that pause,
and is delivered by a model or by the rules; questions fall through, reports
fall back. The identity of a text is its author, its data (`Huella`) and period.

`Ajustes` – the row, `Gestor.actual` of panel and collector, a save in three
steps (row, copy, `AlCambiarConfig`), reload by the collector, the wizard. A
configuration keeps the list of models with their keys, whether models are in
use, the old single provider (kind, URL and a key of each kind), the ports, the
language and the network. A form is applied in the order of the handler: use and
single provider first, then the list, which looks for its keys in what there is
by then, the single keys last.

`Sesiones` – `entrar`, `salir`, `cambiarContrasena` and the command line's
reset, statement by statement on `usuarios` and `sesiones`, with the limiter. A
password is the number of the change that set it.

`Cuidados` – one turn of the loop is `enviarResumen`, `chequearSalud`,
`respaldarBD`, each with its failures; `edad` and `marcas` are what each one
remembers, in memory or in the database, and `Reinicio` forgets the former.
Attacks that are told and rows that are purged in the same turn are `Ataques`.

`EstadoCache` – visitors, warm-up and background refreshes computing without
the lock over one entry per range; the intelligence cache beside it.

`CambioDeRed` – the helper script command by command, in several executions at a
time: copy, write, `netplan generate`, witness, arm, apply (`GuardarRed` to
`AplicarRed`). Each change leaves a process that sleeps, looks at the one witness
file (`Despertar`), copies, applies and removes it (`VencidoCopia`,
`VencidoAplica`, `VencidoBorra`); `Confirmar` and `Revertir` may come between any
two of these. A restart of the machine ends them all. `elegida` is history: what
the operator may expect to have, which after a confirmation that comes too late
is either configuration.

`CambioDeReglas` – the firewall script in the same way: keep the rules, stop the
timer, arm another or give up, load or go back; and `revertir` by hand, after a
load that fails, or by the service the timer starts (stop the timer, flush,
load the copy). There is one service, and systemd arms no timer while it runs.

`MCCapturas`, `MCPanel` and `MCLazos` put components side by side. The components
of one of them share no table, or only one whose use is covered on both
sides (the events table between traps, follower and grouping loop; the budget's
row, by `Presupuesto`), so no step of one can enable or disable a step of
another: an execution moves one of them (`parte`) and TLC explores the sum of
their states instead of the product.

`XPruebas` hold the theorems of module X, and `CapturasPruebas`, `PanelPruebas`
and `LazosPruebas` those of the components of `MCCapturas`, `MCPanel` and
`MCLazos`; `MCX` are instances.

## 3. What TLC checks

| run | shows | bounds | distinct states |
|---|---|---|---|
| `ataques` | no event behind the watermark is lost (`Cobertura`), a regrouping shrinks no row (`FilasNoEncogen`), the mark is not ahead of the notice (`MarcaSoloLoEnviado`), a notice is repeated only if its mark was lost or its row purged (`NoRepiteAviso`) | 1 pair, 3 events one tick late at most, 4 ticks, gap 1, one crash, events kept 1 tick and attacks 2 | 717 460 |
| `ataques_viva` | every attack that reaches the severity is told at it or worse (`TodoSeAvisa`), every event is grouped (`TodoSeAgrupa`) | 2 events of growing severity, one crash | 13 456 |
| `revisados` | a restart rebuilds all attacks with the present verdicts (`ReinicioRehace`) | 2 events, one round of revisions, one crash | 52 807 |
| `supervisor` | no goroutine out of reach, nothing alive after `Parar`, `Converge`, and the invariant of the proofs (also: no trap both running and in error) | 2 traps, 2 addresses, 3 goroutines, a port others take, 2 changes | 160 925 |
| `enriquecedor` | reserve, events judged again, no wasted query, facts not outweighed | 2 addresses, 2 keys, 2 changes of settings, a lost answer, a header that cannot be read, a purge, 2 days, 2 events of 2 kinds | 1 887 488 |
| `enriquecedor_viva` | every public address gets its record | 3 addresses (one private), batches of one, a failure (a header that cannot be read counts as one), a crash | 257 072 |
| `capturas` | traps: slots are exactly the sessions in progress and the memory exactly the contacts in a row (`RecuerdoExacto`), sessions end (`TodaSesionTermina`) and leave their trace; follower: only whole lines (`SinMezclas`), a file is drained before it is left (`NadaSeDeja`), every line within reach is given (`TodaLineaLlega`); loop: exactly the attacks of the definition (`FilasSonLosAtaques`) | 13 traps of one slot, 2 connections, 3 contacts, 2 messages' worth of bytes; 2 lines, 3 files, a truncation, a crash, buffer of 3 cells; batches of 3 events of 2 pairs, ticks 0..5 | 152 818 |
| `panel` | budget and report implement `Presupuesto` (`CadaDiaCumple`, `CumplePresupuesto`), the limit holds (`TopeRespetado`), reports say who wrote them about what (`InformeHonesto`), a changed password closes what it opened (`SoloClaveVigente`), no save loses settings, and no form a key unless it changes the old single provider (`AjustesFieles`), unconfirmed changes of addresses and firewall are undone (`UnoAUnoSeRevierte`) | 3 requesters in 2 processes, 2 days, limits 1 and 2; 2 requests, 2 models, 2 periods; 2 browsers, 2 passwords; 2 handlers, 13 forms, 2 saves; 2 executions of each script at a time, 3 sleeping margins, 3 configurations (one that netplan refuses), 3 rule sets (one that does not load), and `MientrasDeUno` | 910 934 |
| `lazos` | the learner's mark passes nobody (`TiposDeLosLazos`) and every command is glossed or asked about (`TodoSeGlosa`); narratives are filed under what they tell (`MemoriaFiel`), no request for one is lost in silence and what is asked for again and again gets its text (`TodoLoPedidoSeResuelve`); caches are refreshed (`LaCacheSeRefresca`); a whole copy is always there (`QuedaLaBuena`); what is wrong is told (`TodoSeCuenta`) | 2 forms, 2 events, 2 languages, one disturbance; 2 attacks, one explained and with bait, one that grows; 1 range, 2 computations, an error; 1 problem, a failure, 1 copy kept | 119 343 |
| `parar_termina` | *violated*: a trap that fails to listen while `Parar` waits for it needs the mutex `Parar` holds | 2 traps | – |
| `se_reanuda` | *violated*: once the reserve is reached the client never asks again, so it never learns the quota was renewed | 2 addresses, 2 days | – |
| `nunca_tumba_la_captura` | *violated*: off and on again with the same key writes through a nil client | 2 changes | – |

Why the bounds are enough: what goes wrong in these components takes two
actors and a third event. Three events are the least that make a window begin
inside an attack and a row grow after it was told; two traps the least that
meet on one port; three requesters with a limit of two the least that could pass
it together; two addresses the least that make a batch stale; two files and a
rest make a rotation between two looks; two connections and two addresses the
least whose contacts interleave in the memory, with a third to be pruned after;
two handlers the least that overlap; two requests the least that overwrite each
other's report; a batch of one of two forms the least that leaves one out.
`Companeras`/`JuntasCaben` let the second connection come to two traps only (one
that converses and one that ends at once): handlers share nothing but the
memory, which knows no protocols. `SoloSeAbre` lets one attack grow while the
other is only opened, `MientrasDeUno` ends an execution of the scripts at an order
on top of a pending one or at a restart, of which `UnoAUnoSeRevierte` says nothing
any more, `UnPercance` takes one disturbance of the learner at a
time, and a `Lenguas` that is symmetric begins in one of its values. Narratives
of campaigns, artefacts and URLs (`Otro`) follow the same actions but have no
signature; they are empty in `lazos`, to keep its liveness small. The safety
properties are proved for every value of the constants (section 5), so for them the
runs are a check of the statements, not the argument itself; the bounds carry the
argument for liveness alone. Deadlock is not checked where the bounded system stops
(no line left to write, no change left to make).

Mutants: every property of a passing run is broken by a plausible bug in the
code, defined next to the definition it replaces: reading only new events
instead of a window, an INSERT OR REPLACE that forgets `avisado`, collecting a
trap without waiting for it, giving a call back to today's row, ignoring the
reserve, not draining a renamed log, deleting the sessions that have expired
instead of the account's, filling the copy of the settings with what was read,
making the copy of the network after writing it, moving the learner's mark
although a form was left out, filing a narrative under the signature the attack
has by then, a failed refresh that does not let go, a rotation after a failed copy.

## 4. Fairness

- `Ataques`: the cycle is a loop on a ticker, so it is weakly fair; statements
  and sends that may fail are retried every cycle and do not fail for ever, so
  they are strongly fair. Without that an always failing database refutes everything.
- `Supervisor`: goroutines are scheduled (weak); Go's mutex hands over to a
  waiter after 1 ms, so who waits for it is strongly fair. `PausaLarga` states
  that the 30 s between cycles are longer than a `Listen`.
- `Enriquecedor`: the loop and the end of a capture are weakly fair. The quota
  is large enough in the run of liveness, because without it the property is
  false (`se_reanuda`).
- `Seguidor`: the goroutine is scheduled, and a log that was renamed gets a successor.
- `AtaquesRevisados`: as `Ataques`, for the cycle alone.
- `Trampas`: time passes and goroutines run; a read ends when its deadline or
  its bytes do. A peer need never send anything.
- `Aprendiz`: the loop runs; a round that reaches the model again and again is
  answered whole again and again (strong). Without it a provider that leaves the
  most frequent forms blank is asked the same batch for ever.
- `Narrativas`: the ticker goes on and, of the requests that reach the model again
  and again, some are answered and saved (`Barrer` and `Escribir`, strong), with the
  learner switched on. Nobody has to open anything, now or again: a request that
  was refused, failed or went with the panel counts as forgotten.
- `EstadoCache`: the page asks every few seconds, computations end, entries age.
- `Cuidados`: the loop goes round and its ticker ticks; the channel is required
  to work only as long as `TodoSeCuenta` says.
- The components of `panel` promise nothing in time: no fairness is assumed there.

No liveness assumes that a crash does not happen; crashes are bounded in number.

## 5. What is proved

TLAPS proves, for every value of the constants under the named assumptions, a
theorem for every safety property the runs check but `ReinicioRehace`, which is
a leads-to. Each goes by an inductive invariant that TLC checks as an invariant
of a run (`Inductivo` in `ataques`, `supervisor` and `enriquecedor`,
`TiposDeLaCaptura`, `TiposDelPanel`, `TiposDeLosLazos`), so that a run fails where
a proof would. What each adds to its property, and why the property alone is not
inductive:

- `AgrupacionPruebas!AgruparCubre`: grouping loses nothing. By finiteness each
  event has an earliest event of its run, which heads the attack that covers it.
- `AtaquesPruebas`: types, `Cobertura`, `MarcaSoloLoEnviado`, `NoRepiteAviso`,
  `FilasNoEncogen` and the invariant itself.
  `Cobertura` needs that the window holds everything
  new up to `maxID` (`VentanaAbarca`), and that what was read is all the window
  held (`LoteCompleto`), so that `AgruparCubre` applies to the batch before the
  watermark moves. `NoRepiteAviso` needs that the list being told is ahead of
  the marks (`AvisosAdelantan`) and that what was told is marked, about to be,
  or lost (`EnviadoConsta`).
  `FilasNoEncogen` needs `FilasConRespaldo`: behind each row there is still an
  unbroken run of stored events whose summary it is, all of it inside the window
  if the window reaches the event that opens it; or retention took that event,
  and no event as old can come back. Unbroken runs are not split by reading more
  (`SeguidoNoSeParte`) and summaries grow with their events (`ResumenCrece`). The
  theorem `NingunaFilaEncoge` has a hypothesis, `AtrasoCorto` (in the invariant it
  guards that one conjunct): events are kept for ever (the default) or for longer than ingestion lags. Without it TLC finds a
  row that shrinks (`RetEventos = 1`, `Retraso = 2`; see 6).
- `SupervisorPruebas`: `SinHuerfanas`, `NingunPuertoAbierto` and the invariant
  itself. It adds
  who holds the mutex in each phase (`Turnos`) and that the name a goroutine is
  registered under is its trap's (`Registrada`): a goroutine that retires can
  therefore not strike off its successor.
- `CuotaLLMPruebas`: `Cuadra`, `TopeRespetado`, through a bound on the row
  (`FilaAcotada`) and the cardinality of the calls in flight; and that the table
  implements `Presupuesto` for each day (`CadaDiaCumple`): every step of a requester
  is a note, a payment, an undoing or a stutter of each day's budget. From the steps
  of `Presupuesto` alone, whatever implements it keeps its books (`LosLibrosCuadran`,
  by `UnPasoCuadra`).
- `EnriquecedorPruebas`: `ReservaRespetada`, `NoGastaDosVeces`,
  `LoHechoNoSeRebaja`, `RejuzgadoBien`. What the client believes exceeds the truth at most by the
  queries nobody could count (`SabeLoQueQueda`); the addresses to do are
  distinct and pending (`ColaPendiente`); an event that speaks for itself was
  never given more than judging again gives it (`HechosJuzgados`). Judging again
  needs that an id names one event, in flight or purged (`Identificados`), that the
  record of the address in hand is the one just obtained or has been purged
  (`EnMano`), and the verdict of every event already judged (`ConSuFicha`).
- `PanelPruebas`: `InformeHonesto`; `CumplePresupuesto`, from `NotasCuadran` (the
  row is the requests under way plus the texts delivered, which is why
  `MAX(0, ...)` in the undoing never takes somebody else's note);
  `SoloClaveVigente`, from `LeidaFueVigente` (a hash in hand was the account's
  once); `UnoAUnoSeRevierte`, from `UnAyudante`, `QuienVuelve` and `DondeVuelve` for the
  addresses and `UnaOrden` and `DondeVuelven` for the firewall, which say of each
  command, of the script and of who wakes up when a margin ends, what the copy and
  the written file are, and who will still put them back;
  `AjustesFieles`, from `UnoSolo` (without overlapping saves one handler works, and
  where it is tells row, copy and generator) and `SaleDeLoLeido` (what will be written is the
  form on top of what was read). That the loop over the models sent keeps keys is
  proved for lists of any length, by the least turn at which it would not.
- `CapturasPruebas`: `FilasSonLosAtaques`, for batches of any size and any order
  among the events of one tick: the open row of a pair is the one of its last run
  (`AbiertosSonLosUltimos`), so that one more event either extends it or opens the next.
  `SinMezclas` and `NadaSeDeja`, from the loop invariant of `Seguir`
  (`TramoLeido`: what is in hand is the stretch of the file up to the offset, back
  to the end of a line, and all lines before it were given; `LectorBien`;
  `LineasSeguidas`). `RecuerdoExacto`, from the slots as a cardinality
  (`Ranuras`) and the memory against the chain of contacts (`Memoria`).
  `NadieSinRastro`, from where each of the thirteen protocols leaves its trace
  (`DejaRastro`), step by step of their tables.
- `LazosPruebas`: `MarcaSoloLoVisto`, with `LoteCompleto` (a batch that leaves
  nothing out is all there was to ask below the ceiling); `MemoriaFiel`, with
  `NadaDeMas` (no text on its way tells more than its attack did); `QuedaLaBuena`,
  from the types; the types of the caches and of the maintenance loop.

`TiposDeLaCaptura`, `TiposDelPanel` and `TiposDeLosLazos` are proved for the
compositions as well (`LaCapturaSeTiene`, `ElPanelSeTiene`, `LosLazosSeTienen`).

Assumptions are those of the `ASSUME`s: finite sets of actors, natural bounds,
"no value" distinct from every value, a buffer of at least two cells (one line),
a deadline longer than the tarpit, factory settings that validate, the firewall's service distinct from what is run by
hand (`ReglasAssumption`).
`SupervisorPruebas` assumes nothing of ports.

Only model-checked: all liveness, `ReinicioRehace` among it, since neither
fairness nor ENABLED is within this prover's reach; that the compositions lose
nothing by moving one component at a time, which is an argument and not a formula;
and, in `Clasificacion`, that the patterns of a text are what its record says.

## 6. Where code and comments part

With a run: the three *violated* rows above. Seen while modelling, and
allowed by the properties as they are stated, without a run of their own:

- A late event makes the reread window begin inside an attack; its tail is
  grouped under a new key, a second overlapping row that is told of on its own
  (`main.go:838` against `store/episodio.go:315-317`).
- "Releer es inofensivo" (`collector/tail.go:19-21`) holds while the rows are there
  to absorb the repeats. A log that reaches further back than retention brings purged
  events in again, and an attack whose first event was purged can be written over by
  a smaller one under the same key. `AtrasoCorto` excludes it, as the code does when
  Cowrie rotates its log every day (`collector/tail_test.go:108`) and events are kept
  for whole days (`retencion.go`) or for ever.
- `k0pot -reclasificar` says the attacks "se rehacen solos en el proximo ciclo"
  (`main.go:969`): a collector whose watermark is at the newest id has nothing
  to do until it restarts; and the notices are told again, because `avisado`
  went with the rows. Attacks whose events retention dropped do not come back.
- A verdict changed by enrichment does not reach its attack (`main.go:1156`).
- Judging again uses the factory's thresholds (`main.go:1149`) and does not read
  the protocol (`store/store.go:491`); `RejuzgadoBien` excludes both.
- An event stored just after `EventosDeIP` read the table keeps the verdict
  given without context.
- A call the provider served but whose answer was of no use is taken off the
  budget (`store/informe.go:20-22` says exhausting the quota is impossible).
- Two traps that swap ports fail for a cycle (`trampa/supervisor.go:83`).
- The first 64 bytes of two logs agree when both begin with a connection of one
  address, so a rewritten file can pass for the old one (`collector/tail.go:157-159`);
  and a log rotated while the collector is down is not read to its end
  (`collector/tail.go:22-24`).
- "Sin confirmar, la red se revierte sola" (`web/red.go:109-110`): not after a
  second change on top of the first, whose copy is the first one; not after a
  restart, since the margin is a process that sleeps; and the margin of an old
  change may end early in a new one's. Arming the firewall's timer may fail after
  the timer of the change before was stopped (`k0pot-nft.sh:113-118`), and a margin
  that ends while the rules are still being loaded watches nothing.
  `UnoAUnoSeRevierte` is what remains.
- "confirmado; no habra reversion" (`k0pot-red.sh:65-66`) and "Las reglas se quedan"
  (`k0pot-nft.sh:138-143`) are also said to a confirmation that comes when the witness
  was already seen (`k0pot-red.sh:52-56`) or the service has started: what was
  confirmed is undone all the same. `elegida` and `elegidas` then hold both.
- "deja de valerle ahora mismo" (`web/sesion.go:262-263`): a login that read the
  old hash before the change may write its session after it, and the error of
  closing the sessions is ignored. `SoloClaveVigente` excepts exactly these.
- Two saves that overlap undo each other, the wizard saves what it read before it
  asked (`configurar.go:29-37`) over a running panel's changes, and the panel never
  rereads the row. Of a provider listed twice all models without a key get its last
  one (`web/config.go:151-171`); an emptied list falls back on the old single key.
- "Clave vacia = sin cambios" (`web/config.go:152-153`) does not hold of the old single
  provider when the same form puts the models out of use or changes its kind or URL:
  that is applied first (`web/config.go:139-150`), so its key is not found any more
  (`config.go:162-174`) and it is left out of the list. `ComoEstaba` excepts it.
- "aparecerá aquí cuando haya cuota disponible" (`static/idiomas.js:969`), "sin reabrir"
  (`explicar_fondo.go:246-247`): a request is taken off the queue before anything else
  and not put back when the budget refuses it or the call fails
  (`explicar_fondo.go:142-146`, `226-240`), so the page may poll for ever.
- A pause of a 429 replaces a longer one that is still running (`main.go:1492`),
  falling back in a report marks no pause, and the command line's report does not
  ask the budget (`main.go:1520`).
- An attack that bit the bait "merece su propia narrativa"
  (`explicar_fondo.go:56-58`), but the seeding files it under the signature of one
  that did not, because it reads no passwords (`deSiembra` in `MemoriaFiel`).
- An error of the database publishes an empty intelligence (`intel_cache.go:44`)
  until the next round; a file of Cowrie's that cannot be removed keeps attacks
  from being purged (`retencion.go:74-77`).
- MongoDB's trap has no limit of bytes and renews its deadline at each message; the
  memory of visitors passes `maxRecordados` when all of them are recent
  (`recuerdo.go:94`); a Postgres password that never comes counts as a login; Docker
  registers neither pings nor rubbish.

## 7. Abstractions to keep in mind, and what is not modelled

Time is whole ticks; the text order of RFC3339Nano dates with fractions of
different length is below it. Texts (users, commands, summaries, reports,
narratives) are Booleans, identities or left out. Crashes lose memory and keep
the database; SQLite statements are atomic, transactions too. The command line
is in `AtaquesRevisados`, not in `Enriquecedor`. Whether the budget has room is
left open in `Aprendiz` and `Narrativas`: a refusal is one of the ways a round
is abandoned. Hashes, tokens, netplan, systemd and the models themselves are external.

Not modelled: GeoIP (rides along with enrichment and influences no verdict);
campaigns, artefacts, indicators, exploits, knowledge base and bait (pure
functions over texts; what others ask of them is a Boolean); notice channels
(one HTTP request, accepted or refused); the HTTP clients of the model
providers and VirusTotal; prompts; Cowrie's parser; retention of Cowrie's files; the read-only
handlers and the web client; the checks of the firewall script before it applies, what it leaves in
`/etc/nftables.conf` for the next boot, and a `netplan apply` that fails after
`netplan generate` accepted; the update script.

## 8. Plan

1. `AtaquesRevisados`: the part of `ReinicioRehace` that is safety (after the first
   whole round since a restart every row has the present verdicts), which lets most
   of the leads-to be proved and leaves TLC only the fairness.
2. Abstract specifications worth stating next: "every event is told once" for
   `Ataques` (mapping `enviados`), "a log is a stream" for `Seguidor`.
