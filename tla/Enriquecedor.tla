----------------------------- MODULE Enriquecedor -----------------------------
(***************************************************************************)
(* Who is behind an address: the enrichment goroutine of the collector     *)
(* (enriquecerEnBucle), its AbuseIPDB client with a daily quota, and what  *)
(* it does to the events already stored (reclasificarIP).                  *)
(*                                                                         *)
(* It shares the database with the goroutines that capture events, which   *)
(* judge an event with what is known of its address and store it in a      *)
(* second statement.  The panel switches enrichment and its key at will.   *)
(* A tick of the clock is a day: the day the quota is renewed and records  *)
(* grow old.                                                               *)
(***************************************************************************)
EXTENDS Clasificacion, Sequences, FiniteSets

CONSTANTS
    IP,            \* addresses that attack
    Privadas,      \* those the API knows nothing of (EsConsultable)
    Sucesos,       \* what an event may say in this instance
    Origenes,      \* what the API may answer of an address
    Ajustes,       \* settings the panel may save: [activo, clave]
    Clave, SinClave, \* API keys; SinClave is the empty one
    Umbrales,      \* values of ReputacionAlta the panel may save
    Cupo,          \* queries a key has each day
    Reserva,       \* ReservaCuota
    Caducidad,     \* days a record of an address is good for
    PorTanda,      \* addresses of one batch
    MaxReloj, MaxEventos, MaxFallos, MaxAjustes, MaxCaidas, MaxPurgas  \* bounds

UmbralPorDefecto == 75

ASSUME EnriquecedorAssumption ==
    /\ IsFiniteSet(IP) /\ Privadas \subseteq IP
    /\ Sucesos \subseteq Suceso
    /\ Origenes \subseteq Origen /\ \A o \in Origenes : o.enriquecido = TRUE
    /\ SinClave \notin Clave
    /\ Ajustes \subseteq [activo : BOOLEAN, clave : Clave \cup {SinClave}]
    /\ Umbrales \subseteq 0..100
    /\ Cupo \in Nat /\ Reserva \in Nat /\ Caducidad \in Nat /\ PorTanda \in Nat \ {0}
    /\ MaxReloj \in Nat /\ MaxEventos \in Nat /\ MaxFallos \in Nat
    /\ MaxAjustes \in Nat /\ MaxCaidas \in Nat /\ MaxPurgas \in Nat

VARIABLES
    reloj,        \* the day
    ajuste, umbral, \* the configuration
    eventos,      \* table eventos: [id, ip, suceso, veredicto]
    ultimoId,     \* its AUTOINCREMENT counter
    ips,          \* table ips: address -> [origen, dia] it was asked on
    captura,      \* the event judged and not yet stored: at most one
    pc,           \* where enriquecerEnBucle is
    cliente,      \* the client exists: the pointer is not nil
    claveActiva,  \* the key it was made for
    restantes,    \* the quota it believes is left; -1: it does not know
    pausaHasta,   \* day until which it keeps quiet after a 429
    cola,         \* addresses of this batch still to do
    hallado,      \* the origin just obtained for the first of them
    porJuzgar,    \* ids of its events that reclasificarIP has read
    purgas, purgando, \* retention: purges begun, and one half done
    cupo,         \* the API: queries left today for each key
    ciegas,       \* history: today's queries sent or lost without knowing
    rejuzgados,   \* history: ids judged again with the record in ips
    fallos, cambios, caidas, panicos  \* bounds and history

tablas == <<eventos, ultimoId, ips>>
retencion == <<purgas, purgando>>
panel == <<ajuste, umbral, cambios>>
abuse == <<cliente, claveActiva, restantes, pausaHasta>>
tanda == <<cola, hallado, porJuzgar>>
api == <<cupo, ciegas>>
historia == <<rejuzgados, fallos, caidas, panicos>>
vars == <<reloj, panel, tablas, captura, pc, abuse, tanda, retencion, api, historia>>

Ids == 1..MaxEventos
Evento == [id : Ids, ip : IP, suceso : Sucesos, veredicto : Veredicto]
Ficha == [origen : Origen, dia : 0..MaxReloj]
Fase == {"ciclo", "pendientes", "tanda", "guardar", "leer", "juzgar", "dormido"}

\* marcarNoConsultable: the record of a private address.
NoConsultable == [enriquecido |-> TRUE, tor |-> FALSE, reputacion |-> 0]

Init ==
    /\ reloj = 0
    /\ ajuste \in Ajustes /\ umbral \in Umbrales /\ cambios = 0
    /\ eventos = {} /\ ultimoId = 0 /\ ips = [a \in {} |-> 0]
    /\ captura = {} /\ purgas = 0 /\ purgando = FALSE
    /\ pc = "ciclo"
    /\ cliente = FALSE /\ claveActiva = SinClave /\ restantes = -1 /\ pausaHasta = 0
    /\ cola = <<>> /\ hallado = SinOrigen /\ porJuzgar = {}
    /\ cupo = [k \in Clave |-> Cupo] /\ ciegas = [k \in Clave |-> 0]
    /\ rejuzgados = {} /\ fallos = 0 /\ caidas = 0 /\ panicos = 0

-----------------------------------------------------------------------------
(* Capturing: ingerir and guardarEvento.                                   *)

OrigenDe(a) == IF a \in DOMAIN ips THEN ips[a].origen ELSE SinOrigen

\* OrigenDe and Clasificar ...
Capturar(a, s) ==
    /\ captura = {}
    /\ ultimoId < MaxEventos
    /\ captura' = {[id |-> ultimoId + 1, ip |-> a, suceso |-> s,
                    veredicto |-> Clasificar(s, OrigenDe(a), umbral)]}
    /\ UNCHANGED <<reloj, panel, retencion, tablas, pc, abuse, tanda, api, historia>>

\* ... and Guardar.
Guardar ==
    /\ captura # {}
    /\ eventos' = eventos \cup captura
    /\ captura' = {}
    /\ ultimoId' = ultimoId + 1
    /\ UNCHANGED <<reloj, panel, ips, retencion, pc, abuse, tanda, api, historia>>

-----------------------------------------------------------------------------
(* enriquecerEnBucle: the switch at the top of the cycle.                  *)

Encendido == ajuste.activo /\ ajuste.clave # SinClave

CicloApagado ==
    /\ pc = "ciclo" /\ ~ Encendido
    /\ cliente' = FALSE
    /\ pc' = "dormido"
    /\ UNCHANGED <<reloj, panel, tablas, captura, retencion, claveActiva, restantes,
                   pausaHasta, tanda, api, historia>>

CicloClaveNueva ==
    /\ pc = "ciclo" /\ Encendido /\ ajuste.clave # claveActiva
    /\ claveActiva' = ajuste.clave
    /\ cliente' = TRUE /\ restantes' = -1 /\ pausaHasta' = 0
    /\ pc' = "pendientes"
    /\ UNCHANGED <<reloj, panel, tablas, captura, retencion, tanda, api, historia>>

CicloMismaClave ==
    /\ pc = "ciclo" /\ Encendido /\ ajuste.clave = claveActiva /\ cliente
    /\ pc' = "pendientes"
    /\ UNCHANGED <<reloj, panel, tablas, captura, retencion, abuse, tanda, api,
                   historia>>

\* What memory holds is gone when the process dies: the capture in flight too.
Reiniciar ==
    /\ captura' = {} /\ purgando' = FALSE
    /\ pc' = "ciclo"
    /\ cliente' = FALSE /\ claveActiva' = SinClave
    /\ restantes' = -1 /\ pausaHasta' = 0
    /\ cola' = <<>> /\ hallado' = SinOrigen /\ porJuzgar' = {}

\* cliente.Reserva = ... through a nil pointer: the whole collector goes down.
CicloPanico ==
    /\ pc = "ciclo" /\ Encendido /\ ajuste.clave = claveActiva /\ ~ cliente
    /\ panicos' = panicos + 1
    /\ Reiniciar
    /\ UNCHANGED <<reloj, panel, tablas, purgas, api, rejuzgados, fallos, caidas>>

Despertar ==
    /\ pc = "dormido"
    /\ pc' = "ciclo"
    /\ UNCHANGED <<reloj, panel, tablas, captura, retencion, abuse, tanda, api,
                   historia>>

-----------------------------------------------------------------------------
(* enriquecerTanda.                                                        *)

\* Mutant: the age of the record is not looked at.
PendienteSiempre(a) == \E e \in eventos : e.ip = a

\* Mutant: JOIN in place of LEFT JOIN.
PendienteConFicha(a) ==
    /\ \E e \in eventos : e.ip = a
    /\ a \in DOMAIN ips
    /\ ips[a].dia < reloj - Caducidad

\* Seen in some event, and never asked or asked too long ago.
Pendiente(a) ==
    /\ \E e \in eventos : e.ip = a
    /\ a \in DOMAIN ips => ips[a].dia < reloj - Caducidad

Cuantos(a) == Cardinality({e \in eventos : e.ip = a})

\* ORDER BY n DESC LIMIT PorTanda: a batch of the busiest, ties in any order.
EsTanda(q) ==
    /\ \A i, j \in 1..Len(q) : i < j => q[i] # q[j] /\ Cuantos(q[i]) >= Cuantos(q[j])
    /\ \A i \in 1..Len(q) : Pendiente(q[i])
    /\ \A a \in IP : Pendiente(a) =>
         \/ \E i \in 1..Len(q) : q[i] = a
         \/ Len(q) = PorTanda /\ \A i \in 1..Len(q) : Cuantos(q[i]) >= Cuantos(a)

IPsPendientes ==
    /\ pc = "pendientes"
    /\ \E n \in 0..PorTanda : \E q \in [1..n -> IP] : EsTanda(q) /\ cola' = q
    /\ pc' = "tanda"
    /\ UNCHANGED <<reloj, panel, tablas, captura, retencion, abuse, hallado,
                   porJuzgar, api,
                   historia>>

Primera == Head(cola)

\* The batch ends: done, or cut short by a spent quota or a failed statement.
Dormir == pc' = "dormido" /\ cola' = <<>> /\ hallado' = SinOrigen /\ porJuzgar' = {}

TandaAcaba ==
    /\ pc = "tanda" /\ cola = <<>>
    /\ Dormir
    /\ UNCHANGED <<reloj, panel, tablas, captura, retencion, abuse, api, historia>>

MarcarNoConsultable ==
    /\ pc = "tanda" /\ cola # <<>> /\ Primera \in Privadas
    /\ ips' = [a \in DOMAIN ips \cup {Primera} |->
                 IF a = Primera THEN [origen |-> NoConsultable, dia |-> reloj]
                                ELSE ips[a]]
    /\ rejuzgados' = {i \in rejuzgados : \A e \in eventos : e.id = i => e.ip # Primera}
    /\ cola' = Tail(cola)
    /\ UNCHANGED <<reloj, panel, eventos, ultimoId, captura, retencion, pc, abuse,
                   hallado, porJuzgar, api,
                   fallos, caidas, panicos>>

-----------------------------------------------------------------------------
(* AbuseIPDB.Enriquecer.                                                   *)

\* Mutant: the margin of reserve is forgotten.
PermitidoSinReserva == reloj >= pausaHasta /\ (restantes >= 0 => restantes > 0)

Permitido == reloj >= pausaHasta /\ (restantes >= 0 => restantes > Reserva)

PorConsultar == pc = "tanda" /\ cola # <<>> /\ Primera \notin Privadas

\* ErrSinCuota: nothing is asked any more in this batch.
SinPermiso ==
    /\ PorConsultar /\ ~ Permitido
    /\ Dormir
    /\ UNCHANGED <<reloj, panel, tablas, captura, retencion, abuse, api, historia>>

Consultar == PorConsultar /\ Permitido

\* A query sent, or answered, without saying what is left.
ACiegas(legible) == IF legible /\ restantes # -1 THEN 0 ELSE 1

\* anotarCuota: the header tells what is left; when it is missing or is no
\* number, the client goes on believing what it did.
AnotarCuota(quedan, legible) == restantes' = IF legible THEN quedan ELSE restantes

\* The API answers: one query less, and the header, when there is one, says so.
\* A header that cannot be read counts among the failures.
Responde(o, legible) ==
    /\ Consultar
    /\ legible \/ fallos < MaxFallos
    /\ fallos' = IF legible THEN fallos ELSE fallos + 1
    /\ cupo[claveActiva] > 0
    /\ cupo' = [cupo EXCEPT ![claveActiva] = @ - 1]
    /\ AnotarCuota(cupo[claveActiva] - 1, legible)
    /\ ciegas' = [ciegas EXCEPT ![claveActiva] = @ + ACiegas(legible)]
    /\ hallado' = o
    /\ pc' = "guardar"
    /\ UNCHANGED <<reloj, panel, tablas, captura, retencion, cliente, claveActiva,
                   pausaHasta,
                   cola, porJuzgar, rejuzgados, caidas, panicos>>

\* An error status, or a body that cannot be read: no origin.
RespondeMal(legible) ==
    /\ Consultar /\ fallos < MaxFallos
    /\ cupo[claveActiva] > 0
    /\ cupo' = [cupo EXCEPT ![claveActiva] = @ - 1]
    /\ AnotarCuota(cupo[claveActiva] - 1, legible)
    /\ ciegas' = [ciegas EXCEPT ![claveActiva] = @ + ACiegas(legible)]
    /\ fallos' = fallos + 1
    /\ cola' = Tail(cola)
    /\ UNCHANGED <<reloj, panel, tablas, captura, retencion, pc, cliente,
                   claveActiva, pausaHasta,
                   hallado, porJuzgar, rejuzgados, caidas, panicos>>

\* The network fails; the API may have counted the query all the same.
NoResponde(contada) ==
    /\ Consultar /\ fallos < MaxFallos
    /\ contada <= cupo[claveActiva]
    /\ cupo' = [cupo EXCEPT ![claveActiva] = @ - contada]
    /\ ciegas' = [ciegas EXCEPT ![claveActiva] = @ + contada]
    /\ fallos' = fallos + 1
    /\ cola' = Tail(cola)
    /\ UNCHANGED <<reloj, panel, tablas, captura, retencion, pc, abuse, hallado,
                   porJuzgar,
                   rejuzgados, caidas, panicos>>

\* 429: quiet for 24 hours, and the batch ends.
Limita(legible) ==
    /\ Consultar
    /\ cupo[claveActiva] = 0
    /\ AnotarCuota(0, legible)
    /\ pausaHasta' = reloj + 1
    /\ Dormir
    /\ UNCHANGED <<reloj, panel, tablas, captura, retencion, cliente, claveActiva,
                   api, historia>>

-----------------------------------------------------------------------------
(* What is done with an origin.                                            *)

GuardarOrigen ==
    /\ pc = "guardar"
    /\ ips' = [a \in DOMAIN ips \cup {Primera} |->
                 IF a = Primera THEN [origen |-> hallado, dia |-> reloj] ELSE ips[a]]
    /\ rejuzgados' = {i \in rejuzgados : \A e \in eventos : e.id = i => e.ip # Primera}
    /\ pc' = "leer"
    /\ UNCHANGED <<reloj, panel, eventos, ultimoId, captura, retencion, abuse, tanda,
                   api, fallos, caidas,
                   panicos>>

\* reclasificarIP: EventosDeIP ...
EventosDeIP ==
    /\ pc = "leer"
    /\ porJuzgar' = {e.id : e \in {x \in eventos : x.ip = Primera}}
    /\ pc' = "juzgar"
    /\ UNCHANGED <<reloj, panel, tablas, captura, retencion, abuse, cola, hallado,
                   api, historia>>

\* EventosDeIP does not read the protocol, and SinShell("") is false.
LoLeido(s) == [s EXCEPT !.sinShell = FALSE]

\* Mutant: the origin just obtained is not used.
JuicioSinOrigen(s) == Clasificar(LoLeido(s), SinOrigen, UmbralPorDefecto)

\* classify.Nuevo(): the thresholds of the factory, not of the configuration.
Juicio(s) == Clasificar(LoLeido(s), hallado, UmbralPorDefecto)

\* ... and an UPDATE for each one whose verdict changes.
Rejuzgar(e) ==
    /\ pc = "juzgar"
    /\ e.id \in porJuzgar
    /\ eventos' = (eventos \ {e}) \cup {[e EXCEPT !.veredicto = Juicio(e.suceso)]}
    /\ porJuzgar' = porJuzgar \ {e.id}
    /\ rejuzgados' = rejuzgados \cup {e.id}
    /\ UNCHANGED <<reloj, panel, ultimoId, ips, captura, retencion, pc, abuse, cola,
                   hallado, api, fallos,
                   caidas, panicos>>

RejuzgarAcaba ==
    /\ pc = "juzgar" /\ \A e \in eventos : e.id \notin porJuzgar
    /\ pc' = "tanda"
    /\ cola' = Tail(cola) /\ hallado' = SinOrigen /\ porJuzgar' = {}
    /\ UNCHANGED <<reloj, panel, tablas, captura, retencion, abuse, api, historia>>

\* A statement fails, that of a private address too: the batch ends, what was
\* written stays.
Fallar ==
    /\ \/ pc \in {"pendientes", "guardar", "leer", "juzgar"}
       \/ pc = "tanda" /\ cola # <<>> /\ Primera \in Privadas
    /\ fallos < MaxFallos
    /\ fallos' = fallos + 1
    /\ Dormir
    /\ UNCHANGED <<reloj, panel, tablas, captura, retencion, abuse, api, rejuzgados,
                   caidas,
                   panicos>>

-----------------------------------------------------------------------------
(* Retention: Store.PurgarEventos, two statements of the maintenance       *)
(* goroutine.                                                              *)

\* The old events go.  Which ones are old depends on the dates the log gave them.
PurgarEventos(viejos) ==
    /\ purgas < MaxPurgas
    /\ purgas' = purgas + 1 /\ purgando' = TRUE
    /\ eventos' = eventos \ viejos
    /\ UNCHANGED <<reloj, panel, ultimoId, ips, captura, pc, abuse, tanda, api,
                   historia>>

\* Records nobody has an event of go too, unless the statement fails, unheard.
PurgarFichas ==
    /\ purgando
    /\ purgando' = FALSE
    /\ ips' = [a \in {x \in DOMAIN ips : \E e \in eventos : e.ip = x} |-> ips[a]]
    /\ UNCHANGED <<reloj, panel, eventos, ultimoId, captura, pc, abuse, tanda, purgas,
                   api, historia>>

PurgarFichasFalla ==
    /\ purgando
    /\ purgando' = FALSE
    /\ UNCHANGED <<reloj, panel, tablas, captura, pc, abuse, tanda, purgas, api,
                   historia>>

-----------------------------------------------------------------------------
(* The world.                                                              *)

\* A new day: every key has its quota back.
Amanecer ==
    /\ reloj < MaxReloj
    /\ reloj' = reloj + 1
    /\ cupo' = [k \in Clave |-> Cupo] /\ ciegas' = [k \in Clave |-> 0]
    /\ UNCHANGED <<panel, tablas, captura, retencion, pc, abuse, tanda, historia>>

Configurar(a, u) ==
    /\ cambios < MaxAjustes
    /\ cambios' = cambios + 1
    /\ ajuste' = a /\ umbral' = u
    /\ UNCHANGED <<reloj, tablas, captura, retencion, pc, abuse, tanda, api, historia>>

Caer ==
    /\ caidas < MaxCaidas
    /\ caidas' = caidas + 1
    /\ Reiniciar
    /\ UNCHANGED <<reloj, panel, tablas, purgas, api, rejuzgados, fallos, panicos>>

-----------------------------------------------------------------------------
Respuesta ==
    \/ \E legible \in BOOLEAN :
         (\E o \in Origenes : Responde(o, legible)) \/ RespondeMal(legible) \/ Limita(legible)
    \/ \E n \in {0, 1} : NoResponde(n)

Bucle ==
    \/ CicloApagado \/ CicloClaveNueva \/ CicloMismaClave \/ CicloPanico \/ Despertar
    \/ IPsPendientes \/ TandaAcaba \/ MarcarNoConsultable \/ SinPermiso \/ Respuesta
    \/ GuardarOrigen \/ EventosDeIP \/ (\E e \in eventos : Rejuzgar(e)) \/ RejuzgarAcaba
    \/ Fallar

Purga ==
    \/ \E viejos \in SUBSET eventos : PurgarEventos(viejos)
    \/ PurgarFichas
    \/ PurgarFichasFalla

Next ==
    \/ \E a \in IP, s \in Sucesos : Capturar(a, s)
    \/ Guardar
    \/ Bucle
    \/ Purga
    \/ Amanecer
    \/ \E a \in Ajustes, u \in Umbrales : Configurar(a, u)
    \/ Caer

Spec == Init /\ [][Next]_vars

\* The goroutine is scheduled; captures get stored.
SpecViva == Spec /\ WF_vars(Bucle) /\ WF_vars(Guardar)

-----------------------------------------------------------------------------
\* Types of the tables and of the goroutine's locals.
TypeOK ==
    /\ reloj \in 0..MaxReloj
    /\ ajuste \in Ajustes /\ umbral \in Umbrales
    /\ IsFiniteSet(eventos) /\ eventos \subseteq Evento /\ ultimoId \in 0..MaxEventos
    /\ DOMAIN ips \subseteq IP /\ ips \in [DOMAIN ips -> Ficha]
    /\ IsFiniteSet(captura) /\ captura \subseteq Evento
    /\ pc \in Fase
    /\ cliente \in BOOLEAN /\ claveActiva \in Clave \cup {SinClave}
    /\ restantes \in -1..Cupo /\ pausaHasta \in 0..(MaxReloj + 1)
    /\ cola \in Seq(IP) /\ hallado \in Origen /\ porJuzgar \subseteq Ids
    /\ cupo \in [Clave -> 0..Cupo] /\ ciegas \in [Clave -> Nat]
    /\ rejuzgados \subseteq Ids
    /\ fallos \in 0..MaxFallos /\ cambios \in 0..MaxAjustes
    /\ caidas \in 0..MaxCaidas /\ panicos \in Nat
    /\ purgas \in 0..MaxPurgas /\ purgando \in BOOLEAN

\* The reserve of a key's quota (abuseipdb.go:36-38) is only ever touched by
\* queries the client could not count: the first after a restart or a change of
\* key, and the ones whose answer was lost.
ReservaRespetada ==
    \A k \in Clave : cupo[k] + ciegas[k] >= IF Reserva < Cupo THEN Reserva ELSE Cupo

\* A query is never spent on an address whose record is still good: the batch
\* was read long before, but nobody else writes records, and retention only
\* removes them (IPsPendientes).
NoGastaDosVeces ==
    [][\A k \in Clave : cupo'[k] < cupo[k] =>
         (Primera \in DOMAIN ips => ips[Primera].dia < reloj - Caducidad)]_vars

\* An event judged again carries the verdict its address deserves under the
\* thresholds in force (reclasificarIP), as long as retention has not dropped the
\* record it was judged with.  Only while those thresholds are the factory's and
\* the protocol has a shell: reclasificarIP uses classify.Nuevo() (main.go:1149)
\* and EventosDeIP does not read the protocol (store.go:491).
RejuzgadoBien ==
    \A e \in eventos :
        (/\ e.id \in rejuzgados /\ e.ip \in DOMAIN ips
         /\ umbral = UmbralPorDefecto /\ ~ e.suceso.sinShell) =>
        e.veredicto = Clasificar(e.suceso, OrigenDe(e.ip), umbral)

\* Knowing who was behind an address never lowers what one of its events earned
\* by what was done in it (classify.go:81-83): but for retention, which only
\* removes, a row is only ever replaced by one of the same event with as much
\* weight.
LoHechoNoSeRebaja ==
    [][\/ eventos' \subseteq eventos
       \/ \A e \in eventos \ eventos' : HablaPorSi(e.suceso) =>
            \E f \in eventos' : /\ f.id = e.id /\ f.suceso = e.suceso
                                /\ f.veredicto >= e.veredicto]_vars

\* With a quota that is not used up, every public address that attacks gets its
\* record in the end, whatever fails on the way (enriquecerEnBucle), or retention
\* takes its events first.
TodaIPSeConoce ==
    \A a \in IP : (\E e \in eventos : e.ip = a)
                    ~> (a \in DOMAIN ips \/ \A e \in eventos : e.ip # a)

-----------------------------------------------------------------------------
\* What the client believes of its quota never exceeds what is left but for the
\* queries it could not count.
SabeLoQueQueda ==
    (cliente /\ restantes >= 0) =>
        /\ claveActiva \in Clave
        /\ restantes <= cupo[claveActiva] + ciegas[claveActiva]

\* The addresses still to do are different, and their records are missing or old.
ColaPendiente ==
    /\ \A i, j \in 1..Len(cola) : i # j => cola[i] # cola[j]
    /\ \A i \in 1..Len(cola) :
         (cola[i] \in DOMAIN ips /\ (i = 1 => pc \in {"tanda", "guardar"}))
            => ips[cola[i]].dia < reloj - Caducidad

\* Where the loop is says whether there is a client and an address in hand; an
\* event in flight has an id waiting.
Fases ==
    /\ pc \in {"guardar", "leer", "juzgar"} => cola # <<>>
    /\ pc \notin {"ciclo", "dormido"} => cliente /\ claveActiva \in Clave
    /\ captura # {} => ultimoId < MaxEventos

\* An event that speaks for itself was given at most what reclasificarIP gives.
HechosJuzgados ==
    \A e \in eventos \cup captura : HablaPorSi(e.suceso) =>
        e.veredicto <= Clasificar(LoLeido(e.suceso), SinOrigen, UmbralPorDefecto)

\* An id names one event, also while it is in flight or purged.
Identificados ==
    /\ \A e, f \in eventos \cup captura : e.id = f.id => e = f
    /\ \A e \in eventos : e.id <= ultimoId
    /\ \A e \in captura : e.id = ultimoId + 1
    /\ \A i \in rejuzgados \cup porJuzgar : i <= ultimoId

\* While its events are judged, the record of the address in hand is what was
\* just obtained, or retention dropped it; and only its events are judged.
EnMano ==
    /\ (pc \in {"leer", "juzgar"} /\ Primera \in DOMAIN ips) => ips[Primera].origen = hallado
    /\ pc = "juzgar" => \A e \in eventos : e.id \in porJuzgar => e.ip = Primera

\* RejuzgadoBien as reclasificarIP sees it, whatever the configuration says.
ConSuFicha ==
    \A e \in eventos :
        (e.id \in rejuzgados /\ e.ip \in DOMAIN ips) =>
            e.veredicto = Clasificar(LoLeido(e.suceso), OrigenDe(e.ip), UmbralPorDefecto)

\* The inductive invariant of EnriquecedorPruebas.
Inductivo == /\ TypeOK /\ Fases /\ SabeLoQueQueda /\ ReservaRespetada /\ ColaPendiente
             /\ HechosJuzgados /\ Identificados /\ EnMano /\ ConSuFicha

-----------------------------------------------------------------------------
\* abuseipdb.go:22-24, "el enriquecimiento se reanuda cuando la cuota se
\* renueva": while a key has queries to give beyond the reserve, an address that
\* waits for its record gets it (or the queries go to others).
SeReanuda ==
    \A a \in IP \ Privadas, k \in Clave :
        (Pendiente(a) /\ claveActiva = k /\ cliente /\ cupo[k] > Reserva)
            ~> (a \in DOMAIN ips \/ cupo[k] <= Reserva \/ ~ cliente)

\* main.go:201-202: neither the slowness nor the fall of enrichment may stop
\* the capture.
NuncaTumbaLaCaptura == panicos = 0
=============================================================================
