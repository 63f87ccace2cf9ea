------------------------- MODULE EnriquecedorPruebas -------------------------
(***************************************************************************)
(* Proofs about the enrichment goroutine, for any number of addresses,     *)
(* keys, days, failures and restarts.  The reserve of a quota holds        *)
(* because the client never believes in more queries than are left, the    *)
(* ones it could not count aside; no query is repeated because the batch   *)
(* holds different addresses and only this goroutine writes records; and   *)
(* what was done in an event weighs the same whoever did it.               *)
(***************************************************************************)
EXTENDS Enriquecedor, FiniteSetTheorems, TLAPS

-----------------------------------------------------------------------------
(* The rules (classify.go).                                                *)

\* Every verdict is one of the three ranks.
LEMMA HayVeredicto ==
    ASSUME NEW s \in Suceso, NEW o \in Origen, NEW u \in Int
    PROVE  Clasificar(s, o, u) \in Veredicto
<1>1. CASE HablaPorSi(s)
  <2>1. PorAccion(s) \in Veredicto
    BY <1>1 DEF HablaPorSi, PorAccion, ComandoPesa, HttpPesa, Veredicto, Ruido,
                Revisar, Notable, Suceso
  <2> QED
    BY <1>1, <2>1 DEF Clasificar, Veredicto, Ruido, Revisar, Notable
<1>2. CASE ~ HablaPorSi(s)
  BY <1>2 DEF Clasificar, Veredicto, Ruido, Revisar, Notable
<1> QED
  BY <1>1, <1>2

\* Losing the protocol of an event leaves it a possible event, still speaking for
\* itself, and never makes it weigh less (EventosDeIP).
LEMMA LeidoPesaMas ==
    ASSUME NEW s \in Suceso, NEW o, NEW u, NEW o2, NEW u2, HablaPorSi(s)
    PROVE  /\ LoLeido(s) \in Suceso /\ HablaPorSi(LoLeido(s))
           /\ Clasificar(s, o, u) <= Clasificar(LoLeido(s), o2, u2)
<1>1. /\ LoLeido(s) \in Suceso
      /\ LoLeido(s).tipo = s.tipo /\ LoLeido(s).cebo = s.cebo
      /\ LoLeido(s).patron = s.patron /\ LoLeido(s).exploit = s.exploit
      /\ LoLeido(s).credenciales = s.credenciales
      /\ LoLeido(s).rutaRara = s.rutaRara /\ LoLeido(s).sinShell = FALSE
  BY DEF LoLeido, Suceso
<1>2. HablaPorSi(LoLeido(s))
  BY <1>1 DEF HablaPorSi
<1>3. CASE s.cebo
  BY <1>1, <1>2, <1>3 DEF Clasificar, Notable
<1>4. CASE ~ s.cebo
  <2>1. /\ Clasificar(s, o, u) = PorAccion(s)
        /\ Clasificar(LoLeido(s), o2, u2) = PorAccion(LoLeido(s))
    BY <1>1, <1>2, <1>4 DEF Clasificar
  <2>2. CASE s.tipo = "comando_ejecutado"
    <3>1. /\ PorAccion(s) = ComandoPesa(s)
          /\ PorAccion(LoLeido(s)) = ComandoPesa(LoLeido(s))
      BY <1>1, <2>2 DEF PorAccion
    <3> QED
      BY <1>1, <1>2, <2>1, <3>1 DEF ComandoPesa, Notable, Ruido
  <2>3. CASE s.tipo = "peticion_http"
    <3>1. /\ PorAccion(s) = HttpPesa(s)
          /\ PorAccion(LoLeido(s)) = HttpPesa(s)
      BY <1>1, <2>3 DEF PorAccion, HttpPesa
    <3>2. HttpPesa(s) \in Int
      BY DEF HttpPesa, Notable, Revisar, Suceso
    <3> QED
      BY <1>1, <1>2, <2>1, <3>1, <3>2
  <2>4. CASE s.tipo \notin {"comando_ejecutado", "peticion_http"}
    BY <1>1, <1>2, <2>1, <2>4 DEF PorAccion, HablaPorSi, Notable, Revisar
  <2> QED
    BY <2>2, <2>3, <2>4
<1> QED
  BY <1>1, <1>2, <1>3, <1>4

-----------------------------------------------------------------------------
(* Types.                                                                  *)

\* The numbers among the constants.
LEMMA Numeros ==
    /\ MaxReloj \in Nat /\ MaxEventos \in Nat /\ MaxFallos \in Nat
    /\ MaxAjustes \in Nat /\ MaxCaidas \in Nat /\ MaxPurgas \in Nat
    /\ Cupo \in Nat /\ Reserva \in Nat /\ Caducidad \in Nat
    /\ Umbrales \subseteq 0..100
BY Zenon, EnriquecedorAssumption DEF EnriquecedorAssumption

\* The sets among them.
LEMMA Conjuntos ==
    /\ Sucesos \subseteq Suceso /\ Origenes \subseteq Origen
    /\ Ajustes \subseteq [activo : BOOLEAN, clave : Clave \cup {SinClave}]
BY Zenon, EnriquecedorAssumption DEF EnriquecedorAssumption

\* Knowing nothing of an address is an origin too.
LEMMA SinOrigenTipo == SinOrigen \in Origen
BY DEF SinOrigen, Origen

\* What reclasificarIP gives an event that speaks for itself is always the same.
LEMMA RejuicioFijo ==
    ASSUME NEW s \in Suceso, HablaPorSi(s)
    PROVE  /\ Juicio(s) = Clasificar(LoLeido(s), SinOrigen, UmbralPorDefecto)
           /\ Juicio(s) \in Int
<1>1. HablaPorSi(LoLeido(s)) /\ LoLeido(s) \in Suceso
  BY LeidoPesaMas
<1>2. Juicio(s) = Clasificar(LoLeido(s), SinOrigen, UmbralPorDefecto)
  BY <1>1 DEF Juicio, Clasificar
<1>3. Clasificar(LoLeido(s), SinOrigen, UmbralPorDefecto) \in Veredicto
  BY <1>1, HayVeredicto, SinOrigenTipo DEF UmbralPorDefecto
<1> QED
  BY <1>2, <1>3 DEF Veredicto, Ruido, Notable

\* The numbers of a state, apart from the rest of TypeOK.
LEMMA Rangos ==
    ASSUME TypeOK
    PROVE  /\ reloj \in 0..MaxReloj /\ umbral \in Umbrales
           /\ restantes \in -1..Cupo /\ pausaHasta \in 0..(MaxReloj + 1)
           /\ cupo \in [Clave -> 0..Cupo] /\ ciegas \in [Clave -> Nat]
           /\ fallos \in 0..MaxFallos /\ cambios \in 0..MaxAjustes
           /\ caidas \in 0..MaxCaidas /\ panicos \in Nat
           /\ ultimoId \in 0..MaxEventos /\ purgas \in 0..MaxPurgas
BY DEF TypeOK

\* The collector starts with consistent tables and an empty batch.
LEMMA InicioTipos == Init => TypeOK /\ Fases
<1> SUFFICES ASSUME Init PROVE TypeOK /\ Fases
  OBVIOUS
<1>1. /\ IsFiniteSet(eventos) /\ eventos \subseteq Evento
      /\ IsFiniteSet(captura) /\ captura \subseteq Evento
  BY FS_EmptySet DEF Init
<1>2. DOMAIN ips = {} /\ ips \in [DOMAIN ips -> Ficha]
  BY DEF Init
<1>3. /\ reloj \in 0..MaxReloj /\ ajuste \in Ajustes /\ umbral \in Umbrales
      /\ restantes \in -1..Cupo /\ pausaHasta \in 0..(MaxReloj + 1)
      /\ fallos \in 0..MaxFallos /\ cambios \in 0..MaxAjustes
      /\ caidas \in 0..MaxCaidas /\ panicos \in Nat
  BY Numeros, Conjuntos DEF Init
<1>8. ultimoId \in 0..MaxEventos /\ purgas \in 0..MaxPurgas
  BY Numeros DEF Init
<1>9. purgando \in BOOLEAN
  BY DEF Init
<1>4. /\ cupo \in [Clave -> 0..Cupo] /\ ciegas \in [Clave -> Nat]
  BY Numeros, Conjuntos DEF Init
<1>5. /\ pc \in Fase /\ claveActiva \in Clave \cup {SinClave}
      /\ cola \in Seq(IP) /\ porJuzgar \subseteq Ids /\ rejuzgados \subseteq Ids
  BY DEF Init, Fase
<1>7. cliente \in BOOLEAN
  BY DEF Init
<1>6. hallado \in Origen
  BY SinOrigenTipo DEF Init
<1> QED
  BY <1>1, <1>2, <1>3, <1>4, <1>5, <1>6, <1>7, <1>8, <1>9
  DEF TypeOK, Fases, Init

\* The threshold and the origin an event is judged with are of their types.
LEMMA OrigenTipo ==
    ASSUME TypeOK, NEW a \in IP
    PROVE  OrigenDe(a) \in Origen /\ umbral \in Int
<1>1. umbral \in Int
  <2>1. umbral \in 0..100
    BY Numeros, Rangos
  <2> QED
    BY <2>1
<1>2. CASE a \in DOMAIN ips
  <2>1. ips[a] \in Ficha
    BY <1>2 DEF TypeOK
  <2>2. ips[a].origen \in Origen
    BY <2>1 DEF Ficha
  <2> QED
    BY <1>1, <1>2, <2>2 DEF OrigenDe
<1>3. CASE a \notin DOMAIN ips
  BY <1>1, <1>3, SinOrigenTipo DEF OrigenDe
<1> QED
  BY <1>2, <1>3

\* A record written for the first address of the batch keeps the table's type.
LEMMA FichaTipo ==
    ASSUME TypeOK, cola # <<>>, NEW o \in Origen,
           ips' = [a \in DOMAIN ips \cup {Primera} |->
                     IF a = Primera THEN [origen |-> o, dia |-> reloj] ELSE ips[a]]
    PROVE  /\ Primera \in IP
           /\ DOMAIN ips' \subseteq IP
           /\ ips' \in [DOMAIN ips' -> Ficha]
<1>1. Primera \in IP
  BY DEF Primera, TypeOK
<1>2. [origen |-> o, dia |-> reloj] \in Ficha
  BY DEF Ficha, TypeOK
<1>3. DOMAIN ips' = DOMAIN ips \cup {Primera}
  OBVIOUS
<1>4. \A a \in DOMAIN ips : ips[a] \in Ficha
  BY DEF TypeOK
<1> QED
  BY <1>1, <1>2, <1>3, <1>4 DEF TypeOK

\* The rest of a batch is a batch.
LEMMA RestoTipo ==
    ASSUME TypeOK, cola # <<>>
    PROVE  Tail(cola) \in Seq(IP)
BY DEF TypeOK

\* What a restart leaves in memory.
LEMMA ReinicioTipos ==
    ASSUME Reiniciar
    PROVE  /\ IsFiniteSet(captura') /\ captura' = {} /\ pc' = "ciclo" /\ pc' \in Fase
           /\ cliente' \in BOOLEAN /\ claveActiva' \in Clave \cup {SinClave}
           /\ restantes' \in -1..Cupo /\ pausaHasta' \in 0..(MaxReloj + 1)
           /\ cola' \in Seq(IP) /\ hallado' \in Origen /\ porJuzgar' = {}
           /\ purgando' \in BOOLEAN
<1>1. restantes' \in -1..Cupo /\ pausaHasta' \in 0..(MaxReloj + 1)
  BY Numeros DEF Reiniciar
<1>2. IsFiniteSet(captura') /\ captura' = {} /\ cliente' \in BOOLEAN
      /\ purgando' \in BOOLEAN
  BY FS_EmptySet DEF Reiniciar
<1> QED
  BY <1>1, <1>2, SinOrigenTipo DEF Reiniciar, Fase

\* What the end of a batch leaves of it.
LEMMA DormirTipos ==
    ASSUME Dormir
    PROVE  /\ pc' = "dormido" /\ pc' \in Fase
           /\ cola' \in Seq(IP) /\ hallado' \in Origen /\ porJuzgar' = {}
BY SinOrigenTipo DEF Dormir, Fase

\* Types and phases are kept by capturing, by the panel, the clock and a crash.
LEMMA PasoTiposFuera ==
    ASSUME TypeOK, Fases,
           \/ \E a \in IP, s \in Sucesos : Capturar(a, s)
           \/ Guardar \/ Amanecer \/ Caer
           \/ \E a \in Ajustes, u \in Umbrales : Configurar(a, u)
    PROVE  TypeOK' /\ Fases'
<1>1. ASSUME NEW a \in IP, NEW s \in Sucesos, Capturar(a, s)
      PROVE  TypeOK' /\ Fases'
  <2>1. Clasificar(s, OrigenDe(a), umbral) \in Veredicto
    BY OrigenTipo, HayVeredicto, Numeros, Conjuntos
  <2>2. ultimoId + 1 \in Ids /\ ultimoId < MaxEventos
    BY <1>1, Rangos, Numeros DEF Capturar, Ids
  <2>3. IsFiniteSet(captura') /\ captura' \subseteq Evento
    <3>1. PICK v \in Veredicto, i \in Ids :
            captura' = {[id |-> i, ip |-> a, suceso |-> s, veredicto |-> v]}
      BY <1>1, <2>1, <2>2 DEF Capturar
    <3>2. [id |-> i, ip |-> a, suceso |-> s, veredicto |-> v] \in Evento
      BY DEF Evento
    <3> QED
      BY <3>1, <3>2, FS_Singleton
  <2> QED
    BY <1>1, <2>2, <2>3 DEF Capturar, TypeOK, Fases, retencion, panel, tablas, abuse, tanda, api, historia
<1>2. CASE Guardar
  <2>1. /\ IsFiniteSet(eventos') /\ eventos' \subseteq Evento
        /\ IsFiniteSet(captura') /\ captura' \subseteq Evento
    BY <1>2, FS_Union, FS_EmptySet DEF Guardar, TypeOK
  <2>2. ultimoId' \in 0..MaxEventos /\ captura' = {}
    <3>1. ultimoId \in 0..MaxEventos /\ MaxEventos \in Nat
      BY Rangos, Numeros
    <3>2. captura # {} /\ captura' = {} /\ ultimoId' = ultimoId + 1
      BY <1>2 DEF Guardar
    <3>3. ultimoId < MaxEventos
      BY <3>2 DEF Fases
    <3> QED
      BY <3>1, <3>2, <3>3
  <2> QED
    BY <1>2, <2>1, <2>2 DEF Guardar, TypeOK, Fases, retencion, panel, abuse, tanda, api, historia
<1>3. CASE Amanecer
  <2>1. /\ reloj' \in 0..MaxReloj
        /\ cupo' \in [Clave -> 0..Cupo] /\ ciegas' \in [Clave -> Nat]
    BY <1>3, Numeros, Rangos DEF Amanecer
  <2> QED
    BY <1>3, <2>1 DEF Amanecer, TypeOK, Fases, retencion, panel, tablas, abuse, tanda, historia
<1>4. CASE Caer
  <2>1. Reiniciar /\ caidas' \in 0..MaxCaidas
    BY <1>4, Numeros, Rangos DEF Caer
  <2>2. TypeOK'
    BY <1>4, <2>1, ReinicioTipos DEF Caer, TypeOK, retencion, panel, tablas, api
  <2> QED
    BY <2>1, <2>2, ReinicioTipos DEF Fases
<1>5. ASSUME NEW a \in Ajustes, NEW u \in Umbrales, Configurar(a, u)
      PROVE  TypeOK' /\ Fases'
  <2>1. cambios' \in 0..MaxAjustes
    BY <1>5, Numeros, Rangos DEF Configurar
  <2> QED
    BY <1>5, <2>1 DEF Configurar, TypeOK, Fases, retencion, tablas, abuse, tanda, api, historia
<1> QED
  BY <1>1, <1>2, <1>3, <1>4, <1>5

\* ... by retention, which only takes rows away ...
LEMMA PasoTiposPurga ==
    ASSUME TypeOK, Fases, Purga
    PROVE  TypeOK' /\ Fases'
<1>1. ASSUME NEW viejos \in SUBSET eventos, PurgarEventos(viejos)
      PROVE  TypeOK' /\ Fases'
  <2>1. purgas' \in 0..MaxPurgas
    BY <1>1, Numeros, Rangos DEF PurgarEventos
  <2>2. IsFiniteSet(eventos') /\ eventos' \subseteq Evento
    BY <1>1, FS_Difference DEF PurgarEventos, TypeOK
  <2> QED
    BY <1>1, <2>1, <2>2
    DEF PurgarEventos, TypeOK, Fases, panel, abuse, tanda, api, historia
<1>2. CASE PurgarFichas
  <2>1. DOMAIN ips' \subseteq DOMAIN ips /\ \A a \in DOMAIN ips' : ips'[a] = ips[a]
    BY <1>2 DEF PurgarFichas
  <2>2. ips' \in [DOMAIN ips' -> Ficha]
    BY <1>2, <2>1 DEF PurgarFichas, TypeOK
  <2> QED
    BY <1>2, <2>1, <2>2
    DEF PurgarFichas, TypeOK, Fases, panel, abuse, tanda, api, historia
<1>3. CASE PurgarFichasFalla
  BY <1>3 DEF PurgarFichasFalla, TypeOK, Fases, panel, tablas, abuse, tanda, api, historia
<1> QED
  BY <1>1, <1>2, <1>3 DEF Purga

\* ... by the switch at the top of the cycle and by the ends of a batch ...
LEMMA PasoTiposCiclo ==
    ASSUME TypeOK, Fases,
           \/ CicloApagado \/ CicloClaveNueva \/ CicloMismaClave \/ CicloPanico
           \/ Despertar \/ TandaAcaba \/ SinPermiso \/ Fallar
    PROVE  TypeOK' /\ Fases'
<1>1. CASE CicloApagado
  BY <1>1 DEF CicloApagado, TypeOK, Fases, Fase, retencion, panel, tablas, tanda, api, historia
<1>2. CASE CicloClaveNueva
  <2>1. ajuste.clave \in Clave
    BY <1>2, Numeros, Conjuntos DEF CicloClaveNueva, Encendido, TypeOK
  <2>2. restantes' \in -1..Cupo /\ pausaHasta' \in 0..(MaxReloj + 1)
    BY <1>2, Numeros DEF CicloClaveNueva
  <2> QED
    BY <1>2, <2>1, <2>2
    DEF CicloClaveNueva, TypeOK, Fases, Fase, retencion, panel, tablas, tanda, api, historia
<1>3. CASE CicloMismaClave
  <2>1. ajuste.clave \in Clave
    BY <1>3, Numeros, Conjuntos DEF CicloMismaClave, Encendido, TypeOK
  <2> QED
    BY <1>3, <2>1
    DEF CicloMismaClave, TypeOK, Fases, Fase, retencion, panel, tablas, abuse, tanda, api, historia
<1>4. CASE CicloPanico
  <2>1. Reiniciar /\ panicos' \in Nat
    BY <1>4, Rangos DEF CicloPanico
  <2>2. TypeOK'
    BY <1>4, <2>1, ReinicioTipos DEF CicloPanico, TypeOK, retencion, panel, tablas, api
  <2> QED
    BY <2>1, <2>2, ReinicioTipos DEF Fases
<1>5. CASE Despertar
  BY <1>5 DEF Despertar, TypeOK, Fases, Fase, retencion, panel, tablas, abuse, tanda, api, historia
<1>6. CASE TandaAcaba
  BY <1>6, DormirTipos
  DEF TandaAcaba, TypeOK, Fases, retencion, panel, tablas, abuse, api, historia
<1>7. CASE SinPermiso
  BY <1>7, DormirTipos
  DEF SinPermiso, TypeOK, Fases, retencion, panel, tablas, abuse, api, historia
<1>8. CASE Fallar
  <2>0. fallos < MaxFallos /\ fallos' = fallos + 1
    BY <1>8, Zenon DEF Fallar
  <2>1. fallos' \in 0..MaxFallos
    BY <2>0, Numeros, Rangos
  <2>2. /\ Dormir
        /\ UNCHANGED <<reloj, panel, tablas, captura, retencion, abuse, api, rejuzgados,
                       caidas, panicos>>
    BY <1>8, Zenon DEF Fallar
  <2> QED
    BY <2>1, <2>2, DormirTipos
    DEF TypeOK, Fases, retencion, panel, tablas, abuse, api
<1> QED
  BY <1>1, <1>2, <1>3, <1>4, <1>5, <1>6, <1>7, <1>8

\* A query counted by the API leaves a quota, and a number of blind ones.
LEMMA GastaTipos ==
    ASSUME TypeOK, claveActiva \in Clave, NEW n \in 0..1, NEW m \in 0..1,
           n <= cupo[claveActiva],
           cupo' = [cupo EXCEPT ![claveActiva] = cupo[claveActiva] - n],
           ciegas' = [ciegas EXCEPT ![claveActiva] = ciegas[claveActiva] + m]
    PROVE  cupo' \in [Clave -> 0..Cupo] /\ ciegas' \in [Clave -> Nat]
<1>1. cupo \in [Clave -> 0..Cupo] /\ ciegas \in [Clave -> Nat] /\ Cupo \in Nat
  BY Rangos, Numeros
<1>2. cupo[claveActiva] - n \in 0..Cupo
  BY <1>1
<1>3. ciegas[claveActiva] + m \in Nat
  BY <1>1
<1> QED
  BY <1>1, <1>2, <1>3

\* ... by the answers of the API ...
LEMMA PasoTiposRespuesta ==
    ASSUME TypeOK, Fases, Respuesta
    PROVE  TypeOK' /\ Fases'
<1>1. ASSUME Consultar
      PROVE  cola # <<>> /\ pc = "tanda" /\ cliente /\ claveActiva \in Clave
             /\ cupo[claveActiva] \in 0..Cupo /\ ciegas[claveActiva] \in Nat
             /\ Tail(cola) \in Seq(IP) /\ \A l \in BOOLEAN : ACiegas(l) \in 0..1
  BY <1>1, RestoTipo DEF Consultar, PorConsultar, Fases, TypeOK, ACiegas
<1>2. ASSUME NEW l \in BOOLEAN, NEW o \in Origenes, Responde(o, l) PROVE TypeOK' /\ Fases'
  <2>1. /\ cupo' \in [Clave -> 0..Cupo] /\ restantes' \in -1..Cupo
        /\ ciegas' \in [Clave -> Nat] /\ fallos' \in 0..MaxFallos
    <3>1. /\ cupo' = [cupo EXCEPT ![claveActiva] = @ - 1]
          /\ ciegas' = [ciegas EXCEPT ![claveActiva] = @ + ACiegas(l)]
          /\ cupo[claveActiva] > 0
          /\ restantes' = cupo[claveActiva] - 1 \/ restantes' = restantes
      BY <1>2 DEF Responde, AnotarCuota
    <3>2. Consultar /\ (fallos' = fallos \/ (fallos' = fallos + 1 /\ fallos < MaxFallos))
      BY <1>2 DEF Responde
    <3>3. /\ claveActiva \in Clave /\ 1 <= cupo[claveActiva]
          /\ 1 \in 0..1 /\ ACiegas(l) \in 0..1
      BY <1>1, <3>1, <3>2
    <3>a. /\ cupo' = [cupo EXCEPT ![claveActiva] = cupo[claveActiva] - 1]
          /\ ciegas' = [ciegas EXCEPT ![claveActiva] = ciegas[claveActiva] + ACiegas(l)]
      BY <3>1
    <3>4. cupo' \in [Clave -> 0..Cupo] /\ ciegas' \in [Clave -> Nat]
      BY <3>3, <3>a, GastaTipos, Zenon
    <3>5. cupo[claveActiva] - 1 \in 0..Cupo
      BY <1>1, <3>2, <3>3, Numeros
    <3> QED
      BY <3>1, <3>2, <3>4, <3>5, Numeros, Rangos
  <2> QED
    BY <1>1, <1>2, <2>1, Numeros, Conjuntos
    DEF Responde, TypeOK, Fases, Fase, retencion, panel, tablas, historia
<1>3. ASSUME NEW l \in BOOLEAN, RespondeMal(l) PROVE TypeOK' /\ Fases'
  <2>1. /\ cupo' \in [Clave -> 0..Cupo] /\ restantes' \in -1..Cupo
        /\ ciegas' \in [Clave -> Nat] /\ fallos' \in 0..MaxFallos
    <3>1. /\ cupo' = [cupo EXCEPT ![claveActiva] = @ - 1]
          /\ ciegas' = [ciegas EXCEPT ![claveActiva] = @ + ACiegas(l)]
          /\ cupo[claveActiva] > 0
          /\ restantes' = cupo[claveActiva] - 1 \/ restantes' = restantes
      BY <1>3 DEF RespondeMal, AnotarCuota
    <3>2. Consultar /\ fallos' = fallos + 1 /\ fallos < MaxFallos
      BY <1>3 DEF RespondeMal
    <3>3. /\ claveActiva \in Clave /\ 1 <= cupo[claveActiva]
          /\ 1 \in 0..1 /\ ACiegas(l) \in 0..1
      BY <1>1, <3>1, <3>2
    <3>a. /\ cupo' = [cupo EXCEPT ![claveActiva] = cupo[claveActiva] - 1]
          /\ ciegas' = [ciegas EXCEPT ![claveActiva] = ciegas[claveActiva] + ACiegas(l)]
      BY <3>1
    <3>4. cupo' \in [Clave -> 0..Cupo] /\ ciegas' \in [Clave -> Nat]
      BY <3>3, <3>a, GastaTipos, Zenon
    <3>5. cupo[claveActiva] - 1 \in 0..Cupo
      BY <1>1, <3>2, <3>3, Numeros
    <3> QED
      BY <3>1, <3>2, <3>4, <3>5, Numeros, Rangos
  <2> QED
    BY <1>1, <1>3, <2>1 DEF RespondeMal, TypeOK, Fases, retencion, panel, tablas
<1>4. ASSUME NEW n \in {0, 1}, NoResponde(n) PROVE TypeOK' /\ Fases'
  <2>1. /\ cupo' \in [Clave -> 0..Cupo]
        /\ ciegas' \in [Clave -> Nat] /\ fallos' \in 0..MaxFallos
    <3>1. /\ cupo' = [cupo EXCEPT ![claveActiva] = @ - n]
          /\ ciegas' = [ciegas EXCEPT ![claveActiva] = @ + n]
          /\ n <= cupo[claveActiva] /\ n \in 0..1
      BY <1>4 DEF NoResponde
    <3>2. Consultar /\ fallos' = fallos + 1 /\ fallos < MaxFallos
      BY <1>4 DEF NoResponde
    <3>3. cupo' \in [Clave -> 0..Cupo] /\ ciegas' \in [Clave -> Nat]
      BY <1>1, <3>1, <3>2, GastaTipos
    <3> QED
      BY <3>2, <3>3, Numeros, Rangos
  <2> QED
    BY <1>1, <1>4, <2>1 DEF NoResponde, TypeOK, Fases, retencion, panel, tablas, abuse
<1>5. ASSUME NEW l \in BOOLEAN, Limita(l) PROVE TypeOK' /\ Fases'
  <2>1. restantes' \in -1..Cupo /\ pausaHasta' \in 0..(MaxReloj + 1)
    BY <1>5, Numeros, Rangos DEF Limita, AnotarCuota
  <2> QED
    BY <1>5, <2>1, DormirTipos
    DEF Limita, TypeOK, Fases, retencion, panel, tablas, api, historia
<1> QED
  BY <1>2, <1>3, <1>4, <1>5 DEF Respuesta

\* ... and by the steps that read the batch and write what was found.
LEMMA PasoTiposTanda ==
    ASSUME TypeOK, Fases,
           \/ IPsPendientes \/ MarcarNoConsultable \/ GuardarOrigen \/ EventosDeIP
           \/ (\E e \in eventos : Rejuzgar(e)) \/ RejuzgarAcaba
    PROVE  TypeOK' /\ Fases'
<1>1. CASE IPsPendientes
  <2>1. cola' \in Seq(IP)
    BY <1>1 DEF IPsPendientes
  <2> QED
    BY <1>1, <2>1
    DEF IPsPendientes, TypeOK, Fases, Fase, retencion, panel, tablas, abuse, api, historia
<1>2. CASE MarcarNoConsultable
  <2>1. NoConsultable \in Origen
    BY DEF NoConsultable, Origen
  <2>2. /\ DOMAIN ips' \subseteq IP /\ ips' \in [DOMAIN ips' -> Ficha]
        /\ cola' \in Seq(IP)
    BY <1>2, <2>1, FichaTipo, RestoTipo DEF MarcarNoConsultable
  <2>3. rejuzgados' \subseteq Ids
    BY <1>2 DEF MarcarNoConsultable, TypeOK
  <2> QED
    BY <1>2, <2>2, <2>3 DEF MarcarNoConsultable, TypeOK, Fases, retencion, panel, abuse, api
<1>3. CASE GuardarOrigen
  <2>1. cola # <<>> /\ hallado \in Origen
    BY <1>3 DEF GuardarOrigen, Fases, TypeOK
  <2>2. DOMAIN ips' \subseteq IP /\ ips' \in [DOMAIN ips' -> Ficha]
    BY <1>3, <2>1, FichaTipo DEF GuardarOrigen
  <2>3. rejuzgados' \subseteq Ids
    BY <1>3 DEF GuardarOrigen, TypeOK
  <2> QED
    BY <1>3, <2>1, <2>2, <2>3
    DEF GuardarOrigen, TypeOK, Fases, Fase, retencion, panel, abuse, tanda, api
<1>4. CASE EventosDeIP
  <2>1. porJuzgar' \subseteq Ids
    BY <1>4 DEF EventosDeIP, TypeOK, Evento
  <2> QED
    BY <1>4, <2>1
    DEF EventosDeIP, TypeOK, Fases, Fase, retencion, panel, tablas, abuse, api, historia
<1>5. ASSUME NEW e \in eventos, Rejuzgar(e) PROVE TypeOK' /\ Fases'
  <2>1. e \in Evento /\ e.suceso \in Suceso /\ e.id \in Ids
    BY Numeros, Conjuntos DEF TypeOK, Evento
  <2>2. LoLeido(e.suceso) \in Suceso
    BY <2>1 DEF LoLeido, Suceso
  <2>3. Juicio(e.suceso) \in Veredicto
    BY <2>2, HayVeredicto DEF Juicio, UmbralPorDefecto, TypeOK
  <2>4. [e EXCEPT !.veredicto = Juicio(e.suceso)] \in Evento
    BY <2>1, <2>3 DEF Evento
  <2>5. IsFiniteSet(eventos') /\ eventos' \subseteq Evento
    BY <1>5, <2>4, FS_Singleton, FS_Union, FS_Difference DEF Rejuzgar, TypeOK
  <2>6. porJuzgar' \subseteq Ids /\ rejuzgados' \subseteq Ids
    BY <1>5, <2>1 DEF Rejuzgar, TypeOK
  <2> QED
    BY <1>5, <2>5, <2>6 DEF Rejuzgar, TypeOK, Fases, retencion, panel, abuse, api
<1>6. CASE RejuzgarAcaba
  <2>1. cola # <<>>
    BY <1>6 DEF RejuzgarAcaba, Fases
  <2>2. cola' \in Seq(IP) /\ hallado' \in Origen
    BY <1>6, <2>1, RestoTipo, SinOrigenTipo DEF RejuzgarAcaba
  <2> QED
    BY <1>6, <2>2
    DEF RejuzgarAcaba, TypeOK, Fases, Fase, retencion, panel, tablas, abuse, api, historia
<1> QED
  BY <1>1, <1>2, <1>3, <1>4, <1>5, <1>6

\* Types and phases are kept by every step.
LEMMA PasoTipos == TypeOK /\ Fases /\ [Next]_vars => TypeOK' /\ Fases'
<1>1. TypeOK /\ Fases /\ UNCHANGED vars => TypeOK' /\ Fases'
  BY SMTT(30) DEF vars, retencion, panel, tablas, abuse, tanda, api, historia, TypeOK, Fases
<1> QED
  BY <1>1, PasoTiposFuera, PasoTiposPurga, PasoTiposCiclo, PasoTiposRespuesta, PasoTiposTanda
  DEF Next, Bucle

-----------------------------------------------------------------------------
(* The quota.                                                              *)

\* A step that touches neither the quota nor what the client knows of it, but to
\* forget it, keeps both facts.
LEMMA CuotaIntacta ==
    ASSUME SabeLoQueQueda, ReservaRespetada, UNCHANGED api,
           \/ ~ cliente' \/ restantes' = -1
           \/ UNCHANGED <<cliente, claveActiva, restantes>>
    PROVE  SabeLoQueQueda' /\ ReservaRespetada'
BY DEF SabeLoQueQueda, ReservaRespetada, api

\* A query the client may make leaves the reserve of its key.
LEMMA ConsultaDejaReserva ==
    ASSUME TypeOK, Fases, SabeLoQueQueda, ReservaRespetada, Consultar,
           NEW n \in 0..1, NEW m \in 0..1, n <= cupo[claveActiva],
           n <= m \/ (restantes >= 0 /\ n = 1 /\ m = 0),
           cupo' = [cupo EXCEPT ![claveActiva] = cupo[claveActiva] - n],
           ciegas' = [ciegas EXCEPT ![claveActiva] = ciegas[claveActiva] + m]
    PROVE  /\ ReservaRespetada'
           /\ cupo'[claveActiva] + ciegas'[claveActiva] \in Int
           /\ cupo'[claveActiva] + ciegas'[claveActiva] =
                cupo[claveActiva] + ciegas[claveActiva] - n + m
<1>1. /\ cupo \in [Clave -> 0..Cupo] /\ ciegas \in [Clave -> Nat]
      /\ restantes \in -1..Cupo /\ Cupo \in Nat /\ Reserva \in Nat
  BY Rangos, Numeros
<1>2. cliente /\ claveActiva \in Clave
  BY DEF Consultar, PorConsultar, Fases
<1>3. \A k \in Clave : cupo[k] \in Nat /\ ciegas[k] \in Nat
  BY <1>1
<1>4. cupo'[claveActiva] = cupo[claveActiva] - n
      /\ ciegas'[claveActiva] = ciegas[claveActiva] + m
  BY <1>1, <1>2
<1>5. ASSUME restantes >= 0
      PROVE  Reserva < cupo[claveActiva] + ciegas[claveActiva]
  <2>1. restantes > Reserva
    BY <1>5 DEF Consultar, Permitido
  <2>2. restantes <= cupo[claveActiva] + ciegas[claveActiva]
    BY <1>2, <1>5 DEF SabeLoQueQueda
  <2> QED
    BY <1>1, <1>2, <1>3, <2>1, <2>2
<1>6. ASSUME NEW k \in Clave
      PROVE  cupo'[k] + ciegas'[k] >= IF Reserva < Cupo THEN Reserva ELSE Cupo
  <2>1. cupo[k] + ciegas[k] >= IF Reserva < Cupo THEN Reserva ELSE Cupo
    BY DEF ReservaRespetada
  <2>2. CASE k # claveActiva
    <3>1. cupo'[k] = cupo[k] /\ ciegas'[k] = ciegas[k]
      BY <1>1, <2>2
    <3> QED
      BY <2>1, <3>1
  <2>3. CASE k = claveActiva
    BY <1>1, <1>3, <1>4, <1>5, <2>1, <2>3
  <2> QED
    BY <2>2, <2>3
<1> QED
  BY <1>2, <1>3, <1>4, <1>6 DEF ReservaRespetada

\* The client never believes in a query that is not left, and the reserve stays
\* (permitido, anotarCuota).
LEMMA PasoCuota ==
    ASSUME TypeOK, Fases, SabeLoQueQueda, ReservaRespetada, [Next]_vars
    PROVE  SabeLoQueQueda' /\ ReservaRespetada'
<1>0. /\ cupo \in [Clave -> 0..Cupo] /\ ciegas \in [Clave -> Nat]
      /\ restantes \in -1..Cupo /\ Cupo \in Nat /\ Reserva \in Nat
  BY Rangos, Numeros
<1>a. ASSUME Consultar
      PROVE  /\ claveActiva \in Clave /\ cliente
             /\ 0 \in 0..1 /\ 1 \in 0..1
             /\ \A l \in BOOLEAN :
                  /\ ACiegas(l) \in 0..1
                  /\ 1 <= ACiegas(l) \/ (l /\ restantes >= 0 /\ 1 = 1 /\ ACiegas(l) = 0)
             /\ cupo[claveActiva] \in Nat /\ ciegas[claveActiva] \in Nat
  BY <1>a, <1>0 DEF Consultar, PorConsultar, Fases, ACiegas
<1>1. CASE Amanecer
  BY <1>1, <1>0 DEF Amanecer, SabeLoQueQueda, ReservaRespetada, abuse
<1>2. ASSUME NEW a \in IP, NEW s \in Sucesos, Capturar(a, s)
      PROVE  SabeLoQueQueda' /\ ReservaRespetada'
  BY <1>2, CuotaIntacta DEF Capturar, abuse
<1>3. CASE Guardar
  BY <1>3, CuotaIntacta DEF Guardar, abuse
<1>4. ASSUME NEW a \in Ajustes, NEW u \in Umbrales, Configurar(a, u)
      PROVE  SabeLoQueQueda' /\ ReservaRespetada'
  BY <1>4, CuotaIntacta DEF Configurar, abuse
<1>5. CASE Caer
  BY <1>5, CuotaIntacta DEF Caer, Reiniciar
<1>6. CASE UNCHANGED vars \/ Purga
  BY <1>6, CuotaIntacta
  DEF vars, abuse, Purga, PurgarEventos, PurgarFichas, PurgarFichasFalla
<1>7. CASE CicloApagado \/ CicloClaveNueva \/ CicloMismaClave \/ CicloPanico \/ Despertar
  BY <1>7, CuotaIntacta
  DEF CicloApagado, CicloClaveNueva, CicloMismaClave, CicloPanico, Despertar, Reiniciar,
      abuse
<1>8. CASE IPsPendientes \/ TandaAcaba \/ MarcarNoConsultable \/ SinPermiso
           \/ GuardarOrigen \/ EventosDeIP \/ RejuzgarAcaba \/ Fallar
  BY <1>8, CuotaIntacta
  DEF IPsPendientes, TandaAcaba, MarcarNoConsultable, SinPermiso, GuardarOrigen,
      EventosDeIP, RejuzgarAcaba, Fallar, abuse
<1>9. ASSUME NEW e \in eventos, Rejuzgar(e)
      PROVE  SabeLoQueQueda' /\ ReservaRespetada'
  BY <1>9, CuotaIntacta DEF Rejuzgar, abuse
<1>10. ASSUME NEW l \in BOOLEAN,
              (\E o \in Origenes : Responde(o, l)) \/ RespondeMal(l)
       PROVE  SabeLoQueQueda' /\ ReservaRespetada'
  <2>1. /\ Consultar /\ cupo[claveActiva] > 0
        /\ cupo' = [cupo EXCEPT ![claveActiva] = cupo[claveActiva] - 1]
        /\ ciegas' = [ciegas EXCEPT ![claveActiva] = ciegas[claveActiva] + ACiegas(l)]
        /\ claveActiva' = claveActiva /\ cliente' = cliente
        /\ IF l THEN restantes' = cupo[claveActiva] - 1 ELSE restantes' = restantes
    BY <1>10 DEF Responde, RespondeMal, AnotarCuota
  <2>2. 1 <= cupo[claveActiva]
    BY <1>a, <2>1
  <2>3. ReservaRespetada'
    BY <1>a, <2>1, <2>2, ConsultaDejaReserva
  <2>4. /\ cupo'[claveActiva] = cupo[claveActiva] - 1
        /\ ciegas'[claveActiva] = ciegas[claveActiva] + ACiegas(l)
        /\ cupo[claveActiva] \in Nat /\ ciegas[claveActiva] \in Nat
    BY <1>0, <1>a, <2>1
  <2>5. ACiegas(l) \in 0..1 /\ (ACiegas(l) = 0 => l)
    BY <1>a, <2>1
  <2>6. SabeLoQueQueda'
    <3>1. CASE l
      <4>1. restantes' = cupo[claveActiva] - 1
        BY <2>1, <3>1, Zenon
      <4>2. claveActiva \in Clave /\ claveActiva' = claveActiva
        BY <1>a, <2>1
      <4>3. restantes' <= cupo'[claveActiva'] + ciegas'[claveActiva']
        BY <2>4, <2>5, <4>1, <4>2
      <4> QED
        BY <4>2, <4>3 DEF SabeLoQueQueda
    <3>2. CASE ~ l
      BY <1>0, <1>a, <2>1, <2>4, <2>5, <3>2 DEF SabeLoQueQueda
    <3> QED
      BY <3>1, <3>2
  <2> QED
    BY <2>3, <2>6
<1>11. ASSUME NEW n \in {0, 1}, NoResponde(n)
       PROVE  SabeLoQueQueda' /\ ReservaRespetada'
  <2>1. /\ Consultar /\ n <= cupo[claveActiva] /\ n \in 0..1 /\ n <= n
        /\ cupo' = [cupo EXCEPT ![claveActiva] = cupo[claveActiva] - n]
        /\ ciegas' = [ciegas EXCEPT ![claveActiva] = ciegas[claveActiva] + n]
        /\ UNCHANGED <<cliente, claveActiva, restantes>>
    BY <1>11 DEF NoResponde, abuse
  <2>2. /\ ReservaRespetada'
        /\ cupo'[claveActiva] + ciegas'[claveActiva] =
             cupo[claveActiva] + ciegas[claveActiva] - n + n
    BY <2>1, ConsultaDejaReserva
  <2>3. cupo'[claveActiva] + ciegas'[claveActiva] = cupo[claveActiva] + ciegas[claveActiva]
    BY <1>a, <2>1, <2>2
  <2> QED
    BY <2>1, <2>2, <2>3 DEF SabeLoQueQueda
<1>12. ASSUME NEW l \in BOOLEAN, Limita(l) PROVE SabeLoQueQueda' /\ ReservaRespetada'
  <2>1. /\ Consultar /\ restantes' \in {0, restantes}
        /\ UNCHANGED <<cliente, claveActiva, cupo, ciegas>>
    BY <1>12 DEF Limita, AnotarCuota, api
  <2> QED
    BY <1>a, <2>1 DEF SabeLoQueQueda, ReservaRespetada
<1> QED
  BY <1>1, <1>2, <1>3, <1>4, <1>5, <1>6, <1>7, <1>8, <1>9, <1>10, <1>11, <1>12
  DEF Next, Bucle, Respuesta

-----------------------------------------------------------------------------
(* The batch.                                                              *)

\* Dropping the first address leaves different ones, each one place nearer.
LEMMA Resto ==
    ASSUME TypeOK, ColaPendiente, cola # <<>>
    PROVE  /\ cola[1] = Primera /\ Len(cola) \in Nat /\ 1 \in 1..Len(cola)
           /\ Len(Tail(cola)) = Len(cola) - 1
           /\ \A i \in 1..Len(Tail(cola)) :
                /\ i + 1 \in 1..Len(cola) /\ i + 1 # 1
                /\ Tail(cola)[i] = cola[i + 1] /\ Tail(cola)[i] # Primera
           /\ \A i, j \in 1..Len(Tail(cola)) : i # j => Tail(cola)[i] # Tail(cola)[j]
<1>1. cola \in Seq(IP)
  BY DEF TypeOK
<1>2. /\ cola[1] = Primera /\ Len(cola) \in Nat /\ 1 \in 1..Len(cola)
      /\ Len(Tail(cola)) = Len(cola) - 1
  BY <1>1 DEF Primera
<1>3. \A i \in 1..Len(Tail(cola)) :
        i + 1 \in 1..Len(cola) /\ i + 1 # 1 /\ Tail(cola)[i] = cola[i + 1]
  BY <1>1, <1>2
<1>4. \A i, j \in 1..Len(cola) : i # j => cola[i] # cola[j]
  BY DEF ColaPendiente
<1>5. \A i \in 1..Len(Tail(cola)) : Tail(cola)[i] # Primera
  BY <1>2, <1>3, <1>4
<1>6. \A i, j \in 1..Len(Tail(cola)) : i # j => Tail(cola)[i] # Tail(cola)[j]
  <2> SUFFICES ASSUME NEW i \in 1..Len(Tail(cola)), NEW j \in 1..Len(Tail(cola)), i # j
               PROVE  Tail(cola)[i] # Tail(cola)[j]
    OBVIOUS
  <2>1. i + 1 # j + 1
    BY <1>2
  <2> QED
    BY <1>3, <1>4, <2>1
<1> QED
  BY <1>2, <1>3, <1>5, <1>6

\* The rest of a batch is a batch of pending addresses, if the records of its
\* addresses are as they were.
LEMMA RestoPendiente ==
    ASSUME TypeOK, ColaPendiente, cola # <<>>, cola' = Tail(cola), reloj' = reloj,
           \A a \in IP \ {Primera} :
             a \in DOMAIN ips' => a \in DOMAIN ips /\ ips'[a] = ips[a]
    PROVE  ColaPendiente'
<1>1. ASSUME NEW i \in 1..Len(cola'), cola'[i] \in DOMAIN ips'
      PROVE  ips'[cola'[i]].dia < reloj' - Caducidad
  <2>1. /\ i + 1 \in 1..Len(cola) /\ i + 1 # 1
        /\ cola'[i] = cola[i + 1] /\ cola'[i] # Primera
    BY Resto
  <2>2. cola[i + 1] \in IP
    BY <2>1, SMTT(30) DEF TypeOK
  <2>3. cola[i + 1] \in DOMAIN ips /\ ips'[cola'[i]] = ips[cola[i + 1]]
    BY <1>1, <2>1, <2>2
  <2> QED
    BY <2>1, <2>3 DEF ColaPendiente
<1>2. \A i, j \in 1..Len(cola') : i # j => cola'[i] # cola'[j]
  BY Resto
<1> QED
  BY <1>1, <1>2 DEF ColaPendiente

\* An empty batch has nothing to say.
LEMMA ColaVacia == cola' = <<>> => ColaPendiente'
BY DEF ColaPendiente

\* Only this goroutine writes records, and the address in hand leaves the batch
\* with its record (IPsPendientes, enriquecerTanda).
LEMMA PasoCola ==
    ASSUME TypeOK, Fases, ColaPendiente, [Next]_vars
    PROVE  ColaPendiente'
<1>0. ASSUME UNCHANGED <<cola, ips, reloj>>, pc' = pc \/ pc \in {"tanda", "guardar"}
                                                     \/ pc' \notin {"tanda", "guardar"}
      PROVE  ColaPendiente'
  BY <1>0 DEF ColaPendiente
<1>1. ASSUME cola # <<>>, cola' = Tail(cola), UNCHANGED <<ips, reloj>>
      PROVE  ColaPendiente'
  BY <1>1, RestoPendiente
<1>2. CASE Amanecer
  <2>1. cola' = cola /\ ips' = ips /\ pc' = pc /\ reloj' = reloj + 1
    BY <1>2 DEF Amanecer, tablas, tanda
  <2>2. reloj \in Int /\ Caducidad \in Int
    BY Numeros, Rangos
  <2>3. ASSUME NEW i \in 1..Len(cola), cola[i] \in DOMAIN ips,
               ips[cola[i]].dia < reloj - Caducidad
        PROVE  /\ ips[cola[i]].dia \in Int
               /\ ips[cola[i]].dia < reloj + 1 - Caducidad
    <3>1. ips[cola[i]].dia \in Int
      <4>1. ips[cola[i]] \in Ficha
        BY <2>3 DEF TypeOK
      <4> QED
        BY <4>1, Numeros DEF Ficha
    <3> QED
      BY <2>2, <2>3, <3>1
  <2>4. \A i, j \in 1..Len(cola') : i # j => cola'[i] # cola'[j]
    BY <2>1 DEF ColaPendiente
  <2>5. ASSUME NEW i \in 1..Len(cola'), cola'[i] \in DOMAIN ips',
               i = 1 => pc' \in {"tanda", "guardar"}
        PROVE  ips'[cola'[i]].dia < reloj' - Caducidad
    <3>1. ips[cola[i]].dia < reloj - Caducidad
      BY <2>1, <2>5 DEF ColaPendiente
    <3>2. ips[cola[i]].dia \in Int /\ ips[cola[i]].dia < reloj + 1 - Caducidad
      BY <2>1, <2>3, <2>5, <3>1
    <3> QED
      BY <2>1, <2>2, <3>2
  <2> QED
    BY <2>4, <2>5 DEF ColaPendiente
<1>3. ASSUME NEW a \in IP, NEW s \in Sucesos, Capturar(a, s) PROVE ColaPendiente'
  BY <1>0, <1>3 DEF Capturar, tablas, tanda
<1>4. CASE Guardar
  BY <1>0, <1>4 DEF Guardar, tanda
<1>5. ASSUME NEW a \in Ajustes, NEW u \in Umbrales, Configurar(a, u)
      PROVE  ColaPendiente'
  BY <1>0, <1>5 DEF Configurar, tablas, tanda
<1>6. CASE Caer
  BY <1>6, ColaVacia DEF Caer, Reiniciar
<1>7. CASE UNCHANGED vars
  BY <1>0, <1>7 DEF vars, tablas, tanda
<1>8. CASE CicloApagado \/ CicloClaveNueva \/ CicloMismaClave \/ Despertar
  BY <1>0, <1>8
  DEF CicloApagado, CicloClaveNueva, CicloMismaClave, Despertar, tablas, tanda
<1>9. CASE CicloPanico \/ TandaAcaba \/ SinPermiso \/ Fallar \/ \E l \in BOOLEAN : Limita(l)
  BY <1>9, ColaVacia DEF CicloPanico, Reiniciar, TandaAcaba, SinPermiso, Fallar, Limita,
                         Dormir
<1>10. CASE IPsPendientes
  <2>1. /\ EsTanda(cola') /\ UNCHANGED <<ips, reloj, eventos>>
        /\ Len(cola') \in Nat
    BY <1>10 DEF IPsPendientes, tablas
  <2>2. \A i \in 1..Len(cola') :
          cola'[i] \in DOMAIN ips => ips[cola'[i]].dia < reloj - Caducidad
    BY <2>1 DEF EsTanda, Pendiente
  <2>3. \A i, j \in 1..Len(cola') : i < j => cola'[i] # cola'[j]
    BY <2>1 DEF EsTanda
  <2>4. \A i, j \in 1..Len(cola') : i # j => cola'[i] # cola'[j]
    <3> SUFFICES ASSUME NEW i \in 1..Len(cola'), NEW j \in 1..Len(cola'), i # j
                 PROVE  cola'[i] # cola'[j]
      OBVIOUS
    <3>1. i < j \/ j < i
      BY <2>1
    <3> QED
      BY <2>3, <3>1
  <2> QED
    BY <2>1, <2>2, <2>4 DEF ColaPendiente
<1>11. CASE MarcarNoConsultable
  BY <1>11, RestoPendiente DEF MarcarNoConsultable
<1>12. ASSUME NEW l \in BOOLEAN, NEW o \in Origenes, Responde(o, l) PROVE ColaPendiente'
  BY <1>0, <1>12 DEF Responde, Consultar, PorConsultar, tablas
<1>13. CASE (\E l \in BOOLEAN : RespondeMal(l)) \/ \E n \in {0, 1} : NoResponde(n)
  BY <1>1, <1>13 DEF RespondeMal, NoResponde, Consultar, PorConsultar, tablas
<1>14. CASE GuardarOrigen
  <2>1. /\ cola # <<>> /\ cola' = cola /\ reloj' = reloj /\ pc' = "leer"
        /\ \A a \in IP \ {Primera} :
             a \in DOMAIN ips' => a \in DOMAIN ips /\ ips'[a] = ips[a]
    BY <1>14 DEF GuardarOrigen, Fases, tanda
  <2>2. \A i \in 1..Len(cola) : i # 1 => cola[i] # Primera /\ cola[i] \in IP
    <3>1. cola[1] = Primera /\ 1 \in 1..Len(cola)
      BY <2>1, Resto
    <3>2. \A i \in 1..Len(cola) : cola[i] \in IP
      BY DEF TypeOK
    <3> QED
      BY <3>1, <3>2 DEF ColaPendiente
  <2> QED
    BY <2>1, <2>2 DEF ColaPendiente
<1>15. CASE EventosDeIP
  BY <1>0, <1>15 DEF EventosDeIP, tablas
<1>16. ASSUME NEW e \in eventos, Rejuzgar(e) PROVE ColaPendiente'
  BY <1>0, <1>16 DEF Rejuzgar
<1>17. CASE RejuzgarAcaba
  BY <1>1, <1>17 DEF RejuzgarAcaba, Fases, tablas
<1>18. CASE Purga
  <2>1. /\ UNCHANGED <<cola, reloj, pc>>
        /\ DOMAIN ips' \subseteq DOMAIN ips /\ \A a \in DOMAIN ips' : ips'[a] = ips[a]
    BY <1>18 DEF Purga, PurgarEventos, PurgarFichas, PurgarFichasFalla, tablas, tanda
  <2> QED
    BY <2>1 DEF ColaPendiente
<1> QED
  BY <1>2, <1>3, <1>4, <1>5, <1>6, <1>7, <1>8, <1>9, <1>10, <1>11, <1>12, <1>13, <1>14,
     <1>15, <1>16, <1>17, <1>18
  DEF Next, Bucle, Respuesta

-----------------------------------------------------------------------------
(* What was done.                                                          *)

\* An event is judged at first with what it did, and never for more than what
\* reclasificarIP would give it (ingerir, reclasificarIP).
LEMMA PasoHechos ==
    ASSUME TypeOK, HechosJuzgados, [Next]_vars
    PROVE  HechosJuzgados'
<1> DEFINE Tope(s) == Clasificar(LoLeido(s), SinOrigen, UmbralPorDefecto)
<1>0. ASSUME eventos' \cup captura' \subseteq eventos \cup captura
      PROVE  HechosJuzgados'
  BY <1>0 DEF HechosJuzgados
<1>1. ASSUME NEW a \in IP, NEW s \in Sucesos, Capturar(a, s)
      PROVE  HechosJuzgados'
  <2>1. s \in Suceso
    BY Conjuntos
  <2>2. HablaPorSi(s) => Clasificar(s, OrigenDe(a), umbral) <= Tope(s)
    BY <2>1, LeidoPesaMas
  <2>3. ASSUME NEW e \in captura', HablaPorSi(e.suceso)
        PROVE  e.veredicto <= Tope(e.suceso)
    <3>1. e.suceso = s /\ e.veredicto = Clasificar(s, OrigenDe(a), umbral)
      BY <1>1, <2>3 DEF Capturar
    <3> QED
      BY <2>2, <2>3, <3>1
  <2>4. eventos' = eventos
    BY <1>1 DEF Capturar, tablas
  <2> QED
    BY <2>3, <2>4 DEF HechosJuzgados
<1>2. ASSUME NEW e \in eventos, Rejuzgar(e)
      PROVE  HechosJuzgados'
  <2>1. e.suceso \in Suceso /\ e \in Evento
    BY Conjuntos DEF TypeOK, Evento
  <2>2. PICK f : /\ f = [e EXCEPT !.veredicto = Juicio(e.suceso)]
                 /\ eventos' = (eventos \ {e}) \cup {f}
                 /\ captura' = captura
    BY <1>2 DEF Rejuzgar
  <2>3. f.suceso = e.suceso /\ f.veredicto = Juicio(e.suceso)
    BY <2>1, <2>2 DEF Evento
  <2>4. HablaPorSi(f.suceso) => f.veredicto <= Tope(f.suceso)
    BY <2>1, <2>3, RejuicioFijo
  <2> QED
    BY <2>2, <2>4 DEF HechosJuzgados
<1>3. CASE Guardar
  BY <1>0, <1>3 DEF Guardar
<1>4. ASSUME NEW a \in Ajustes, NEW u \in Umbrales, Configurar(a, u)
      PROVE  HechosJuzgados'
  BY <1>0, <1>4 DEF Configurar, tablas
<1>5. CASE Caer \/ CicloPanico
  BY <1>0, <1>5 DEF Caer, CicloPanico, Reiniciar, tablas
<1>6. CASE UNCHANGED vars \/ Amanecer
  BY <1>0, <1>6 DEF vars, tablas, Amanecer
<1>7. CASE CicloApagado \/ CicloClaveNueva \/ CicloMismaClave \/ Despertar
  BY <1>0, <1>7 DEF CicloApagado, CicloClaveNueva, CicloMismaClave, Despertar, tablas
<1>8. CASE TandaAcaba \/ SinPermiso \/ Fallar \/ IPsPendientes \/ MarcarNoConsultable
  BY <1>0, <1>8 DEF TandaAcaba, SinPermiso, Fallar, IPsPendientes, MarcarNoConsultable,
                    tablas
<1>9. CASE GuardarOrigen \/ EventosDeIP \/ RejuzgarAcaba
  BY <1>0, <1>9 DEF GuardarOrigen, EventosDeIP, RejuzgarAcaba, tablas
<1>10. CASE Respuesta
  BY <1>0, <1>10 DEF Respuesta, Responde, RespondeMal, NoResponde, Limita, tablas
<1>11. CASE Purga
  BY <1>0, <1>11 DEF Purga, PurgarEventos, PurgarFichas, PurgarFichasFalla, tablas
<1> QED
  BY <1>1, <1>2, <1>3, <1>4, <1>5, <1>6, <1>7, <1>8, <1>9, <1>10, <1>11 DEF Next, Bucle

\* Retention apart, a row of the table of events is only ever replaced by
\* reclasificarIP, and not by one that weighs less if the event speaks for itself.
LEMMA PasoNoRebaja ==
    ASSUME TypeOK, HechosJuzgados, [Next]_vars, ~ (eventos' \subseteq eventos),
           NEW e \in eventos \ eventos', HablaPorSi(e.suceso)
    PROVE  \E f \in eventos' : /\ f.id = e.id /\ f.suceso = e.suceso
                               /\ f.veredicto >= e.veredicto
<1>0. ASSUME eventos \subseteq eventos' PROVE FALSE
  BY <1>0
<1>1. ASSUME NEW g \in eventos, Rejuzgar(g)
      PROVE  \E f \in eventos' : /\ f.id = e.id /\ f.suceso = e.suceso
                                 /\ f.veredicto >= e.veredicto
  <2>1. g = e
    BY <1>1 DEF Rejuzgar
  <2>2. e.suceso \in Suceso /\ e \in Evento /\ e.veredicto \in Int
    BY Conjuntos DEF TypeOK, Evento, Veredicto, Ruido, Notable
  <2>3. PICK f \in eventos' : f = [e EXCEPT !.veredicto = Juicio(e.suceso)]
    BY <1>1, <2>1 DEF Rejuzgar
  <2>4. f.suceso = e.suceso /\ f.id = e.id /\ f.veredicto = Juicio(e.suceso)
    BY <2>2, <2>3 DEF Evento
  <2>5. /\ Juicio(e.suceso) = Clasificar(LoLeido(e.suceso), SinOrigen, UmbralPorDefecto)
        /\ Juicio(e.suceso) \in Int
    BY <2>2, RejuicioFijo
  <2>6. e.veredicto <= Juicio(e.suceso)
    BY <2>5 DEF HechosJuzgados
  <2> QED
    BY <2>2, <2>4, <2>5, <2>6
<1>2. CASE Guardar \/ (\E a \in IP, s \in Sucesos : Capturar(a, s)) \/ Amanecer \/ Caer
           \/ (\E a \in Ajustes, u \in Umbrales : Configurar(a, u)) \/ UNCHANGED vars
  BY <1>0, <1>2 DEF Guardar, Capturar, Amanecer, Caer, Configurar, vars, tablas
<1>3. CASE CicloApagado \/ CicloClaveNueva \/ CicloMismaClave \/ CicloPanico \/ Despertar
  BY <1>0, <1>3 DEF CicloApagado, CicloClaveNueva, CicloMismaClave, CicloPanico, Despertar,
                    tablas
<1>4. CASE TandaAcaba \/ SinPermiso \/ Fallar \/ IPsPendientes \/ MarcarNoConsultable
  BY <1>0, <1>4 DEF TandaAcaba, SinPermiso, Fallar, IPsPendientes, MarcarNoConsultable,
                    tablas
<1>5. CASE GuardarOrigen \/ EventosDeIP \/ RejuzgarAcaba \/ Respuesta
  BY <1>0, <1>5 DEF GuardarOrigen, EventosDeIP, RejuzgarAcaba, Respuesta, Responde,
                    RespondeMal, NoResponde, Limita, tablas
<1>6. CASE Purga
  BY <1>0, <1>6 DEF Purga, PurgarEventos, PurgarFichas, PurgarFichasFalla, tablas
<1> QED
  BY <1>1, <1>2, <1>3, <1>4, <1>5, <1>6 DEF Next, Bucle

-----------------------------------------------------------------------------
(* What is judged again.                                                   *)

\* Ids and counters are integers.
LEMMA LosIds ==
    ASSUME TypeOK
    PROVE  /\ \A e \in eventos \cup captura : e \in Evento /\ e.id \in Int
           /\ ultimoId \in Int /\ rejuzgados \subseteq Int /\ porJuzgar \subseteq Int
<1>1. MaxEventos \in Nat /\ Ids \subseteq Int
  BY EnriquecedorAssumption DEF Ids
<1> QED
  BY <1>1 DEF TypeOK, Evento

\* A row judged again is the same event of the same address.
LEMMA OtroVeredicto ==
    ASSUME TypeOK, NEW e \in eventos, Rejuzgar(e)
    PROVE  \E f : /\ eventos' = (eventos \ {e}) \cup {f}
                  /\ f.id = e.id /\ f.ip = e.ip /\ f.suceso = e.suceso
                  /\ f.veredicto = Juicio(e.suceso)
<1>1. e \in Evento
  BY LosIds
<1>2. [e EXCEPT !.veredicto = Juicio(e.suceso)].id = e.id
  BY <1>1 DEF Evento
<1>3. /\ [e EXCEPT !.veredicto = Juicio(e.suceso)].ip = e.ip
      /\ [e EXCEPT !.veredicto = Juicio(e.suceso)].suceso = e.suceso
  BY <1>1 DEF Evento
<1>4. [e EXCEPT !.veredicto = Juicio(e.suceso)].veredicto = Juicio(e.suceso)
  BY <1>1 DEF Evento
<1> QED
  BY <1>2, <1>3, <1>4 DEF Rejuzgar

\* AUTOINCREMENT: the id of an event is given once, and reclasificarIP works on
\* ids that were given.
LEMMA PasoIdentificados ==
    ASSUME TypeOK, Identificados, [Next]_vars
    PROVE  Identificados'
<1> USE LosIds
<1>0. ASSUME eventos' \subseteq eventos, captura' \subseteq captura, ultimoId' = ultimoId,
             rejuzgados' \subseteq rejuzgados, porJuzgar' \subseteq porJuzgar
      PROVE  Identificados'
  BY <1>0 DEF Identificados
<1>1. ASSUME NEW a \in IP, NEW s \in Sucesos, Capturar(a, s) PROVE Identificados'
  <2>1. PICK c : captura' = {c} /\ c.id = ultimoId + 1
    <3> DEFINE c == [id |-> ultimoId + 1, ip |-> a, suceso |-> s,
                     veredicto |-> Clasificar(s, OrigenDe(a), umbral)]
    <3>1. captura' = {c}
      BY <1>1 DEF Capturar
    <3>2. c.id = ultimoId + 1
      OBVIOUS
    <3> HIDE DEF c
    <3> QED
      BY <3>1, <3>2
  <2>2. UNCHANGED <<eventos, ultimoId, rejuzgados, porJuzgar>>
    BY <1>1 DEF Capturar, tablas, tanda, historia
  <2>3. \A e \in eventos : e.id # c.id
    BY <2>1 DEF Identificados
  <2> QED
    BY <2>1, <2>2, <2>3 DEF Identificados
<1>2. CASE Guardar
  <2>1. /\ eventos' = eventos \cup captura /\ captura' = {} /\ ultimoId' = ultimoId + 1
        /\ UNCHANGED <<rejuzgados, porJuzgar>>
    BY <1>2 DEF Guardar, tanda, historia
  <2>2. \A e, f \in eventos' : e.id = f.id => e = f
    BY <2>1 DEF Identificados
  <2>3. \A e \in eventos' : e.id <= ultimoId'
    BY <2>1 DEF Identificados
  <2>4. \A i \in rejuzgados \cup porJuzgar : i <= ultimoId + 1
    BY DEF Identificados
  <2> QED
    BY <2>1, <2>2, <2>3, <2>4 DEF Identificados
<1>3. ASSUME NEW e \in eventos, Rejuzgar(e) PROVE Identificados'
  <2>1. PICK f : eventos' = (eventos \ {e}) \cup {f} /\ f.id = e.id
    BY <1>3, OtroVeredicto
  <2>2. /\ UNCHANGED <<captura, ultimoId>> /\ porJuzgar' \subseteq porJuzgar
        /\ rejuzgados' = rejuzgados \cup {e.id}
    BY <1>3 DEF Rejuzgar
  <2>3. \A g \in eventos \cup captura : g.id = e.id => g = e
    BY DEF Identificados
  <2>4. e \notin captura
    BY DEF Identificados
  <2>5. \A g \in (eventos \ {e}) \cup captura : g.id # f.id
    BY <2>1, <2>3, <2>4
  <2>6. \A g, h \in eventos' \cup captura' : g.id = h.id => g = h
    BY <2>1, <2>2, <2>5 DEF Identificados
  <2> QED
    BY <2>1, <2>2, <2>6 DEF Identificados
<1>4. CASE EventosDeIP
  <2>1. /\ UNCHANGED <<eventos, captura, ultimoId, rejuzgados>>
        /\ \A i \in porJuzgar' : \E e \in eventos : i = e.id
    BY <1>4 DEF EventosDeIP, tablas, historia
  <2> QED
    BY <2>1 DEF Identificados
<1>5. ASSUME NEW a \in Ajustes, NEW u \in Umbrales, Configurar(a, u)
      PROVE  Identificados'
  BY <1>0, <1>5 DEF Configurar, tablas, tanda, historia
<1>6. CASE Caer \/ CicloPanico
  BY <1>0, <1>6 DEF Caer, CicloPanico, Reiniciar, tablas
<1>7. CASE UNCHANGED vars \/ Amanecer
  BY <1>0, <1>7 DEF vars, tablas, tanda, historia, Amanecer
<1>8. CASE CicloApagado \/ CicloClaveNueva \/ CicloMismaClave \/ Despertar
  BY <1>0, <1>8 DEF CicloApagado, CicloClaveNueva, CicloMismaClave, Despertar, tablas,
                    tanda, historia
<1>9. CASE TandaAcaba \/ SinPermiso \/ Fallar \/ IPsPendientes \/ MarcarNoConsultable
  BY <1>0, <1>9 DEF TandaAcaba, SinPermiso, Fallar, IPsPendientes, MarcarNoConsultable,
                    Dormir, tablas, historia
<1>10. CASE GuardarOrigen \/ RejuzgarAcaba
  BY <1>0, <1>10 DEF GuardarOrigen, RejuzgarAcaba, tablas, tanda, historia
<1>11. CASE Respuesta
  BY <1>0, <1>11 DEF Respuesta, Responde, RespondeMal, NoResponde, Limita, Dormir, tablas,
                     historia
<1>12. CASE Purga
  BY <1>0, <1>12 DEF Purga, PurgarEventos, PurgarFichas, PurgarFichasFalla, tablas, tanda,
                     historia
<1> QED
  BY <1>1, <1>2, <1>3, <1>4, <1>5, <1>6, <1>7, <1>8, <1>9, <1>10, <1>11, <1>12
  DEF Next, Bucle

\* Between GuardarOrigen and the last UPDATE only this goroutine gives the
\* address a record, and nobody gives it another.
LEMMA PasoEnMano ==
    ASSUME TypeOK, Fases, Identificados, EnMano, [Next]_vars
    PROVE  EnMano'
<1> USE LosIds
<1>0. ASSUME pc' \notin {"leer", "juzgar"} PROVE EnMano'
  BY <1>0 DEF EnMano
<1>1. ASSUME UNCHANGED <<pc, cola, hallado>>, eventos' \subseteq eventos,
             porJuzgar' \subseteq porJuzgar, DOMAIN ips' \subseteq DOMAIN ips,
             \A a \in DOMAIN ips' : ips'[a] = ips[a]
      PROVE  EnMano'
  BY <1>1 DEF EnMano, Primera
<1>2. CASE Guardar
  <2>1. /\ eventos' = eventos \cup captura
        /\ UNCHANGED <<pc, cola, hallado, porJuzgar, ips>>
    BY <1>2 DEF Guardar, tanda
  <2>2. \A e \in captura : e.id \notin porJuzgar
    BY DEF Identificados
  <2> QED
    BY <2>1, <2>2 DEF EnMano, Primera
<1>3. CASE GuardarOrigen
  <2>1. /\ pc' = "leer" /\ UNCHANGED <<cola, hallado>>
        /\ ips' = [a \in DOMAIN ips \cup {Primera} |->
                     IF a = Primera THEN [origen |-> hallado, dia |-> reloj] ELSE ips[a]]
    BY <1>3 DEF GuardarOrigen, tanda
  <2>2. ips'[Primera].origen = hallado
    BY <2>1
  <2> QED
    BY <2>1, <2>2 DEF EnMano, Primera
<1>4. CASE EventosDeIP
  <2>1. /\ pc = "leer" /\ pc' = "juzgar" /\ UNCHANGED <<cola, hallado, eventos, ips>>
        /\ \A i \in porJuzgar' : \E e \in eventos : i = e.id /\ e.ip = Primera
    BY <1>4 DEF EventosDeIP, tablas
  <2>2. \A e \in eventos : e.id \in porJuzgar' => e.ip = Primera
    BY <2>1 DEF Identificados
  <2> QED
    BY <2>1, <2>2 DEF EnMano, Primera
<1>5. ASSUME NEW e \in eventos, Rejuzgar(e) PROVE EnMano'
  <2>1. PICK f : eventos' = (eventos \ {e}) \cup {f} /\ f.id = e.id
    BY <1>5, OtroVeredicto
  <2>2. porJuzgar' = porJuzgar \ {e.id} /\ UNCHANGED <<pc, cola, hallado, ips>>
    BY <1>5 DEF Rejuzgar
  <2> QED
    BY <2>1, <2>2 DEF EnMano, Primera
<1>6. ASSUME NEW a \in IP, NEW s \in Sucesos, Capturar(a, s) PROVE EnMano'
  BY <1>1, <1>6 DEF Capturar, tablas, tanda
<1>7. ASSUME NEW a \in Ajustes, NEW u \in Umbrales, Configurar(a, u) PROVE EnMano'
  BY <1>1, <1>7 DEF Configurar, tablas, tanda
<1>8. CASE Caer \/ CicloPanico
  BY <1>0, <1>8 DEF Caer, CicloPanico, Reiniciar
<1>9. CASE UNCHANGED vars \/ Amanecer
  BY <1>1, <1>9 DEF vars, tablas, tanda, Amanecer
<1>10. CASE CicloApagado \/ CicloClaveNueva \/ CicloMismaClave \/ Despertar
  BY <1>0, <1>10 DEF CicloApagado, CicloClaveNueva, CicloMismaClave, Despertar
<1>11. CASE TandaAcaba \/ SinPermiso \/ Fallar \/ IPsPendientes \/ MarcarNoConsultable
            \/ RejuzgarAcaba \/ \E l \in BOOLEAN : Limita(l)
  BY <1>0, <1>11 DEF TandaAcaba, SinPermiso, Fallar, IPsPendientes, MarcarNoConsultable,
                     RejuzgarAcaba, Limita, Dormir
<1>12. CASE \/ \E l \in BOOLEAN : (\E o \in Origenes : Responde(o, l)) \/ RespondeMal(l)
            \/ \E n \in {0, 1} : NoResponde(n)
  BY <1>0, <1>12 DEF Responde, RespondeMal, NoResponde, Consultar, PorConsultar
<1>13. CASE Purga
  BY <1>1, <1>13 DEF Purga, PurgarEventos, PurgarFichas, PurgarFichasFalla, tablas, tanda
<1> QED
  BY <1>2, <1>3, <1>4, <1>5, <1>6, <1>7, <1>8, <1>9, <1>10, <1>11, <1>12, <1>13
  DEF Next, Bucle, Respuesta

\* Each UPDATE of reclasificarIP gives its event what its record deserves, and a
\* new record takes the mark from the events it has not judged yet.
LEMMA PasoConSuFicha ==
    ASSUME TypeOK, Identificados, EnMano, ConSuFicha, [Next]_vars
    PROVE  ConSuFicha'
<1> USE LosIds
<1>0. ASSUME eventos' \subseteq eventos, rejuzgados' \subseteq rejuzgados,
             DOMAIN ips' \subseteq DOMAIN ips, \A a \in DOMAIN ips' : ips'[a] = ips[a]
      PROVE  ConSuFicha'
  BY <1>0 DEF ConSuFicha, OrigenDe
<1>1. CASE Guardar
  <2>1. eventos' = eventos \cup captura /\ UNCHANGED <<rejuzgados, ips>>
    BY <1>1 DEF Guardar, historia
  <2>2. \A e \in captura : e.id \notin rejuzgados
    BY DEF Identificados
  <2> QED
    BY <2>1, <2>2 DEF ConSuFicha, OrigenDe
<1>2. CASE MarcarNoConsultable \/ GuardarOrigen
  <2>1. /\ eventos' = eventos
        /\ rejuzgados' = {i \in rejuzgados : \A e \in eventos : e.id = i => e.ip # Primera}
        /\ DOMAIN ips' = DOMAIN ips \cup {Primera}
        /\ \A a \in DOMAIN ips' : a # Primera => a \in DOMAIN ips /\ ips'[a] = ips[a]
    BY <1>2 DEF MarcarNoConsultable, GuardarOrigen
  <2>2. \A e \in eventos' : e.id \in rejuzgados' => e.id \in rejuzgados /\ e.ip # Primera
    BY <2>1
  <2> QED
    BY <2>1, <2>2 DEF ConSuFicha, OrigenDe
<1>3. ASSUME NEW e \in eventos, Rejuzgar(e) PROVE ConSuFicha'
  <2>1. PICK f : /\ eventos' = (eventos \ {e}) \cup {f} /\ f.ip = e.ip /\ f.suceso = e.suceso
                 /\ f.id = e.id /\ f.veredicto = Juicio(e.suceso)
    BY <1>3, OtroVeredicto
  <2>2. /\ pc = "juzgar" /\ e.id \in porJuzgar /\ ips' = ips
        /\ rejuzgados' = rejuzgados \cup {e.id}
    BY <1>3 DEF Rejuzgar
  <2>3. e.ip = Primera /\ (Primera \in DOMAIN ips => ips[Primera].origen = hallado)
    BY <2>2 DEF EnMano
  <2>4. f.ip \in DOMAIN ips =>
          f.veredicto = Clasificar(LoLeido(f.suceso), OrigenDe(f.ip), UmbralPorDefecto)
    BY <2>1, <2>3 DEF Juicio, OrigenDe
  <2>5. ASSUME NEW g \in eventos \ {e}, g.id \in rejuzgados', g.ip \in DOMAIN ips
        PROVE  g.veredicto = Clasificar(LoLeido(g.suceso), OrigenDe(g.ip), UmbralPorDefecto)
    <3>1. g.id # e.id
      BY DEF Identificados
    <3> QED
      BY <3>1, <2>2, <2>5 DEF ConSuFicha
  <2>6. \A x : OrigenDe(x)' = OrigenDe(x)
    BY <2>2 DEF OrigenDe
  <2> QED
    BY <2>1, <2>2, <2>4, <2>5, <2>6 DEF ConSuFicha, OrigenDe
<1>4. ASSUME NEW a \in IP, NEW s \in Sucesos, Capturar(a, s) PROVE ConSuFicha'
  BY <1>0, <1>4 DEF Capturar, tablas, historia
<1>5. ASSUME NEW a \in Ajustes, NEW u \in Umbrales, Configurar(a, u) PROVE ConSuFicha'
  BY <1>0, <1>5 DEF Configurar, tablas, historia
<1>6. CASE Caer \/ CicloPanico
  BY <1>0, <1>6 DEF Caer, CicloPanico, tablas
<1>7. CASE UNCHANGED vars \/ Amanecer
  BY <1>0, <1>7 DEF vars, tablas, historia, Amanecer
<1>8. CASE CicloApagado \/ CicloClaveNueva \/ CicloMismaClave \/ Despertar
  BY <1>0, <1>8 DEF CicloApagado, CicloClaveNueva, CicloMismaClave, Despertar, tablas, historia
<1>9. CASE TandaAcaba \/ SinPermiso \/ Fallar \/ IPsPendientes
  BY <1>0, <1>9 DEF TandaAcaba, SinPermiso, Fallar, IPsPendientes, tablas, historia
<1>10. CASE EventosDeIP \/ RejuzgarAcaba
  BY <1>0, <1>10 DEF EventosDeIP, RejuzgarAcaba, tablas, historia
<1>11. CASE Respuesta
  BY <1>0, <1>11 DEF Respuesta, Responde, RespondeMal, NoResponde, Limita, tablas, historia
<1>12. CASE Purga
  BY <1>0, <1>12 DEF Purga, PurgarEventos, PurgarFichas, PurgarFichasFalla, tablas, historia
<1> QED
  BY <1>1, <1>2, <1>3, <1>4, <1>5, <1>6, <1>7, <1>8, <1>9, <1>10, <1>11, <1>12
  DEF Next, Bucle

-----------------------------------------------------------------------------
(* The theorems.                                                           *)

\* The invariant holds at the start and is kept by every step.
LEMMA InicioInductivo == Init => Inductivo
<1> SUFFICES ASSUME Init PROVE Inductivo
  OBVIOUS
<1>1. TypeOK /\ Fases
  BY InicioTipos
<1>2. SabeLoQueQueda /\ ColaPendiente /\ HechosJuzgados
  BY DEF Init, SabeLoQueQueda, ColaPendiente, HechosJuzgados
<1>3. ReservaRespetada
  BY Numeros DEF Init, ReservaRespetada
<1>4. Identificados /\ EnMano /\ ConSuFicha
  BY DEF Init, Identificados, EnMano, ConSuFicha
<1> QED
  BY <1>1, <1>2, <1>3, <1>4 DEF Inductivo

\* ... and every step keeps it.
LEMMA PasoInductivo == Inductivo /\ [Next]_vars => Inductivo'
BY PasoTipos, PasoCuota, PasoCola, PasoHechos, PasoIdentificados, PasoEnMano, PasoConSuFicha
DEF Inductivo

\* The quota of a key only falls in a query.
LEMMA SoloConsultasGastan ==
    ASSUME TypeOK, Next, NEW k \in Clave, cupo'[k] < cupo[k]
    PROVE  Consultar
<1>0. cupo' # cupo
  <2>1. cupo[k] \in 0..Cupo /\ Cupo \in Nat
    BY Rangos, Numeros
  <2>2. ~ (cupo[k] < cupo[k])
    BY <2>1
  <2> QED
    BY <2>2
<1>1. CASE Amanecer
  <2>1. cupo'[k] = Cupo /\ cupo[k] \in 0..Cupo /\ Cupo \in Nat
    BY <1>1, Rangos, Numeros DEF Amanecer
  <2> QED
    BY <2>1
<1>2. CASE Respuesta
  BY <1>0, <1>2 DEF Respuesta, Responde, RespondeMal, NoResponde, Limita, api
<1>3. CASE Guardar \/ (\E a \in IP, s \in Sucesos : Capturar(a, s)) \/ Caer
           \/ (\E a \in Ajustes, u \in Umbrales : Configurar(a, u))
  BY <1>0, <1>3 DEF Guardar, Capturar, Caer, Configurar, api
<1>4. CASE CicloApagado \/ CicloClaveNueva \/ CicloMismaClave \/ CicloPanico \/ Despertar
  BY <1>0, <1>4 DEF CicloApagado, CicloClaveNueva, CicloMismaClave, CicloPanico, Despertar,
                    api
<1>5. CASE TandaAcaba \/ SinPermiso \/ Fallar \/ IPsPendientes \/ MarcarNoConsultable
  BY <1>0, <1>5 DEF TandaAcaba, SinPermiso, Fallar, IPsPendientes, MarcarNoConsultable, api
<1>6. CASE GuardarOrigen \/ EventosDeIP \/ RejuzgarAcaba
           \/ (\E e \in eventos : Rejuzgar(e))
  BY <1>0, <1>6 DEF GuardarOrigen, EventosDeIP, RejuzgarAcaba, Rejuzgar, api
<1>7. CASE Purga
  BY <1>0, <1>7 DEF Purga, PurgarEventos, PurgarFichas, PurgarFichasFalla, api
<1> QED
  BY <1>1, <1>2, <1>3, <1>4, <1>5, <1>6, <1>7 DEF Next, Bucle

\* Types, and what the client knows, for any instance.
THEOREM Tipos == Spec => []TypeOK
<1>1. Inductivo => TypeOK
  BY DEF Inductivo
<1> QED
  BY <1>1, InicioInductivo, PasoInductivo, PTL DEF Spec

\* Inductivo, in every execution: what the run checks of the goroutine as a whole.
THEOREM ElEnriquecedorSeTiene == Spec => []Inductivo
BY InicioInductivo, PasoInductivo, PTL DEF Spec

\* Whatever retention, the panel and a restart do meanwhile, an event judged
\* again has the verdict its record deserves (reclasificarIP, main.go:1149).
THEOREM LoRejuzgadoVale == Spec => []RejuzgadoBien
<1>1. Inductivo => RejuzgadoBien
  <2> SUFFICES ASSUME Inductivo, NEW e \in eventos, e.id \in rejuzgados, e.ip \in DOMAIN ips,
                      umbral = UmbralPorDefecto, ~ e.suceso.sinShell
               PROVE  e.veredicto = Clasificar(e.suceso, OrigenDe(e.ip), umbral)
    BY DEF RejuzgadoBien
  <2>1. e.veredicto = Clasificar(LoLeido(e.suceso), OrigenDe(e.ip), UmbralPorDefecto)
    BY DEF Inductivo, ConSuFicha
  <2>2. e.suceso \in Suceso
    BY LosIds, Conjuntos DEF Inductivo, Evento
  <2>3. LoLeido(e.suceso) = e.suceso
    BY <2>2 DEF LoLeido, Suceso
  <2> QED
    BY <2>1, <2>3
<1> QED
  BY <1>1, InicioInductivo, PasoInductivo, PTL DEF Spec

\* However many keys, restarts, failures and days: the reserve of a key's quota
\* is only touched by queries nobody could count (abuseipdb.go:129-140).
THEOREM LaReservaSeRespeta == Spec => []ReservaRespetada
<1>1. Inductivo => ReservaRespetada
  BY DEF Inductivo
<1> QED
  BY <1>1, InicioInductivo, PasoInductivo, PTL DEF Spec

\* No query is spent on an address with a good record (IPsPendientes).
THEOREM NadaSeGastaDosVeces == Spec => NoGastaDosVeces
<1> DEFINE A == \A k \in Clave : cupo'[k] < cupo[k] =>
                  (Primera \in DOMAIN ips => ips[Primera].dia < reloj - Caducidad)
<1>1. Inductivo /\ Next => A
  <2> SUFFICES ASSUME Inductivo, Next, NEW k \in Clave, cupo'[k] < cupo[k],
                      Primera \in DOMAIN ips
               PROVE  ips[Primera].dia < reloj - Caducidad
    OBVIOUS
  <2>1. Consultar
    BY SoloConsultasGastan DEF Inductivo
  <2>2. cola # <<>> /\ pc = "tanda"
    BY <2>1 DEF Consultar, PorConsultar
  <2>3. cola[1] = Primera /\ 1 \in 1..Len(cola)
    BY <2>2, Resto DEF Inductivo
  <2> QED
    BY <2>2, <2>3 DEF Inductivo, ColaPendiente
<1>2. Inductivo /\ [Next]_vars => [A]_vars
  BY <1>1
<1> QED
  BY <1>2, InicioInductivo, PasoInductivo, PTL DEF Spec, NoGastaDosVeces

\* Whoever is found behind an address, what was done in its events weighs as
\* much as before (classify.go:81-83).
THEOREM LoHechoPesaIgual == Spec => LoHechoNoSeRebaja
<1> DEFINE A == \/ eventos' \subseteq eventos
                \/ \A e \in eventos \ eventos' : HablaPorSi(e.suceso) =>
                     \E f \in eventos' : /\ f.id = e.id /\ f.suceso = e.suceso
                                         /\ f.veredicto >= e.veredicto
<1>1. Inductivo /\ [Next]_vars => [A]_vars
  BY PasoNoRebaja DEF Inductivo
<1> QED
  BY <1>1, InicioInductivo, PasoInductivo, PTL DEF Spec, LoHechoNoSeRebaja
=============================================================================
