------------------------------- MODULE Trampas -------------------------------
(***************************************************************************)
(* The native traps (internal/trampa).  servirTCP is their common accept   *)
(* loop: it hands every connection one of the trap's slots, sets           *)
(* its deadline, makes it wait according to what the shared memory knows   *)
(* of its address (recuerdo.go), and runs the handler of its protocol.     *)
(* Each protocol is a table: what is read in which phase, what is          *)
(* registered, what is answered, and where the session goes.               *)
(***************************************************************************)
EXTENDS Integers, FiniteSets

CONSTANTS Conexion,      \* identities of connections, reused when they end
          Visitante,     \* remote addresses: loopback neither waits nor is remembered
          Puesto,        \* the traps that listen
          MaxSimultaneas,\* slots of each trap (maxSimultaneas)
          Presupuesto,   \* messages that fit in maxPorConexion bytes
          Plazo,         \* ticks of plazoLectura
          TarpitUmbral,  \* contacts that are not punished
          TarpitTope,    \* ticks of the longest punishment
          VentanaOlvido, \* ticks after which an address is forgotten
          MaxRecordados, \* addresses from which the memory is pruned
          MaxContactos   \* bound: connections accepted

\* The traps there are.
Nativas == {"mysql", "postgres", "redis", "ftp", "smtp", "rdp", "vnc", "docker", "mongodb",
            "http", "elastic", "jenkins", "grafana"}

ASSUME TrampasAssumption ==
    /\ Puesto \subseteq Nativas
    /\ MaxSimultaneas \in Nat \ {0} /\ Presupuesto \in Nat
    /\ TarpitTope \in Nat /\ Plazo \in Nat /\ Plazo > TarpitTope
    /\ TarpitUmbral \in Nat /\ VentanaOlvido \in Nat
    /\ MaxRecordados \in Nat /\ MaxContactos \in Nat

VARIABLES
    sesion,    \* each connection: phase, trap, address, what is left to it, trace
    huecos,    \* how many tokens the channel hueco of each trap holds
    vistos,    \* memoriaTrampas.vistos
    oyendo,    \* the context of the traps has not been cancelled
    cadena,    \* history: contacts of each address without a long absence
    contactos

varsTrampas == <<sesion, huecos, vistos, oyendo, cadena, contactos>>

-----------------------------------------------------------------------------
(* The protocols.                                                          *)

Paso(en, llega, anota, responde, pasa) ==
    [en |-> en, llega |-> llega, anota |-> anota, responde |-> responde, pasa |-> pasa]

\* What the login says: an unreadable package ends it, and one too short to
\* hold a user is read as one without.
LoginsMySQL == {<<"con_usuario_o_base", {"login"}>>, <<"sin_datos", {}>>}

\* The password travels hashed: the login "works" without it.
PasosMySQL == {Paso("login", l[1], l[2], "ok", "ordenes") : l \in LoginsMySQL} \cup {
    Paso("login",   "ilegible",           {},          "nada",  "fin"),
    Paso("ordenes", "consulta",           {"comando"}, "tabla", "ordenes"),
    Paso("ordenes", "otra_orden",         {},          "ok",    "ordenes"),
    Paso("ordenes", "salir",              {},          "nada",  "fin"),
    Paso("ordenes", "ilegible",           {},          "nada",  "fin")}

\* TLS is refused once; whatever comes instead of the password lets in too.
ArranquesPG == {
    <<"con_usuario", "clave_de_alguien">>, <<"sin_usuario", "clave_de_nadie">>}
PasosPostgres == {
    Paso("arranque", "TLS", {}, "no", "arranque_en_claro"),
    Paso("clave_de_alguien", "clave",      {"login"},   "adelante", "ordenes"),
    Paso("clave_de_nadie",   "clave",      {"login"},   "adelante", "ordenes"),
    Paso("clave_de_nadie",   "clave_vacia", {},         "adelante", "ordenes"),
    Paso("clave_de_alguien", "otro",       {"login"},   "adelante", "ordenes"),
    Paso("clave_de_nadie",   "otro",       {},          "adelante", "ordenes"),
    Paso("ordenes",          "consulta",   {"comando"}, "tabla",    "ordenes"),
    Paso("ordenes",          "otra_orden", {},          "listo",    "ordenes"),
    Paso("ordenes",          "salir",      {},          "nada",     "fin"),
    Paso("ordenes",          "ilegible",   {},          "nada",     "fin")}
    \cup {Paso(f, "ilegible", {}, "nada", "fin") : f \in {"arranque", "arranque_en_claro"}}
    \cup {Paso(f, a[1], {}, "pide_la_clave", a[2]) :
            f \in {"arranque", "arranque_en_claro"}, a \in ArranquesPG}
    \* A second request for TLS is read as a start without user.
    \cup {Paso("arranque_en_claro", "TLS", {}, "pide_la_clave", "clave_de_nadie")}

PasosRedis == {
    Paso("ordenes", "orden",    {"comando"}, "ok",   "ordenes"),
    Paso("ordenes", "salir",    {"comando"}, "ok",   "fin"),
    Paso("ordenes", "ilegible", {},          "nada", "fin")}

PasosFTP == {
    Paso("ordenes", "usuario", {},        "331", "ordenes"),
    Paso("ordenes", "clave",   {"login"}, "530", "ordenes"),
    Paso("ordenes", "otra",    {},        "530", "ordenes"),
    Paso("ordenes", "salir",   {},        "221", "fin")}

\* AUTH LOGIN asks for user and password in turn, AUTH PLAIN for both at once
\* (or brings them); what cannot be decoded counts as empty.
PasosSMTP == {
    Paso("ordenes", "login",             {},          "334", "usuario"),
    Paso("usuario", "linea",             {},          "334", "clave_de_alguien"),
    Paso("usuario", "linea_vacia",       {},          "334", "clave_de_nadie"),
    Paso("clave_de_alguien", "linea",    {"login"},   "535", "ordenes"),
    Paso("clave_de_nadie", "linea",      {"login"},   "535", "ordenes"),
    Paso("clave_de_nadie", "linea_vacia", {},         "535", "ordenes"),
    Paso("ordenes", "plain_con_datos",   {"login"},   "535", "ordenes"),
    Paso("ordenes", "plain",             {},          "334", "ambas"),
    Paso("ambas",   "linea",             {"login"},   "535", "ordenes"),
    Paso("ambas",   "linea_vacia",       {},          "535", "ordenes"),
    Paso("ordenes", "otro_metodo",       {},          "535", "ordenes"),
    Paso("ordenes", "destinatario",      {"comando"}, "250", "ordenes"),
    Paso("ordenes", "datos",             {},          "354", "cuerpo"),
    Paso("cuerpo",  "linea",             {},          "nada", "cuerpo"),
    Paso("cuerpo",  "punto",             {},          "250", "ordenes"),
    Paso("ordenes", "otra",              {},          "250", "ordenes"),
    Paso("ordenes", "salir",             {},          "221", "fin")}

PasosRDP == {
    Paso("paquete", "con_usuario", {"login"}, "nada", "fin"),
    Paso("paquete", "otro",        {},        "nada", "fin")}

PasosVNC == {
    Paso("version", "RFB",  {"conexion", "cliente"}, "reto", "tipo"),
    Paso("version", "otra", {"conexion"},            "reto", "tipo"),
    Paso("tipo",    "uno",  {},                      "reto", "fin")}

\* The four that speak HTTP: one request, whose credentials and exploit are
\* noted whatever the route; the route decides the answer and its bait.
PaginasHTTP    == {<<"env", TRUE>>, <<"git", TRUE>>, <<"panel", TRUE>>, <<"nginx", FALSE>>}
PaginasElastic == {<<"busqueda", TRUE>>, <<"indices", TRUE>>, <<"salud", FALSE>>,
                   <<"nodos", FALSE>>, <<"banner", FALSE>>}
PaginasJenkins == {<<"consola", TRUE>>, <<"api", FALSE>>, <<"login", FALSE>>}
PaginasGrafana == {<<"salud", FALSE>>, <<"passwd", TRUE>>, <<"401", FALSE>>, <<"login", FALSE>>}

Peticiones(paginas) ==
    {Paso("peticion", p[1],
          {"peticion"} \cup extra \cup (IF p[2] THEN {"cebo"} ELSE {}), p[1], "fin") :
       p \in paginas, extra \in SUBSET {"credenciales", "exploit"}}
    \cup {Paso("peticion", "ilegible", {"conexion"}, "nada", "fin")}

\* The plain one has a handler of its own, which does the same.
PasosHTTP == Peticiones(PaginasHTTP)

PasosDocker == {
    Paso("peticion", "crear_contenedor", {"comando"},  "201", "peticion"),
    Paso("peticion", "exec",             {"comando"},  "201", "peticion"),
    Paso("peticion", "bajar_imagen",     {"comando"},  "200", "peticion"),
    Paso("peticion", "ping",             {},           "200", "peticion"),
    Paso("peticion", "otra_ruta",        {"peticion"}, "200", "peticion"),
    Paso("peticion", "ilegible",         {},           "nada", "fin")}

PasosMongo == {
    Paso("mensaje", "consulta",        {"comando"},  "reply", "mensaje"),
    Paso("mensaje", "msg",             {"comando"},  "msg",   "mensaje"),
    Paso("mensaje", "otra_operacion",  {"comando"},  "nada",  "fin"),
    Paso("mensaje", "ilegible",        {"conexion"}, "nada",  "fin")}

Pasos(t) ==
    CASE t = "mysql"    -> PasosMySQL
      [] t = "postgres" -> PasosPostgres
      [] t = "redis"    -> PasosRedis
      [] t = "ftp"      -> PasosFTP
      [] t = "smtp"     -> PasosSMTP
      [] t = "rdp"      -> PasosRDP
      [] t = "vnc"      -> PasosVNC
      [] t = "docker"   -> PasosDocker
      [] t = "mongodb"  -> PasosMongo
      [] t = "http"     -> PasosHTTP
      [] t = "elastic"  -> Peticiones(PaginasElastic)
      [] t = "jenkins"  -> Peticiones(PaginasJenkins)
      [] t = "grafana"  -> Peticiones(PaginasGrafana)
      [] t = "ninguna"  -> {}

Protocolos == [t \in Puesto \cup {"ninguna"} |-> Pasos(t)]

\* Where the handler starts, and what it registers before it reads anything.
Entrada(t) ==
    CASE t = "mysql"    -> "login"
      [] t = "postgres" -> "arranque"
      [] t = "rdp"      -> "paquete"
      [] t = "vnc"      -> "version"
      [] t = "mongodb"  -> "mensaje"
      [] t \in {"redis", "ftp", "smtp"} -> "ordenes"
      [] OTHER          -> "peticion"
AlEntrar(t) ==
    IF t \in {"mysql", "postgres", "redis", "ftp", "smtp", "rdp"} THEN {"conexion"} ELSE {}

\* What a read that fails in a phase still registers on the way out.
AlFallar(t, f) ==
    CASE t = "vnc" /\ f = "version"                        -> {"conexion"}
      [] t \in {"http", "elastic", "jenkins", "grafana", "mongodb"} -> {"conexion"}
      [] t \in {"postgres", "smtp"} /\ f = "clave_de_alguien" -> {"login"}
      [] OTHER                                             -> {}

\* Sessions whose deadline starts again at each message, and those that no
\* limit of bytes ends.
Renueva(t, f) ==
    t \in {"docker", "mongodb"} \/ (t \in {"mysql", "postgres"} /\ f = "ordenes")
SinPresupuesto == {"mongodb"}

-----------------------------------------------------------------------------
(* The memory of the traps.                                                *)
escaladoTarpit(veces) ==
    IF veces <= TarpitUmbral THEN 0
    ELSE IF veces - TarpitUmbral > TarpitTope THEN TarpitTope ELSE veces - TarpitUmbral

\* Mutant: the pruning takes whoever is at hand.
podarTodo(v) == IF Cardinality(DOMAIN v) < MaxRecordados THEN v ELSE [a \in {} |-> v[a]]

podarSiToca(v) ==
    IF Cardinality(DOMAIN v) < MaxRecordados THEN v
    ELSE [a \in {b \in DOMAIN v : v[b].edad <= VentanaOlvido} |-> v[a]]

Visita(v, a) == IF a \in DOMAIN v THEN v[a] ELSE [veces |-> 0, edad |-> VentanaOlvido + 1]
Contacto(x) == [veces |-> IF x.edad > VentanaOlvido THEN 1 ELSE x.veces + 1, edad |-> 0]

\* esperar, up to the sleep.
Recordar(v, a) ==
    LET p == podarSiToca(v) IN
      [b \in DOMAIN p \cup {a} |-> IF b = a THEN Contacto(Visita(p, a)) ELSE p[b]]

-----------------------------------------------------------------------------
Nadie == [fase |-> "libre", trampa |-> "ninguna", ip |-> "nadie", espera |-> 0,
          plazo |-> 0, queda |-> 0, rastro |-> {}]

InitTrampas ==
    /\ sesion = [c \in Conexion |-> Nadie]
    /\ huecos = [t \in Puesto |-> 0]
    /\ vistos = [a \in {} |-> [veces |-> 0, edad |-> 0]]
    /\ oyendo = TRUE
    /\ cadena = [a \in Visitante |-> [veces |-> 0, edad |-> VentanaOlvido + 1]]
    /\ contactos = 0

Atendidas(t) == {c \in Conexion : sesion[c].fase # "libre" /\ sesion[c].trampa = t}

\* Accept, a slot, the deadline, and the wait.  Without a slot the connection
\* is closed at once and nothing is remembered of it.
Aceptar(c, t, a) ==
    /\ oyendo /\ sesion[c] = Nadie /\ contactos < MaxContactos
    /\ huecos[t] < MaxSimultaneas
    /\ huecos' = [huecos EXCEPT ![t] = @ + 1]
    /\ vistos' = Recordar(vistos, a)
    /\ cadena' = [cadena EXCEPT ![a] = Contacto(@)]
    /\ sesion' = [sesion EXCEPT ![c] =
         [fase |-> "espera", trampa |-> t, ip |-> a, plazo |-> Plazo,
          espera |-> escaladoTarpit(vistos'[a].veces), queda |-> Presupuesto, rastro |-> {}]]
    /\ contactos' = contactos + 1
    /\ UNCHANGED oyendo

Saturada(t) ==
    /\ oyendo /\ huecos[t] = MaxSimultaneas /\ contactos < MaxContactos
    /\ contactos' = contactos + 1
    /\ UNCHANGED <<sesion, huecos, vistos, oyendo, cadena>>

Atender(c) ==
    /\ sesion[c].fase = "espera" /\ sesion[c].espera = 0
    /\ sesion' = [sesion EXCEPT ![c].fase = Entrada(sesion[c].trampa),
                                ![c].rastro = AlEntrar(sesion[c].trampa)]
    /\ UNCHANGED <<huecos, vistos, oyendo, cadena, contactos>>

Leyendo(c) == sesion[c].fase \notin {"libre", "espera", "fin"}

\* Mutant: the limit starts again at each message.
GastarNada(s) == s.queda

\* lectorLimitado: each message takes from what the connection may still send.
Gastar(s) == IF s.trampa \in SinPresupuesto THEN s.queda ELSE s.queda - 1

Mensaje(c, f) ==
    LET s == sesion[c] IN
    /\ Leyendo(c) /\ s.plazo > 0 /\ s.queda > 0
    /\ f \in Protocolos[s.trampa] /\ f.en = s.fase
    /\ sesion' = [sesion EXCEPT ![c] =
         [s EXCEPT !.fase = f.pasa, !.rastro = @ \cup f.anota, !.queda = Gastar(s),
                   !.plazo = IF Renueva(s.trampa, f.pasa) THEN Plazo ELSE @]]
    /\ UNCHANGED <<huecos, vistos, oyendo, cadena, contactos>>

\* The peer hung up, the deadline passed or the bytes ran out.
Corte(c) ==
    /\ Leyendo(c)
    /\ sesion' = [sesion EXCEPT ![c].fase = "fin",
                    ![c].rastro = @ \cup AlFallar(sesion[c].trampa, sesion[c].fase)]
    /\ UNCHANGED <<huecos, vistos, oyendo, cadena, contactos>>

\* On Postgres a password that does not come in time is one that was not
\* given: the login "works" and the deadline starts again.
SinClavePG(c) ==
    LET s == sesion[c] IN
    /\ s.trampa = "postgres" /\ s.fase \in {"clave_de_alguien", "clave_de_nadie"} /\ s.plazo = 0
    /\ sesion' = [sesion EXCEPT ![c] =
         [s EXCEPT !.fase = "ordenes", !.plazo = Plazo, !.rastro = @ \cup AlFallar("postgres", s.fase)]]
    /\ UNCHANGED <<huecos, vistos, oyendo, cadena, contactos>>

\* The deferred function: close, give the slot back.
Terminar(c) ==
    /\ sesion[c].fase = "fin"
    /\ sesion' = [sesion EXCEPT ![c] = Nadie]
    /\ huecos' = [huecos EXCEPT ![sesion[c].trampa] = @ - 1]
    /\ UNCHANGED <<vistos, oyendo, cadena, contactos>>

\* ... which a panic of the handler runs too, and recovers from.
Panico(c) ==
    /\ Leyendo(c)
    /\ sesion' = [sesion EXCEPT ![c] = Nadie]
    /\ huecos' = [huecos EXCEPT ![sesion[c].trampa] = @ - 1]
    /\ UNCHANGED <<vistos, oyendo, cadena, contactos>>

\* The traps are stopped: nobody else comes in, who is in goes on.
Cancelar ==
    /\ oyendo
    /\ oyendo' = FALSE
    /\ UNCHANGED <<sesion, huecos, vistos, cadena, contactos>>

Menos(n) == IF n > 0 THEN n - 1 ELSE 0
Envejece(x) == [x EXCEPT !.edad = IF @ > VentanaOlvido THEN @ ELSE @ + 1]

PasaTiempo ==
    /\ sesion' = [c \in Conexion |->
         [sesion[c] EXCEPT !.plazo = Menos(@), !.espera = Menos(@)]]
    /\ vistos' = [a \in DOMAIN vistos |-> Envejece(vistos[a])]
    /\ cadena' = [a \in Visitante |-> Envejece(cadena[a])]
    /\ UNCHANGED <<huecos, oyendo, contactos>>

NextTrampas ==
    \/ \E c \in Conexion, t \in Puesto, a \in Visitante : Aceptar(c, t, a)
    \/ \E t \in Puesto : Saturada(t)
    \/ \E c \in Conexion :
         \/ Atender(c)
         \/ \E f \in Protocolos[sesion[c].trampa] : Mensaje(c, f)
         \/ Corte(c) \/ SinClavePG(c) \/ Terminar(c) \/ Panico(c)
    \/ Cancelar
    \/ PasaTiempo

SpecTrampas == InitTrampas /\ [][NextTrampas]_varsTrampas

\* Time passes, goroutines run, and a read past its deadline or its bytes
\* returns; a peer need never send anything.
Vencida(c) == (sesion[c].plazo = 0 \/ sesion[c].queda = 0) /\ (Corte(c) \/ SinClavePG(c))
Avanzar(c) == Atender(c) \/ Vencida(c) \/ Terminar(c)
JustoTrampas ==
    /\ WF_varsTrampas(PasaTiempo)
    /\ \A c \in Conexion : WF_varsTrampas(Avanzar(c))

-----------------------------------------------------------------------------
\* The types of the sessions and of the memory.
FasesDeSesion ==
    {"espera", "login", "arranque", "arranque_en_claro", "clave_de_alguien", "clave_de_nadie",
     "ordenes", "usuario", "ambas", "cuerpo", "paquete", "version", "tipo", "peticion",
     "mensaje", "fin"}
Registros == {"conexion", "cliente", "login", "comando", "peticion", "credenciales",
              "exploit", "cebo"}
Atencion ==
    [fase : FasesDeSesion, trampa : Puesto, ip : Visitante, espera : 0..TarpitTope,
     plazo : 0..Plazo, queda : 0..Presupuesto, rastro : SUBSET Registros]
Visitas == [veces : Nat, edad : Nat]
TypeOKTrampas ==
    /\ sesion \in [Conexion -> Atencion \cup {Nadie}]
    /\ huecos \in [Puesto -> 0..MaxSimultaneas]
    /\ DOMAIN vistos \subseteq Visitante
    /\ cadena \in [Visitante -> Visitas]
    /\ oyendo \in BOOLEAN /\ contactos \in Nat

\* A slot of its trap per connection in progress, whatever way it ends; and
\* the memory that all the traps share punishes each address for exactly its
\* contacts in a row: the pruning never forgives one that is still within the
\* window, nor does a long absence count (trampa.go: servirTCP; recuerdo.go:
\* esperar, podarSiToca).
RecuerdoExacto ==
    /\ \A t \in Puesto : huecos[t] = Cardinality(Atendidas(t))
    /\ \A a \in Visitante : cadena[a].edad <= VentanaOlvido =>
         a \in DOMAIN vistos /\ vistos[a] = cadena[a]

\* Every session that ended by itself left something registered, even the
\* one that only touched the port or sent rubbish, and no order is registered
\* from someone whose arrival was not; except on Docker and MongoDB, which
\* register requests only (and MongoDB the rubbish).
NadieSinRastro ==
    \A c \in Conexion : LET s == sesion[c] IN
        /\ s.fase = "fin" /\ s.trampa # "docker" => s.rastro # {}
        /\ "comando" \in s.rastro /\ s.trampa \notin {"docker", "mongodb"} => "conexion" \in s.rastro

\* Nobody keeps a slot for ever, however little or much they send; except on
\* MongoDB, whose reader has no limit of bytes and whose deadline starts
\* again at each message.
TodaSesionTermina ==
    \A c \in Conexion :
        (sesion[c].fase # "libre" /\ sesion[c].trampa \notin SinPresupuesto) ~> (sesion[c].fase = "libre")

-----------------------------------------------------------------------------
(* The inductive invariant behind the two.                                 *)

Ranuras ==
    \A t \in Puesto : IsFiniteSet(Atendidas(t)) /\ huecos[t] = Cardinality(Atendidas(t))

\* What the memory keeps of an address is its chain of contacts, and it keeps
\* every address that is still within the window.
Memoria ==
    /\ \A a \in DOMAIN vistos : vistos[a] = cadena[a]
    /\ \A a \in Visitante : cadena[a].edad <= VentanaOlvido => a \in DOMAIN vistos

\* Where each protocol leaves its trace: six greet, VNC notes the version and
\* what speaks HTTP notes its one request.
Saludan == {"mysql", "postgres", "redis", "ftp", "smtp", "rdp"}
HablanHTTP == {"http", "elastic", "jenkins", "grafana"}
DejaRastro(s) ==
    /\ s.trampa \in Saludan /\ s.fase \notin {"libre", "espera"} => "conexion" \in s.rastro
    /\ s.trampa = "vnc" => /\ s.fase \in {"espera", "version", "tipo", "fin"}
                           /\ s.fase \in {"tipo", "fin"} => "conexion" \in s.rastro
    /\ s.trampa \in HablanHTTP \cup {"mongodb"} => (s.fase = "fin" => s.rastro # {})
    /\ s.trampa \in HablanHTTP \cup {"vnc"} => "comando" \notin s.rastro
    /\ s.fase \in {"libre", "espera"} => s.rastro = {}

InductivoTrampas ==
    TypeOKTrampas /\ Ranuras /\ Memoria /\ \A c \in Conexion : DejaRastro(sesion[c])
=============================================================================
