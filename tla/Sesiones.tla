------------------------------ MODULE Sesiones ------------------------------
(***************************************************************************)
(* Accounts, passwords and sessions of the panel: entrar, salir and        *)
(* cambiarContrasena (web/sesion.go) interleave statement by statement on  *)
(* the tables usuarios and sesiones (store/auth.go), with the command line *)
(* creating accounts and resetting passwords from another process.  A      *)
(* password is the number of the change that set it.                       *)
(***************************************************************************)
EXTENDS Integers, FiniteSets

CONSTANTS Cuenta,      \* account names
          Navegador,   \* browsers, each from an address of its own
          Duracion,    \* ticks a session lasts (DuracionSesion)
          Umbral,      \* failures that are not slowed down (loginUmbral)
          MaxHora,     \* bound: ticks
          MaxClave,    \* bound: passwords an account goes through
          MaxToken,    \* bound: sessions opened
          MaxMuertes   \* bound: crashes of the panel

ASSUME SesionesAssumption ==
    /\ IsFiniteSet(Cuenta) /\ IsFiniteSet(Navegador)
    /\ Duracion \in Nat \ {0} /\ Umbral \in Nat
    /\ MaxHora \in Nat /\ MaxClave \in Nat \ {0} /\ MaxToken \in Nat /\ MaxMuertes \in Nat

VARIABLES
    hora,      \* the clock
    clave,     \* usuarios.hash: the password of each account; 0: no account
    sesiones,  \* table sesiones
    tokens,    \* tokens handed out so far
    cookie,    \* the token each browser holds; 0: none
    gestion,   \* what each browser's request is doing, and its locals
    cli,       \* the reset the command line is halfway through
    fallos,    \* limitadorDeLogin: recent failures of each address
    porCerrar, \* history: accounts changed whose sessions were not deleted
    muertes

varsSesiones == <<hora, clave, sesiones, tokens, cookie, gestion, cli, fallos,
                  porCerrar, muertes>>

Quieta == [fase |-> "quieta", cuenta |-> CHOOSE c \in Cuenta : TRUE, leida |-> 0]
NingunReset == {}

InitSesiones ==
    /\ hora = 0
    /\ clave \in [Cuenta -> {0, 1}]
    /\ sesiones = {}
    /\ tokens = 0
    /\ cookie = [n \in Navegador |-> 0]
    /\ gestion = [n \in Navegador |-> Quieta]
    /\ cli = NingunReset
    /\ fallos = [n \in Navegador |-> 0]
    /\ porCerrar = {}
    /\ muertes = 0

-----------------------------------------------------------------------------
(* The statements of store/auth.go.                                        *)

SesionValida(t) == {s \in sesiones : s.token = t /\ s.expira > hora}
PurgarSesiones(S) == {s \in S : s.expira > hora}

\* Opened by whoever knew password k; "tarde" tells that it was no longer the
\* account's when the session was written.
Nueva(c, k) == [token |-> tokens + 1, cuenta |-> c, expira |-> hora + Duracion,
                de |-> k, tarde |-> clave[c] # k]

\* Mutant: what is deleted is what has expired.
BorrarLasVencidas(c) == {s \in sesiones : s.cuenta # c \/ s.expira > hora}

BorrarSesionesDe(c) == {s \in sesiones : s.cuenta # c}

\* DELETE ... WHERE usuario_id; the panel ignores that it may fail.
CerrarTodas(c) ==
    \/ sesiones' = BorrarSesionesDe(c) /\ porCerrar' = porCerrar \ {c}
    \/ UNCHANGED <<sesiones, porCerrar>>

CambiarHash(c) ==
    /\ clave[c] < MaxClave
    /\ clave' = [clave EXCEPT ![c] = @ + 1]
    /\ porCerrar' = porCerrar \cup {c}

-----------------------------------------------------------------------------
(* Login.                                                                  *)

\* retrasoLogin, in steps: how long this address waits before it is attended.
retrasoLogin(n) == IF fallos[n] <= Umbral THEN 0 ELSE fallos[n] - Umbral

\* An address that keeps failing sleeps before its attempt is looked at.
Frenar(n) ==
    /\ gestion[n].fase = "quieta" /\ retrasoLogin(n) > 0
    /\ gestion' = [gestion EXCEPT ![n].fase = "frenada"]
    /\ UNCHANGED <<hora, clave, sesiones, tokens, cookie, cli, fallos, porCerrar, muertes>>

\* UsuarioPorNombre: the hash is read here and compared later.
EntrarLee(n, c) ==
    /\ \/ gestion[n].fase = "quieta" /\ retrasoLogin(n) = 0
       \/ gestion[n].fase = "frenada"
    /\ \E x \in Cuenta : clave[x] > 0       \* HayUsuarios
    /\ gestion' = [gestion EXCEPT ![n] = [fase |-> "entrando", cuenta |-> c, leida |-> clave[c]]]
    /\ UNCHANGED <<hora, clave, sesiones, tokens, cookie, cli, fallos, porCerrar, muertes>>

\* Wrong password, or no such account.
EntrarFalla(n) ==
    /\ gestion[n].fase = "entrando"
    /\ fallos' = [fallos EXCEPT ![n] = IF @ > Umbral THEN @ ELSE @ + 1]
    /\ gestion' = [gestion EXCEPT ![n] = Quieta]
    /\ UNCHANGED <<hora, clave, sesiones, tokens, cookie, cli, porCerrar, muertes>>

\* Verificar against the hash read, CrearSesion, exito, PurgarSesiones.
Entrar(n) ==
    LET g == gestion[n] IN
    /\ g.fase = "entrando" /\ g.leida > 0
    /\ tokens < MaxToken
    /\ sesiones' = PurgarSesiones(sesiones \cup {Nueva(g.cuenta, g.leida)})
    /\ tokens' = tokens + 1
    /\ cookie' = [cookie EXCEPT ![n] = tokens + 1]
    /\ fallos' = [fallos EXCEPT ![n] = 0]
    /\ gestion' = [gestion EXCEPT ![n] = Quieta]
    /\ UNCHANGED <<hora, clave, cli, porCerrar, muertes>>

Salir(n) ==
    /\ gestion[n].fase = "quieta" /\ cookie[n] > 0
    /\ sesiones' = {s \in sesiones : s.token # cookie[n]}
    /\ cookie' = [cookie EXCEPT ![n] = 0]
    /\ UNCHANGED <<hora, clave, tokens, gestion, cli, fallos, porCerrar, muertes>>

-----------------------------------------------------------------------------
(* Changing the password.  protegido resolves the session and the handler   *)
(* resolves it again: in between it may be gone, and then there is no user  *)
(* to change anything for (the request dies).                               *)
CambiarLee(n) ==
    /\ gestion[n].fase = "quieta"
    /\ \E s \in SesionValida(cookie[n]) :
         gestion' = [gestion EXCEPT ![n] =
             [fase |-> "cambiando", cuenta |-> s.cuenta, leida |-> clave[s.cuenta]]]
    /\ UNCHANGED <<hora, clave, sesiones, tokens, cookie, cli, fallos, porCerrar, muertes>>

\* The old password was right for the hash read; CambiarHash does not look at
\* the one the row has now.
CambiarEscribe(n) ==
    /\ gestion[n].fase = "cambiando"
    /\ CambiarHash(gestion[n].cuenta)
    /\ gestion' = [gestion EXCEPT ![n].fase = "cerrando", ![n].leida = clave'[gestion[n].cuenta]]
    /\ UNCHANGED <<hora, sesiones, tokens, cookie, cli, fallos, muertes>>

CambiarCierra(n) ==
    /\ gestion[n].fase = "cerrando"
    /\ CerrarTodas(gestion[n].cuenta)
    /\ gestion' = [gestion EXCEPT ![n].fase = "reabriendo"]
    /\ UNCHANGED <<hora, clave, tokens, cookie, cli, fallos, muertes>>

\* A session and a cookie for whoever asked; the INSERT's failure is ignored.
CambiarReabre(n) ==
    LET g == gestion[n] IN
    /\ g.fase = "reabriendo" /\ tokens < MaxToken
    /\ \/ sesiones' = sesiones \cup {Nueva(g.cuenta, g.leida)}
       \/ UNCHANGED sesiones
    /\ tokens' = tokens + 1
    /\ cookie' = [cookie EXCEPT ![n] = tokens + 1]
    /\ gestion' = [gestion EXCEPT ![n] = Quieta]
    /\ UNCHANGED <<hora, clave, cli, fallos, porCerrar, muertes>>

\* Refused, unreadable, an error of the database: the request ends.
DejarPeticion(n) ==
    /\ gestion[n].fase \in {"frenada", "cambiando", "reabriendo"}
    /\ gestion' = [gestion EXCEPT ![n] = Quieta]
    /\ UNCHANGED <<hora, clave, sesiones, tokens, cookie, cli, fallos, porCerrar, muertes>>

-----------------------------------------------------------------------------
(* The command line and the surroundings.                                  *)
AltaUsuario(c) ==
    /\ clave[c] = 0
    /\ clave' = [clave EXCEPT ![c] = 1]
    /\ UNCHANGED <<hora, sesiones, tokens, cookie, gestion, cli, fallos, porCerrar, muertes>>

ResetearEscribe(c) ==
    /\ clave[c] > 0 /\ cli = NingunReset
    /\ CambiarHash(c)
    /\ cli' = {c}
    /\ UNCHANGED <<hora, sesiones, tokens, cookie, gestion, fallos, muertes>>

ResetearCierra(c) ==
    /\ c \in cli
    /\ CerrarTodas(c)
    /\ cli' = NingunReset
    /\ UNCHANGED <<hora, clave, tokens, cookie, gestion, fallos, muertes>>

PasaHora ==
    /\ hora < MaxHora
    /\ hora' = hora + 1
    /\ UNCHANGED <<clave, sesiones, tokens, cookie, gestion, cli, fallos, porCerrar, muertes>>

\* loginOlvido without failures.
Olvidar(n) ==
    /\ fallos[n] > 0
    /\ fallos' = [fallos EXCEPT ![n] = 0]
    /\ UNCHANGED <<hora, clave, sesiones, tokens, cookie, gestion, cli, porCerrar, muertes>>

MuerePanel ==
    /\ muertes < MaxMuertes
    /\ muertes' = muertes + 1
    /\ gestion' = [n \in Navegador |-> Quieta]
    /\ fallos' = [n \in Navegador |-> 0]
    /\ UNCHANGED <<hora, clave, sesiones, tokens, cookie, cli, porCerrar>>

NextSesiones ==
    \/ \E n \in Navegador :
         \/ \E c \in Cuenta : EntrarLee(n, c)
         \/ Frenar(n) \/ EntrarFalla(n) \/ Entrar(n) \/ Salir(n)
         \/ CambiarLee(n) \/ CambiarEscribe(n) \/ CambiarCierra(n) \/ CambiarReabre(n)
         \/ DejarPeticion(n) \/ Olvidar(n)
    \/ \E c \in Cuenta : AltaUsuario(c) \/ ResetearEscribe(c) \/ ResetearCierra(c)
    \/ PasaHora
    \/ MuerePanel

SpecSesiones == InitSesiones /\ [][NextSesiones]_varsSesiones

-----------------------------------------------------------------------------
\* The types of the tables, the cookies and the requests' locals.
TypeOKSesiones ==
    /\ clave \in [Cuenta -> 0..MaxClave]
    /\ cookie \in [Navegador -> 0..tokens]
    /\ cli \subseteq Cuenta /\ porCerrar \subseteq Cuenta
    /\ \A s \in sesiones : s.cuenta \in Cuenta /\ s.token \in 1..tokens
    /\ \A n \in Navegador : gestion[n].leida \in 0..MaxClave

\* "Whoever had the old password, it stops working right now" (sesion.go:
\* cambiarContrasena; auth.go: BorrarSesionesDe).  A session opened with a
\* password that is no longer the account's is only ever there while its
\* change has not yet closed the sessions (or failed, or died, before it), or
\* because its own request had read the old hash before the change and wrote
\* the session after.  And no two sessions share a token.
SoloClaveVigente ==
    /\ \A s \in sesiones :
         s.de # clave[s.cuenta] => s.tarde \/ s.cuenta \in porCerrar
    /\ \A s, t \in sesiones : s.token = t.token => s = t

\* The locals of a browser's request.
FasesGestion == {"quieta", "frenada", "entrando", "cambiando", "cerrando", "reabriendo"}
Gestiones ==
    [fase : FasesGestion, cuenta : Cuenta \cup {Quieta.cuenta}, leida : 0..MaxClave]

\* What a request knows of its account: the hash it holds was the account's
\* once, and whoever changes a password had one.
SabeDe(g) ==
    /\ g.fase \in {"entrando", "cambiando", "cerrando", "reabriendo"} =>
         g.cuenta \in Cuenta /\ g.leida <= clave[g.cuenta]
    /\ g.fase \in {"cambiando", "cerrando", "reabriendo"} => g.leida > 0

\* ... and a session belongs to an account that exists (sesion.go, auth.go).
LeidaFueVigente ==
    /\ tokens \in Nat
    /\ gestion \in [Navegador -> Gestiones]
    /\ \A n \in Navegador : SabeDe(gestion[n])
    /\ \A s \in sesiones : clave[s.cuenta] > 0

\* The inductive invariant of PanelPruebas.
InductivoSesiones == TypeOKSesiones /\ LeidaFueVigente /\ SoloClaveVigente
=============================================================================
