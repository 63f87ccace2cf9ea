---------------------------- MODULE Clasificacion ----------------------------
(***************************************************************************)
(* internal/classify: how much human attention one event deserves.         *)
(*                                                                         *)
(* Verdicts are ranks.  The texts of an event are abstracted to what the   *)
(* rules ask of them: does it carry a bait credential, does a command or a *)
(* path match a known pattern, is the protocol one without a shell.        *)
(***************************************************************************)
EXTENDS Integers

Ruido == 0
Revisar == 1
Notable == 2
Veredicto == Ruido..Notable

TipoEvento == {"conexion", "huella_cliente", "login_fallido", "login_exitoso",
               "comando_ejecutado", "peticion_http", "descarga_fichero",
               "tunel_solicitado"}

Suceso == [tipo        : TipoEvento,
           cebo        : BOOLEAN,   \* carries a credential planted as bait
           sinShell    : BOOLEAN,   \* its protocol has no shell
           patron      : BOOLEAN,   \* matches patronesMaliciosos
           exploit     : {"no", "mudo", "conCallback"},
           credenciales: BOOLEAN,   \* the request carries user or password
           rutaRara    : BOOLEAN]   \* matches rutasSospechosas

\* What is known of an address; "enriquecido" is FALSE until it was looked up.
Origen == [enriquecido : BOOLEAN, tor : BOOLEAN, reputacion : 0..100]
SinOrigen == [enriquecido |-> FALSE, tor |-> FALSE, reputacion |-> 0]

-----------------------------------------------------------------------------
ComandoPesa(s) == IF s.patron \/ ~ s.sinShell THEN Notable ELSE Ruido

HttpPesa(s) ==
    CASE s.exploit = "conCallback"                       -> Notable
      [] s.exploit = "mudo"                              -> Revisar
      [] s.exploit = "no" /\ s.credenciales              -> Notable
      [] s.exploit = "no" /\ ~ s.credenciales            -> Revisar

\* The events whose verdict depends on what was done alone: porAccion has an
\* answer.  A plain request, a failed login, a connection have none.
HablaPorSi(s) ==
    \/ s.tipo \in {"descarga_fichero", "tunel_solicitado", "comando_ejecutado",
                   "login_exitoso"}
    \/ /\ s.tipo = "peticion_http"
       /\ s.exploit # "no" \/ s.credenciales \/ s.patron \/ s.rutaRara

PorAccion(s) ==
    CASE s.tipo \in {"descarga_fichero", "tunel_solicitado"} -> Notable
      [] s.tipo = "comando_ejecutado"                        -> ComandoPesa(s)
      [] s.tipo = "peticion_http"                            -> HttpPesa(s)
      [] s.tipo = "login_exitoso"                            -> Revisar

\* porOrigen: Tor, or a reputation at the threshold or above.
MalaFama(o, umbral) == o.enriquecido /\ (o.tor \/ o.reputacion >= umbral)

\* Mutant: who it is weighs more than what it does.
ClasificarPorFama(s, o, umbral) ==
    IF s.cebo THEN Notable
    ELSE IF MalaFama(o, umbral) THEN Revisar
    ELSE IF HablaPorSi(s) THEN PorAccion(s) ELSE Ruido

\* Clasificar: the bait first, then what was done, then who did it.
Clasificar(s, o, umbral) ==
    IF s.cebo THEN Notable
    ELSE IF HablaPorSi(s) THEN PorAccion(s)
    ELSE IF MalaFama(o, umbral) THEN Revisar ELSE Ruido

=============================================================================
