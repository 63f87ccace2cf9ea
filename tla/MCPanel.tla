------------------------------- MODULE MCPanel -------------------------------
(***************************************************************************)
(* What is done because somebody asked: the calls to the model and their   *)
(* budget, the report, the accounts, the settings and the changes of the   *)
(* network and of the firewall.  They share no table but the budget's,     *)
(* which CuotaLLM and Informe each show they spend as Presupuesto says, so *)
(* an execution moves one of the six ("parte") and the rest stay as they   *)
(* began.                                                                  *)
(***************************************************************************)
EXTENDS CuotaLLM, Informe, Sesiones, Ajustes, CambioDeRed, CambioDeReglas, TLC

CONSTANTS a, b, aprendiz, panel, collector
VARIABLE parte

MCProcesoDe == a :> panel @@ b :> panel @@ aprendiz :> collector

-----------------------------------------------------------------------------
(* The forms the panel may send: a list of models without its keys, with a *)
(* new one or empty, and whether they are in use, which come together; the *)
(* single provider another; a single key changed or deleted; ports that    *)
(* do, that clash and that need root.                                      *)
Modelo(p, k) == [prov |-> p, clave |-> k]
EnBlanco ==
    [modelos |-> {}, usarLLM |-> {}, tipo |-> {}, url |-> {}, borrar |-> {}, puertos |-> {},
     claves |-> [t \in Tipo |-> SinClave]]
MCFormularios ==
    {[EnBlanco EXCEPT !.modelos = {m}, !.usarLLM = {x}] : x \in BOOLEAN,
       m \in {<<>>, <<Modelo("groq", SinClave)>>,
              <<Modelo("groq", SinClave), Modelo("anthropic", "k2")>>}}
    \cup {[EnBlanco EXCEPT !.tipo = {"anthropic"}],
          [EnBlanco EXCEPT !.url = {"otro"}, !.modelos = {<<Modelo("groq", SinClave)>>}]}
    \cup {[EnBlanco EXCEPT !.puertos = {p}] :
       p \in {[t \in Puesto |-> 2222], [t \in Puesto |-> 80],
              [t \in Puesto |-> IF t = "http" THEN 8081 ELSE Apagado]}}
    \cup {[EnBlanco EXCEPT !.borrar = {"compatible"}],
          [EnBlanco EXCEPT !.claves["anthropic"] = "k2"]}
MCSemilla ==
    [modelos |-> <<>>, usarLLM |-> TRUE, tipo |-> "compatible", url |-> "groq",
     sueltas |-> [t \in Tipo |-> IF t = "compatible" THEN "k1" ELSE SinClave],
     puertos |-> [t \in Puesto |-> Apagado], idioma |-> "es", red |-> "todas"]

-----------------------------------------------------------------------------
varsPanel == <<vars, varsInforme, varsSesiones, varsAjustes, varsCambio, varsReglas,
               parte>>

\* Who stays where it began begins in one way.
InitPanel ==
    /\ parte \in {"cuota", "informe", "sesiones", "ajustes", "red", "reglas"}
    /\ Init /\ InitInforme /\ InitSesiones /\ InitAjustes /\ InitCambio
    /\ InitReglas
    /\ parte # "cuota" => tope = 1
    /\ parte # "sesiones" => \A c \in Cuenta : clave[c] = 0

NextPanel ==
    /\ UNCHANGED parte
    /\ \/ /\ parte = "cuota" /\ Next
          /\ UNCHANGED <<varsInforme, varsSesiones, varsAjustes, varsCambio, varsReglas>>
       \/ /\ parte = "informe" /\ NextInforme
          /\ UNCHANGED <<vars, varsSesiones, varsAjustes, varsCambio, varsReglas>>
       \/ /\ parte = "sesiones" /\ NextSesiones
          /\ UNCHANGED <<vars, varsInforme, varsAjustes, varsCambio, varsReglas>>
       \/ /\ parte = "ajustes" /\ NextAjustes
          /\ UNCHANGED <<vars, varsInforme, varsSesiones, varsCambio, varsReglas>>
       \/ /\ parte = "red" /\ NextCambio
          /\ UNCHANGED <<vars, varsInforme, varsSesiones, varsAjustes, varsReglas>>
       \/ /\ parte = "reglas" /\ NextReglas
          /\ UNCHANGED <<vars, varsInforme, varsSesiones, varsAjustes, varsCambio>>

SpecPanel == InitPanel /\ [][NextPanel]_varsPanel

\* The variables of the six keep their types, and the budget's books balance.
TiposDelPanel ==
    /\ Inductivo /\ InductivoInforme /\ InductivoSesiones /\ InductivoAjustes
    /\ InductivoCambio /\ InductivoReglas

\* Neither the addresses nor the firewall keep what nobody confirmed.
UnoAUnoSeRevierte == RedVuelve /\ ReglasVuelven

\* Bound: an order on top of a pending one, or a restart, is the last step of an
\* execution, as RedVuelve and ReglasVuelven say nothing of what follows.
MientrasDeUno == deUno /\ unaAUna
=============================================================================
