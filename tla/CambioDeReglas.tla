---------------------------- MODULE CambioDeReglas ----------------------------
(***************************************************************************)
(* A change of the firewall that is undone unless somebody confirms it     *)
(* (k0pot-nft.sh): one copy of the rules there were, and a timer of        *)
(* systemd whose service goes back to them.  Every command of the script   *)
(* that touches the rules, the copy or the timer is a step, and the timer  *)
(* may end between any two.  What is loaded when the machine starts        *)
(* (/etc/nftables.conf) is not modelled.                                   *)
(***************************************************************************)

CONSTANTS Reglas,        \* rule sets
          ReglasMalas,   \* those whose load fails although their syntax is right
          DeFabrica,     \* the rules there are before the first change
          Abierto,       \* no rules at all
          Orden,         \* executions of the script by hand at a time
          Servicio       \* k0pot-nft-revertir.service, of which there is one

\* The execution of the timer's service is not one by hand.
ASSUME ReglasAssumption == Servicio \notin Orden

VARIABLES
    reglas, respaldo,  \* the rules loaded, RESPALDO
    temporizador,      \* k0pot-nft-revertir.timer is active
    orden,             \* each execution: the command it is at, its rules
    elegidas,          \* history: what the operator may expect to have
    unaAUna            \* history: no order on top of another or of a pending one

varsReglas == <<reglas, respaldo, temporizador, orden, elegidas, unaAUna>>

Conjuntos == Reglas \cup {DeFabrica, Abierto}
Ejecucion == Orden \cup {Servicio}
Parada == [paso |-> "libre", reglas |-> DeFabrica]

InitReglas ==
    /\ reglas = DeFabrica /\ respaldo = DeFabrica /\ temporizador = FALSE
    /\ orden = [e \in Ejecucion |-> Parada]
    /\ elegidas = {DeFabrica} /\ unaAUna = TRUE

EnPaso(e, p) == orden[e].paso = p
Sigue(e, p) == orden' = [orden EXCEPT ![e].paso = p]
Termina(e) == orden' = [orden EXCEPT ![e] = Parada]
HayOrden == \E e \in Orden : ~ EnPaso(e, "libre")

-----------------------------------------------------------------------------
(* aplicar, once the file is valid.                                        *)

\* Keep the rules ...
AplicarReglas(e, f) ==
    /\ e # Servicio /\ EnPaso(e, "libre")
    /\ respaldo' = reglas
    /\ orden' = [orden EXCEPT ![e] = [paso |-> "parar", reglas |-> f]]
    /\ unaAUna' = (unaAUna /\ ~ HayOrden /\ ~ temporizador /\ EnPaso(Servicio, "libre"))
    /\ UNCHANGED <<reglas, temporizador, elegidas>>

\* ... stop the timer there may be, of an earlier change too ...
PararTemporizador(e) ==
    /\ EnPaso(e, "parar")
    /\ temporizador' = FALSE
    /\ Sigue(e, "armar")
    /\ UNCHANGED <<reglas, respaldo, elegidas, unaAUna>>

\* ... arm another, which systemd refuses while the unit is there ...
ArmarTemporizador(e) ==
    /\ EnPaso(e, "armar")
    /\ ~ temporizador /\ EnPaso(Servicio, "libre")
    /\ temporizador' = TRUE
    /\ Sigue(e, "cargar")
    /\ UNCHANGED <<reglas, respaldo, elegidas, unaAUna>>

\* ... or else load nothing ...
SinTemporizador(e) ==
    /\ EnPaso(e, "armar")
    /\ Termina(e)
    /\ UNCHANGED <<reglas, respaldo, temporizador, elegidas, unaAUna>>

\* ... and load, all or nothing: what fails goes back at once.
Cargar(e) ==
    /\ EnPaso(e, "cargar") /\ orden[e].reglas \notin ReglasMalas
    /\ reglas' = orden[e].reglas
    /\ Termina(e)
    /\ UNCHANGED <<respaldo, temporizador, elegidas, unaAUna>>

NoCargar(e) ==
    /\ EnPaso(e, "cargar") /\ orden[e].reglas \in ReglasMalas
    /\ Sigue(e, "deshacer")
    /\ UNCHANGED <<reglas, respaldo, temporizador, elegidas, unaAUna>>

-----------------------------------------------------------------------------
(* revertir: after a load that fails, by hand, or by the timer.            *)

RevertirReglas(e) ==
    /\ e # Servicio /\ EnPaso(e, "libre")
    /\ Sigue(e, "deshacer")
    /\ elegidas' = {respaldo}
    /\ unaAUna' = (unaAUna /\ ~ HayOrden)
    /\ UNCHANGED <<reglas, respaldo, temporizador>>

\* The margin ends: the service starts, and its timer stays active until the
\* service itself stops it.  A margin that ends while the rules of its own
\* change are still being loaded watches nothing.
VencerReglas ==
    /\ temporizador /\ EnPaso(Servicio, "libre")
    /\ Sigue(Servicio, "deshacer")
    /\ unaAUna' = (unaAUna /\ \A e \in Orden : ~ EnPaso(e, "cargar"))
    /\ UNCHANGED <<reglas, respaldo, temporizador, elegidas>>

DesarmarTemporizador(e) ==
    /\ EnPaso(e, "deshacer")
    /\ temporizador' = FALSE
    /\ Sigue(e, "vaciar")
    /\ UNCHANGED <<reglas, respaldo, elegidas, unaAUna>>

\* nft flush ruleset ...
VaciarReglas(e) ==
    /\ EnPaso(e, "vaciar")
    /\ reglas' = Abierto
    /\ Sigue(e, "restaurar")
    /\ UNCHANGED <<respaldo, temporizador, elegidas, unaAUna>>

\* ... and the copy, unless it is empty.
RestaurarReglas(e) ==
    /\ EnPaso(e, "restaurar")
    /\ reglas' = IF respaldo = Abierto THEN reglas ELSE respaldo
    /\ Termina(e)
    /\ UNCHANGED <<respaldo, temporizador, elegidas, unaAUna>>

-----------------------------------------------------------------------------
\* confirmar: without a timer there is nothing to confirm.  With the service
\* on its way it says "Las reglas se quedan" all the same, and they do not.
ConfirmarReglas ==
    /\ temporizador
    /\ temporizador' = FALSE
    /\ elegidas' = IF EnPaso(Servicio, "libre") THEN {reglas} ELSE elegidas \cup {reglas}
    /\ unaAUna' = (unaAUna /\ ~ HayOrden)
    /\ UNCHANGED <<reglas, respaldo, orden>>

NextReglas ==
    \/ \E e \in Orden :
         \/ \E f \in Reglas : AplicarReglas(e, f)
         \/ PararTemporizador(e) \/ ArmarTemporizador(e) \/ SinTemporizador(e)
         \/ Cargar(e) \/ NoCargar(e) \/ RevertirReglas(e)
    \/ \E e \in Ejecucion :
         DesarmarTemporizador(e) \/ VaciarReglas(e) \/ RestaurarReglas(e)
    \/ VencerReglas \/ ConfirmarReglas

SpecReglas == InitReglas /\ [][NextReglas]_varsReglas

-----------------------------------------------------------------------------
\* The types of the firewall's copy and executions.
TypeOKReglas ==
    /\ {reglas, respaldo} \subseteq Conjuntos /\ elegidas \subseteq Conjuntos
    /\ temporizador \in BOOLEAN /\ unaAUna \in BOOLEAN
    /\ orden \in
         [Ejecucion -> [paso : {"libre", "parar", "armar", "cargar", "deshacer", "vaciar",
                                "restaurar"},
                        reglas : Reglas \cup {DeFabrica}]]

\* Rules nobody confirmed do not stay (k0pot-nft.sh:112, 134): when nothing
\* runs and no timer is armed, the rules loaded are the ones somebody confirmed
\* or went back to, even if the load fails, the timer cannot be armed, or the
\* confirmation comes when the timer has fired: then they may be those of
\* before.  It needs each order to wait for the one before to be settled, and
\* the margin to be longer than the load.
ReglasVuelven ==
    unaAUna /\ ~ temporizador /\ (\A e \in Ejecucion : EnPaso(e, "libre"))
        => reglas \in elegidas

-----------------------------------------------------------------------------
\* What ReglasVuelven rests on.  Until the new rules are loaded, the ones in
\* use are the copy; while a timer is armed or somebody goes back, the copy is
\* one of those expected; and who goes back has stopped the timer first.
Deshaciendo(e) == orden[e].paso \in {"deshacer", "vaciar", "restaurar"}

UnaOrden ==
    /\ \A e, g \in Orden : ~ EnPaso(e, "libre") /\ ~ EnPaso(g, "libre") => e = g
    /\ EnPaso(Servicio, "libre") \/ Deshaciendo(Servicio)
    /\ \A e \in Orden : orden[e].paso \in {"parar", "armar", "cargar"} =>
         /\ EnPaso(Servicio, "libre") /\ temporizador = EnPaso(e, "cargar")
         /\ reglas = respaldo /\ respaldo \in elegidas

DondeVuelven ==
    /\ temporizador => respaldo \in elegidas
    /\ \A e \in Ejecucion : Deshaciendo(e) =>
         /\ respaldo \in elegidas
         /\ ~ EnPaso(e, "deshacer") => ~ temporizador
         /\ EnPaso(e, "restaurar") => reglas \in {Abierto, respaldo}
    /\ ~ temporizador /\ (\A e \in Ejecucion : EnPaso(e, "libre")) => reglas \in elegidas

\* The inductive invariant of PanelPruebas.
InductivoReglas == TypeOKReglas /\ (unaAUna => UnaOrden /\ DondeVuelven)
=============================================================================
