----------------------------- MODULE CambioDeRed -----------------------------
(***************************************************************************)
(* A change of the addresses that is undone unless somebody confirms it:   *)
(* internal/red, web/red.go and the privileged helper k0pot-red.sh, which  *)
(* keeps one copy of what there was, a witness file and, for each change,  *)
(* a process that sleeps for the margin and then looks at the witness.     *)
(* Every command of the script that touches one of them is a step.         *)
(***************************************************************************)

CONSTANTS Ajuste,        \* configurations of the network
          AjusteMalo,    \* those red.Validar lets through and netplan refuses
          Inicial,       \* what there is before the first change
          Ayudante,      \* executions of the helper at a time
          Margen,        \* bound: processes that wait for a margin at a time
          Nadie          \* what a helper at rest has in hand

VARIABLES
    ayudante,    \* each execution of "aplicar" and "revertir": phase and configuration
    destino, anterior, testigo,   \* DESTINO, COPIA and TESTIGO
    margen,      \* the command each process that wakes up is at
    red,         \* what is applied to the network
    elegida,     \* history: what the operator may expect to have
    deUno        \* history: no order on top of a pending one, and no restart

varsCambio == <<ayudante, destino, anterior, testigo, margen, red, elegida, deUno>>

Quieto == [fase |-> "libre", ajuste |-> Nadie]

InitCambio ==
    /\ ayudante = [h \in Ayudante |-> Quieto]
    /\ destino = Inicial /\ anterior = Inicial /\ red = Inicial
    /\ testigo = FALSE /\ margen = [m \in Margen |-> "nadie"]
    /\ elegida = {Inicial} /\ deUno = TRUE

EnMarcha == \E h \in Ayudante : ayudante[h].fase # "libre"

\* Somebody saw the witness when the margin ended and is undoing the change.
Volviendo == \E m \in Margen : margen[m] \in {"copiar", "aplicar", "borrar"}

EnFase(h, fase) == ayudante[h].fase = fase
Pasa(h, fase) == ayudante' = [ayudante EXCEPT ![h].fase = fase]
Acaba(h) == ayudante' = [ayudante EXCEPT ![h] = Quieto]

-----------------------------------------------------------------------------
(* aplicar.                                                                *)

\* The order comes when the one before is settled.
Suelta == ~ EnMarcha /\ ~ testigo /\ ~ Volviendo

\* Mutant: the new configuration is written before the copy is made.
GuardarRedTarde(h, c) ==
    /\ EnFase(h, "libre")
    /\ anterior' = c
    /\ ayudante' = [ayudante EXCEPT ![h] = [fase |-> "escribir", ajuste |-> c]]
    /\ deUno' = (deUno /\ Suelta)
    /\ UNCHANGED <<destino, testigo, margen, red, elegida>>

\* Keep what there was ...
GuardarRed(h, c) ==
    /\ EnFase(h, "libre")
    /\ anterior' = destino
    /\ ayudante' = [ayudante EXCEPT ![h] = [fase |-> "escribir", ajuste |-> c]]
    /\ deUno' = (deUno /\ Suelta)
    /\ UNCHANGED <<destino, testigo, margen, red, elegida>>

\* ... write the new one ...
EscribirRed(h) ==
    /\ EnFase(h, "escribir")
    /\ destino' = ayudante[h].ajuste
    /\ Pasa(h, "validar")
    /\ UNCHANGED <<anterior, testigo, margen, red, elegida, deUno>>

\* ... have netplan check it: what is wrong is put back at once ...
Rechazar(h) ==
    /\ EnFase(h, "validar") /\ destino \in AjusteMalo
    /\ destino' = anterior
    /\ Acaba(h)
    /\ UNCHANGED <<anterior, testigo, margen, red, elegida, deUno>>

\* ... leave the witness ...
Atestiguar(h) ==
    /\ EnFase(h, "validar") /\ destino \notin AjusteMalo
    /\ testigo' = TRUE
    /\ Pasa(h, "armar")
    /\ UNCHANGED <<destino, anterior, margen, red, elegida, deUno>>

\* ... have somebody wait for the margin ...
Armar(h, m) ==
    /\ EnFase(h, "armar") /\ margen[m] = "nadie"
    /\ margen' = [margen EXCEPT ![m] = "duerme"]
    /\ Pasa(h, "aplicar")
    /\ UNCHANGED <<destino, anterior, testigo, red, elegida, deUno>>

\* ... and apply what is written by then.
AplicarRed(h) ==
    /\ EnFase(h, "aplicar")
    /\ red' = destino
    /\ Acaba(h)
    /\ UNCHANGED <<destino, anterior, testigo, margen, elegida, deUno>>

-----------------------------------------------------------------------------
(* What wakes up when a margin ends, the one of its own change or of       *)
(* another: there is one witness.                                          *)

Despertar(m) ==
    /\ margen[m] = "duerme"
    /\ margen' = [margen EXCEPT ![m] = IF testigo THEN "copiar" ELSE "nadie"]
    /\ UNCHANGED <<ayudante, destino, anterior, testigo, red, elegida, deUno>>

VencidoCopia(m) ==
    /\ margen[m] = "copiar"
    /\ destino' = anterior
    /\ margen' = [margen EXCEPT ![m] = "aplicar"]
    /\ UNCHANGED <<ayudante, anterior, testigo, red, elegida, deUno>>

VencidoAplica(m) ==
    /\ margen[m] = "aplicar"
    /\ red' = destino
    /\ margen' = [margen EXCEPT ![m] = "borrar"]
    /\ UNCHANGED <<ayudante, destino, anterior, testigo, elegida, deUno>>

VencidoBorra(m) ==
    /\ margen[m] = "borrar"
    /\ testigo' = FALSE
    /\ margen' = [margen EXCEPT ![m] = "nadie"]
    /\ UNCHANGED <<ayudante, destino, anterior, red, elegida, deUno>>

-----------------------------------------------------------------------------
(* confirmar and revertir.                                                 *)

\* "confirmado; no habra reversion", whether it comes in time or not: when the
\* witness was seen already, the network goes back all the same.  Without a
\* witness it changes nothing.
Confirmar ==
    /\ testigo
    /\ testigo' = FALSE
    /\ elegida' = IF Volviendo THEN elegida \cup {destino} ELSE {destino}
    /\ UNCHANGED <<ayudante, destino, anterior, margen, red, deUno>>

Revertir(h) ==
    /\ EnFase(h, "libre")
    /\ testigo' = FALSE
    /\ elegida' = {anterior}
    /\ Pasa(h, "deshacer")
    /\ deUno' = (deUno /\ ~ EnMarcha)
    /\ UNCHANGED <<destino, anterior, margen, red>>

Deshacer(h) ==
    /\ EnFase(h, "deshacer")
    /\ destino' = anterior
    /\ Pasa(h, "aplicar")
    /\ UNCHANGED <<anterior, testigo, margen, red, elegida, deUno>>

\* The machine starts again: netplan applies what is written, TESTIGO stays,
\* and nobody sleeps any more.
Reiniciar ==
    /\ ayudante' = [h \in Ayudante |-> Quieto]
    /\ margen' = [m \in Margen |-> "nadie"]
    /\ red' = destino
    /\ deUno' = FALSE
    /\ UNCHANGED <<destino, anterior, testigo, elegida>>

NextCambio ==
    \/ \E h \in Ayudante :
         \/ \E c \in Ajuste : GuardarRed(h, c)
         \/ EscribirRed(h) \/ Rechazar(h) \/ Atestiguar(h)
         \/ \E m \in Margen : Armar(h, m)
         \/ AplicarRed(h) \/ Revertir(h) \/ Deshacer(h)
    \/ \E m \in Margen :
         Despertar(m) \/ VencidoCopia(m) \/ VencidoAplica(m) \/ VencidoBorra(m)
    \/ Confirmar \/ Reiniciar

SpecCambio == InitCambio /\ [][NextCambio]_varsCambio

-----------------------------------------------------------------------------
\* The types of the helper's files and processes.
TypeOKCambio ==
    /\ {destino, anterior, red} \subseteq Ajuste \cup {Inicial}
    /\ ayudante \in
         [Ayudante -> [fase : {"libre", "escribir", "validar", "armar", "aplicar", "deshacer"},
                       ajuste : Ajuste \cup {Nadie}]]
    /\ \A h \in Ayudante : EnFase(h, "escribir") => ayudante[h].ajuste \in Ajuste
    /\ margen \in [Margen -> {"nadie", "duerme", "copiar", "aplicar", "borrar"}]
    /\ elegida \subseteq Ajuste \cup {Inicial}
    /\ testigo \in BOOLEAN /\ deUno \in BOOLEAN

\* Nobody is applying anything and no reversion is on its way.
EnReposo == ~ EnMarcha /\ \A m \in Margen : margen[m] = "nadie"

\* Without a confirmation the network goes back by itself (web/red.go:109-110,
\* red.go:8-10): when all is done and no margin is running, the addresses in
\* use are the ones somebody confirmed or went back to, even if an old margin
\* ends in the middle of a new change, if netplan refuses it, or if the
\* confirmation comes while the change is being undone: then they may be those
\* of before.  It needs each order to wait for the one before to be settled
\* and the machine not to start again.
RedVuelve == deUno /\ EnReposo => red \in elegida

-----------------------------------------------------------------------------
\* What RedVuelve rests on.  Until the witness is there the copy is what is in
\* use; while it is, and while somebody undoes the change, the copy is what to
\* go back to; once both are gone what is written is what was chosen.
UnAyudante ==
    /\ \A h, k \in Ayudante : ~ EnFase(h, "libre") /\ ~ EnFase(k, "libre") => h = k
    /\ \A h \in Ayudante : ayudante[h].fase \in {"escribir", "validar"} =>
         ~ testigo /\ ~ Volviendo /\ red = anterior /\ anterior \in elegida
    /\ \A h \in Ayudante : EnFase(h, "escribir") => destino = anterior
    /\ \A h \in Ayudante : EnFase(h, "deshacer") => ~ testigo /\ anterior \in elegida

QuienVuelve ==
    /\ testigo => \/ \E m \in Margen : margen[m] # "nadie"
                  \/ \E h \in Ayudante : EnFase(h, "armar")
    /\ \A m \in Margen :
         /\ margen[m] \in {"aplicar", "borrar"} => destino = anterior
         /\ margen[m] = "borrar" => red = destino

DondeVuelve ==
    /\ testigo \/ Volviendo => anterior \in elegida
    /\ ~ testigo /\ ~ Volviendo =>
         \/ destino \in elegida
         \/ \E h \in Ayudante : EnFase(h, "validar") \/ EnFase(h, "deshacer")
    /\ ~ EnMarcha /\ ~ Volviendo => red = destino

\* The inductive invariant of PanelPruebas.
InductivoCambio == TypeOKCambio /\ (deUno => UnAyudante /\ QuienVuelve /\ DondeVuelve)
=============================================================================
