--------------------------- MODULE MCEnriquecedor ---------------------------
(* Small instances of Enriquecedor: what an event says, what the API knows. *)
EXTENDS Enriquecedor

CONSTANTS a, b, c, k1, k2

De(tipo, sinShell) ==
    [tipo |-> tipo, cebo |-> FALSE, sinShell |-> sinShell, patron |-> FALSE,
     exploit |-> "no", credenciales |-> FALSE, rutaRara |-> FALSE]

MCSsh == {De("login_fallido", FALSE)}
MCHechos == {De("login_fallido", FALSE), De("comando_ejecutado", FALSE)}
MCMalo == {[enriquecido |-> TRUE, tor |-> FALSE, reputacion |-> 75]}
MCSiempre == {[activo |-> TRUE, clave |-> k1]}
MCEncenderApagar == {[activo |-> x, clave |-> k1] : x \in BOOLEAN}
MCDosClaves == MCEncenderApagar \cup {[activo |-> TRUE, clave |-> k2]}
=============================================================================
