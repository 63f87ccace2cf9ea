------------------------- MODULE MCAtaquesRevisados -------------------------
(* One pair and bare connections: what changes is the classifier's verdict. *)
EXTENDS AtaquesRevisados

MCMuestra == {[tipo |-> "conexion", cebo |-> FALSE, elevado |-> FALSE]}
=============================================================================
