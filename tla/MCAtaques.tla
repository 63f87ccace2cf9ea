----------------------------- MODULE MCAtaques -----------------------------
(***************************************************************************)
(* Instances of Ataques: events mild (a bare connection, an attempt) and   *)
(* grave (a command through a shell).                                      *)
(***************************************************************************)
EXTENDS Ataques

Toque == [tipo |-> "conexion", cebo |-> FALSE, elevado |-> FALSE]
Intento == [tipo |-> "http", cebo |-> FALSE, elevado |-> FALSE]
Orden == [tipo |-> "comando",  cebo |-> FALSE, elevado |-> TRUE]

MCMuestra == {Toque, Orden}
MCEscalada == {Intento, Orden}
=============================================================================
