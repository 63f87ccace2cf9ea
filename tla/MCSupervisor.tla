---------------------------- MODULE MCSupervisor ----------------------------
(* Two traps, two addresses, every configuration that gives each trap an   *)
(* address of its own.                                                     *)
EXTENDS Supervisor

MCDisponibles == <<"http", "redis">>
MCConfiguraciones ==
  {c \in [Trampa -> Direccion \cup {Nada}] :
     \A a, b \in Trampa : (a # b /\ c[a] = c[b]) => c[a] = Nada}
=============================================================================
