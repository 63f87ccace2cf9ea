----------------------------- MODULE Supervisor -----------------------------
(***************************************************************************)
(* The trap supervisor: one goroutine per native honeypot, started and     *)
(* stopped as the configuration asks, all under one mutex.                 *)
(*                                                                         *)
(* Four kinds of actors meet here.  Maintenance calls Aplicar in every     *)
(* cycle.  Each trap's goroutine listens and, if it cannot, takes the      *)
(* mutex to strike itself off.  The main goroutine calls Parar when the    *)
(* process is told to stop and maintenance has ended.  The panel changes   *)
(* the configuration whenever it likes.                                    *)
(*                                                                         *)
(* An address stands for an interface and a port; a trap that is switched  *)
(* off wants the address Nada.                                             *)
(***************************************************************************)
EXTENDS Integers, Sequences, FiniteSets

CONSTANTS
  Trampa,          \* the traps this binary has
  Disponibles,     \* the same, in the order Aplicar visits them
  Direccion,       \* addresses a trap can listen on
  Nada,            \* the "address" of a trap that is off
  Tarea,           \* bound: goroutines alive or not yet collected
  Configuraciones, \* bound: configurations the panel may save
  Ajenas,          \* addresses that other programs of the machine may hold
  MaxCambios,      \* bound: saves, and comings and goings of other programs
  PausaLarga       \* the 30 s between cycles outlast a Listen and a Lock

ASSUME OrdenAssumption ==
  /\ Disponibles \in Seq(Trampa) /\ Len(Disponibles) > 0
  /\ \A a \in Trampa : \E i \in 1..Len(Disponibles) : Disponibles[i] = a
ASSUME DireccionAssumption ==
  /\ Nada \notin Direccion /\ Direccion # {}
  /\ Configuraciones \subseteq [Trampa -> Direccion \cup {Nada}]
  /\ Ajenas \subseteq Direccion
ASSUME CotasAssumption == MaxCambios \in Nat /\ PausaLarga \in BOOLEAN

VARIABLES
  deseado,     \* what the configuration asks: trap -> address
  ajenas,      \* addresses other programs hold now
  cambios,     \* how often either has changed
  tarea,       \* the goroutines
  corriendo,   \* s.corriendo: trap -> its goroutine
  ultimoErr,   \* s.ultimoErr: traps with an error
  mu,          \* who holds s.mu
  mant, turno, \* maintenance: where it is, and the trap Aplicar is at
  pedido,      \* the configuration this Aplicar was given
  fin, cual,   \* the main goroutine: where it is, the trap Parar is at
  senal        \* the context of the process is cancelled

panel == <<deseado, ajenas, cambios>>
sup == <<tarea, corriendo, ultimoErr>>
aplica == <<mant, turno, pedido>>
para == <<fin, cual>>
vars == <<panel, sup, mu, aplica, para, senal>>

Fase == {"arrancando", "escuchando", "fallida", "terminada"}
Goroutine == [trampa : Trampa, dir : Direccion, fase : Fase, cancelada : BOOLEAN]

TypeOK ==
  /\ deseado \in Configuraciones /\ pedido \in Configuraciones
  /\ ajenas \subseteq Ajenas
  /\ cambios \in 0..MaxCambios
  /\ tarea \in [Tarea -> Goroutine]
  /\ DOMAIN corriendo \subseteq Trampa
  /\ corriendo \in [DOMAIN corriendo -> Tarea]
  /\ ultimoErr \subseteq Trampa
  /\ mu \in {"libre", "mantenimiento", "principal"}
  /\ mant \in {"ocupado", "aplicando", "esperando", "dormido", "fin"}
  /\ turno \in 1..(Len(Disponibles) + 1)
  /\ fin \in {"sirviendo", "parando", "esperando", "fin"}
  /\ cual \in Trampa
  /\ senal \in BOOLEAN

Init ==
  /\ deseado \in Configuraciones /\ pedido = deseado
  /\ ajenas = {} /\ cambios = 0
  /\ tarea = [t \in Tarea |->
                [trampa |-> Disponibles[1], dir |-> CHOOSE d \in Direccion : TRUE,
                 fase |-> "terminada", cancelada |-> FALSE]]
  /\ cual = Disponibles[1]
  /\ corriendo = [a \in {} |-> 0] /\ ultimoErr = {}
  /\ mu = "libre" /\ mant = "ocupado" /\ turno = 1 /\ fin = "sirviendo"
  /\ senal = FALSE

-----------------------------------------------------------------------------
(* The goroutine of a trap: Servir, and what follows when it fails. *)

Viva(t) == tarea[t].fase # "terminada"
Ocupada(d) ==
  \/ d \in ajenas
  \/ \E t \in Tarea : tarea[t].fase = "escuchando" /\ tarea[t].dir = d

Escuchar(t) ==
  /\ tarea[t].fase = "arrancando"
  /\ tarea' = [tarea EXCEPT ![t].fase = IF Ocupada(tarea[t].dir) THEN "fallida"
                                                                 ELSE "escuchando"]
  /\ UNCHANGED <<panel, corriendo, ultimoErr, mu, aplica, para, senal>>

(* A cancelled context closes the listener; Servir ends without error. *)
Cerrar(t) ==
  /\ tarea[t].fase = "escuchando"
  /\ tarea[t].cancelada \/ senal
  /\ tarea' = [tarea EXCEPT ![t].fase = "terminada"]
  /\ UNCHANGED <<panel, corriendo, ultimoErr, mu, aplica, para, senal>>

Sin(id) == [a \in DOMAIN corriendo \ {id} |-> corriendo[a]]

(* A failed one needs the mutex before it can close "hecho". *)
Retirarse(t) ==
  /\ tarea[t].fase = "fallida"
  /\ mu = "libre"
  /\ ultimoErr' = ultimoErr \cup {tarea[t].trampa}
  /\ corriendo' = Sin(tarea[t].trampa)
  /\ tarea' = [tarea EXCEPT ![t].fase = "terminada"]
  /\ UNCHANGED <<panel, mu, aplica, para, senal>>

-----------------------------------------------------------------------------
(* Aplicar, one trap after the other, with the mutex held throughout. *)

Libre == {t \in Tarea : ~ Viva(t) /\ \A a \in DOMAIN corriendo : corriendo[a] # t}

(* go func() ...; the fresh goroutine replaces whatever "corriendo" says. *)
Arrancar(id) ==
  \E t \in Libre :
    /\ tarea' = [tarea EXCEPT ![t] = [trampa |-> id, dir |-> pedido[id],
                                      fase |-> "arrancando", cancelada |-> FALSE]]
    /\ corriendo' = [a \in DOMAIN corriendo \cup {id} |->
                       IF a = id THEN t ELSE corriendo[a]]
    /\ ultimoErr' = ultimoErr \ {id}

Cancelar(id) == tarea' = [tarea EXCEPT ![corriendo[id]].cancelada = TRUE]
Hecho(id) == ~ Viva(corriendo[id])

Aplicar ==
  /\ mant = "ocupado" /\ mu = "libre"
  /\ mu' = "mantenimiento" /\ mant' = "aplicando" /\ turno' = 1
  /\ pedido' = deseado
  /\ UNCHANGED <<panel, sup, para, senal>>

Visitando == mant = "aplicando" /\ turno <= Len(Disponibles)
Id == Disponibles[turno]
EnPie == Id \in DOMAIN corriendo
(* Mutant: a trap is only touched when it is switched off, not when its
   address changes. *)
SobraSiApagada == EnPie /\ pedido[Id] = Nada
Sobra == EnPie /\ tarea[corriendo[Id]].dir # pedido[Id]
Falta == ~ EnPie /\ pedido[Id] # Nada

VisitarDeja ==
  /\ Visitando /\ ~ Sobra /\ ~ Falta
  /\ turno' = turno + 1
  /\ UNCHANGED <<panel, sup, mu, mant, pedido, para, senal>>

VisitarArranca ==
  /\ Visitando /\ Falta
  /\ Arrancar(Id)
  /\ turno' = turno + 1
  /\ UNCHANGED <<panel, mu, mant, pedido, para, senal>>

VisitarCancela ==
  /\ Visitando /\ Sobra
  /\ Cancelar(Id)
  /\ mant' = "esperando"
  /\ UNCHANGED <<panel, corriendo, ultimoErr, mu, turno, pedido, para, senal>>

(* Mutant: the trap is replaced without waiting for its goroutine. *)
RecogerSinEsperar ==
  /\ mant = "esperando"
  /\ IF pedido[Id] = Nada
       THEN corriendo' = Sin(Id) /\ UNCHANGED <<tarea, ultimoErr>>
       ELSE Arrancar(Id)
  /\ mant' = "aplicando" /\ turno' = turno + 1
  /\ UNCHANGED <<panel, mu, pedido, para, senal>>

(* <-actual.hecho, and then the fallthrough. *)
VisitarRecoge ==
  /\ mant = "esperando"
  /\ Hecho(Id)
  /\ IF pedido[Id] = Nada
       THEN corriendo' = Sin(Id) /\ UNCHANGED <<tarea, ultimoErr>>
       ELSE Arrancar(Id)
  /\ mant' = "aplicando" /\ turno' = turno + 1
  /\ UNCHANGED <<panel, mu, pedido, para, senal>>

AplicarAcaba ==
  /\ mant = "aplicando" /\ turno > Len(Disponibles)
  /\ mu' = "libre" /\ mant' = "dormido"
  /\ UNCHANGED <<panel, sup, turno, pedido, para, senal>>

(* The select at the end of the cycle. *)
Despertar ==
  /\ mant = "dormido" /\ ~ senal
  /\ PausaLarga => \A t \in Tarea : tarea[t].fase \notin {"arrancando", "fallida"}
  /\ mant' = "ocupado"
  /\ UNCHANGED <<panel, sup, mu, turno, pedido, para, senal>>

MantenimientoAcaba ==
  /\ mant = "dormido" /\ senal
  /\ mant' = "fin"
  /\ UNCHANGED <<panel, sup, mu, turno, pedido, para, senal>>

-----------------------------------------------------------------------------
(* Parar, deferred in ejecutar: grupo.Wait comes first. *)

(* Mutant: Parar does not wait for maintenance to end. *)
PararSinEsperar ==
  /\ fin = "sirviendo" /\ senal /\ mu = "libre"
  /\ mu' = "principal" /\ fin' = "parando"
  /\ UNCHANGED <<panel, sup, aplica, cual, senal>>

PararEmpieza ==
  /\ fin = "sirviendo" /\ senal /\ mant = "fin" /\ mu = "libre"
  /\ mu' = "principal" /\ fin' = "parando"
  /\ UNCHANGED <<panel, sup, aplica, cual, senal>>

PararCancela ==
  /\ fin = "parando"
  /\ \E id \in DOMAIN corriendo : Cancelar(id) /\ cual' = id
  /\ fin' = "esperando"
  /\ UNCHANGED <<panel, corriendo, ultimoErr, mu, aplica, senal>>

PararRecoge ==
  /\ fin = "esperando"
  /\ Hecho(cual)
  /\ corriendo' = Sin(cual)
  /\ fin' = "parando"
  /\ UNCHANGED <<panel, tarea, ultimoErr, mu, aplica, cual, senal>>

PararAcaba ==
  /\ fin = "parando" /\ DOMAIN corriendo = {}
  /\ mu' = "libre" /\ fin' = "fin"
  /\ UNCHANGED <<panel, sup, aplica, cual, senal>>

-----------------------------------------------------------------------------
(* What comes from outside. *)

Configurar(c) ==
  /\ cambios < MaxCambios
  /\ cambios' = cambios + 1
  /\ deseado' = c
  /\ UNCHANGED <<ajenas, sup, mu, aplica, para, senal>>

CambiarAjenas(a) ==
  /\ cambios < MaxCambios
  /\ cambios' = cambios + 1
  /\ \A d \in a \ ajenas : ~ Ocupada(d)
  /\ ajenas' = a
  /\ UNCHANGED <<deseado, sup, mu, aplica, para, senal>>

Terminar ==
  /\ ~ senal
  /\ senal' = TRUE
  /\ UNCHANGED <<panel, sup, mu, aplica, para>>

-----------------------------------------------------------------------------
Mantenimiento ==
  \/ Aplicar \/ VisitarDeja \/ VisitarArranca \/ VisitarCancela \/ VisitarRecoge
  \/ AplicarAcaba \/ Despertar \/ MantenimientoAcaba
Parar == PararEmpieza \/ PararCancela \/ PararRecoge \/ PararAcaba

Next ==
  \/ \E t \in Tarea : Escuchar(t) \/ Cerrar(t) \/ Retirarse(t)
  \/ Mantenimiento \/ Parar
  \/ \E c \in Configuraciones : Configurar(c)
  \/ \E a \in SUBSET Ajenas : CambiarAjenas(a)
  \/ Terminar

Spec == Init /\ [][Next]_vars

(* Goroutines are scheduled, and Go's mutex starves nobody. *)
Justicia ==
  /\ \A t \in Tarea : /\ WF_vars(Escuchar(t)) /\ WF_vars(Cerrar(t))
                      /\ SF_vars(Retirarse(t))
  /\ WF_vars(Mantenimiento) /\ SF_vars(Aplicar)
  /\ WF_vars(Parar) /\ SF_vars(PararEmpieza)

SpecViva == Spec /\ Justicia

-----------------------------------------------------------------------------
(* Nobody is out of reach: a goroutine that lives is the one "corriendo"   *)
(* names for its trap, so Aplicar and Parar can stop it.  In particular a  *)
(* trap never has two goroutines.                                          *)
SinHuerfanas ==
  \A t \in Tarea : Viva(t) => /\ tarea[t].trampa \in DOMAIN corriendo
                              /\ corriendo[tarea[t].trampa] = t

(* What the panel is shown does not contradict itself: a trap that is said *)
(* to be running shows no old error.                                       *)
ErrorOEnPie == ultimoErr \cap DOMAIN corriendo = {}

(* Once Parar has returned no port of ours is open. *)
NingunPuertoAbierto == fin = "fin" => \A t \in Tarea : ~ Viva(t)

(* Aplicar converges: when the configuration rests and nobody else holds   *)
(* the ports, every trap ends up listening where it was asked to, and the  *)
(* ones switched off end up gone.                                          *)
EnPieLoPedido ==
  \A id \in Trampa :
    IF deseado[id] = Nada
      THEN id \notin DOMAIN corriendo
      ELSE \E t \in Tarea : tarea[t].trampa = id /\ tarea[t].fase = "escuchando"
                              /\ tarea[t].dir = deseado[id]

Converge == <>[](~ senal /\ ajenas = {}) => <>[]EnPieLoPedido

-----------------------------------------------------------------------------
(* The inductive invariant behind SinHuerfanas and NingunPuertoAbierto. *)

Registrada == \A a \in DOMAIN corriendo : tarea[corriendo[a]].trampa = a

(* Who is inside Aplicar or Parar holds the mutex, and Parar comes after   *)
(* maintenance.                                                            *)
Turnos ==
  /\ mant \in {"aplicando", "esperando"} => mu = "mantenimiento"
  /\ mant = "esperando" => turno <= Len(Disponibles) /\ EnPie
  /\ fin \in {"parando", "esperando"} => mu = "principal"
  /\ fin = "esperando" => cual \in DOMAIN corriendo
  /\ fin # "sirviendo" => mant = "fin"
  /\ fin = "fin" => DOMAIN corriendo = {}

Inductivo == TypeOK /\ Registrada /\ Turnos /\ SinHuerfanas /\ ErrorOEnPie

-----------------------------------------------------------------------------
(* What the code says of itself and does not do. *)

(* "Parar detiene todas las trampas": once the process is told to stop, it *)
(* does.                                                                   *)
PararTermina == senal ~> (fin = "fin")

=============================================================================
