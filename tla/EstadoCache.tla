----------------------------- MODULE EstadoCache -----------------------------
(***************************************************************************)
(* The two caches of the panel (web/estado_cache.go, web.go: estado,       *)
(* web/intel_cache.go).  The summary of a range of days is computed by its *)
(* first visitor or by the warm-up; afterwards it is served as it is, and  *)
(* a visitor who finds it stale has it computed again in the background.   *)
(* Computing takes time and is done without the lock.                      *)
(***************************************************************************)
EXTENDS Naturals

CONSTANTS Rango,        \* ranges that are asked for
          Calculo,      \* computations that may run at a time
          Frescura,     \* ticks after which a summary is stale
          MaxDatos,     \* bound: changes of the database
          MaxErrores    \* bound: computations that fail

ASSUME EstadoAssumption ==
    Frescura \in Nat /\ MaxDatos \in Nat \ {0} /\ MaxErrores \in Nat

VARIABLES
    datos,       \* how many changes the database has seen
    porRango,    \* each range: what is stored, its age, refrescando; or nothing
    calculo,     \* each computation: for whom, of which range, with what data
    precalentar, \* ranges the warm-up has not reached
    intel,       \* what the intelligence was computed with; 0, nothing
    errores

varsEstado == <<datos, porRango, calculo, precalentar, intel, errores>>

Ninguno == [hay |-> FALSE, con |-> 0, edad |-> 0, refrescando |-> FALSE]
Entrada(v) == [hay |-> TRUE, con |-> v, edad |-> 0, refrescando |-> FALSE]
Parado == [de |-> "nadie", rango |-> "ninguno", con |-> 0]

InitEstado ==
    /\ datos = 1
    /\ porRango = [d \in Rango |-> Ninguno]
    /\ calculo = [k \in Calculo |-> Parado]
    /\ precalentar = Rango
    /\ intel = 0
    /\ errores = 0

Cambiar ==
    /\ datos < MaxDatos
    /\ datos' = datos + 1
    /\ UNCHANGED <<porRango, calculo, precalentar, intel, errores>>

Calculando(quien, d) == \E k \in Calculo : calculo[k].de = quien /\ calculo[k].rango = d

\* estado, when nothing is stored: the visitor computes.
PedirEnFrio(k, d) ==
    /\ ~porRango[d].hay /\ calculo[k] = Parado
    /\ calculo' = [calculo EXCEPT ![k] = [de |-> "visita", rango |-> d, con |-> datos]]
    /\ UNCHANGED <<datos, porRango, precalentar, intel, errores>>

\* estado, when what is stored is stale: it is served, and refrescarEnFondo
\* starts a computation unless one is under way.
PedirPasado(k, d) ==
    /\ porRango[d].hay /\ porRango[d].edad > Frescura
    /\ ~porRango[d].refrescando /\ calculo[k] = Parado
    /\ porRango' = [porRango EXCEPT ![d].refrescando = TRUE]
    /\ calculo' = [calculo EXCEPT ![k] = [de |-> "fondo", rango |-> d, con |-> datos]]
    /\ UNCHANGED <<datos, precalentar, intel, errores>>

\* IniciarCacheEstado: one range after another, whatever is stored already.
Precalentar(k, d) ==
    /\ d \in precalentar /\ calculo[k] = Parado
    /\ \A r \in Rango : ~Calculando("arranque", r)
    /\ precalentar' = precalentar \ {d}
    /\ calculo' = [calculo EXCEPT ![k] = [de |-> "arranque", rango |-> d, con |-> datos]]
    /\ UNCHANGED <<datos, porRango, intel, errores>>

\* Whoever computed stores a new entry, with the time of the end.
Acierto(k) ==
    /\ calculo[k] # Parado
    /\ porRango' = [porRango EXCEPT ![calculo[k].rango] = Entrada(calculo[k].con)]
    /\ calculo' = [calculo EXCEPT ![k] = Parado]
    /\ UNCHANGED <<datos, precalentar, intel, errores>>

\* Mutant: the failure does not let go.
FalloSinSoltar(k) ==
    /\ calculo[k] # Parado /\ errores < MaxErrores
    /\ errores' = errores + 1
    /\ calculo' = [calculo EXCEPT ![k] = Parado]
    /\ UNCHANGED <<datos, porRango, precalentar, intel>>

\* A failed one stores nothing; in the background it also lets go of the
\* entry that is there by then, so that the next visitor tries again.
Fallo(k) ==
    /\ calculo[k] # Parado /\ errores < MaxErrores
    /\ errores' = errores + 1
    /\ porRango' = IF calculo[k].de = "fondo" /\ porRango[calculo[k].rango].hay
                   THEN [porRango EXCEPT ![calculo[k].rango].refrescando = FALSE]
                   ELSE porRango
    /\ calculo' = [calculo EXCEPT ![k] = Parado]
    /\ UNCHANGED <<datos, precalentar, intel>>

\* recalcular, every few minutes: an error of the database publishes nothing
\* in the place of what there was.
RecalcularIntel ==
    /\ intel' = datos
    /\ UNCHANGED <<datos, porRango, calculo, precalentar, errores>>
IntelVacia ==
    /\ errores < MaxErrores
    /\ errores' = errores + 1
    /\ intel' = 0
    /\ UNCHANGED <<datos, porRango, calculo, precalentar>>

Envejecer ==
    /\ \E d \in Rango : porRango[d].hay /\ porRango[d].edad <= Frescura
    /\ porRango' = [d \in Rango |->
         IF porRango[d].hay /\ porRango[d].edad <= Frescura
         THEN [porRango[d] EXCEPT !.edad = @ + 1] ELSE porRango[d]]
    /\ UNCHANGED <<datos, calculo, precalentar, intel, errores>>

PedirRango(d) == \E k \in Calculo : PedirEnFrio(k, d) \/ PedirPasado(k, d)

NextEstado ==
    \/ Cambiar \/ Envejecer \/ RecalcularIntel \/ IntelVacia
    \/ \E k \in Calculo :
         \/ \E d \in Rango : PedirEnFrio(k, d) \/ PedirPasado(k, d) \/ Precalentar(k, d)
         \/ Acierto(k) \/ Fallo(k)

SpecEstado == InitEstado /\ [][NextEstado]_varsEstado

\* The web page asks for its range every few seconds, a computation ends, and
\* the loop of the intelligence goes on.
JustoEstado ==
    /\ WF_varsEstado(Envejecer)
    /\ WF_varsEstado(RecalcularIntel)
    /\ \A d \in Rango : WF_varsEstado(PedirRango(d))
    /\ \A k \in Calculo : WF_varsEstado(Acierto(k))

-----------------------------------------------------------------------------
\* The entries, the computations under way and the intelligence have their
\* types, and nothing shows or carries data the database has not seen.
TypeOKEstado ==
    /\ datos \in 1..MaxDatos /\ intel \in 0..datos /\ precalentar \subseteq Rango
    /\ porRango \in [Rango -> [hay : BOOLEAN, con : 0..datos, edad : 0..(Frescura + 1),
                               refrescando : BOOLEAN]]
    /\ calculo \in [Calculo -> {Parado} \cup [de : {"visita", "fondo", "arranque"},
                                              rango : Rango, con : 1..datos]]
    /\ errores \in 0..MaxErrores

\* A range that the panel keeps asking for, and the intelligence, get to show
\* what the database has once it stops changing: neither a failed computation, nor the warm-up
\* or a slow first visitor that overwrites the entry being refreshed, leaves a
\* summary stale for ever (estado_cache.go:61-85).
TodoSeRefresca ==
    /\ \A d \in Rango : []<>(porRango[d].hay /\ porRango[d].con = datos)
    /\ []<>(intel = datos)
=============================================================================
