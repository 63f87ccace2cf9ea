-------------------------- MODULE SupervisorPruebas --------------------------
(***************************************************************************)
(* Proofs about Supervisor, for any traps, addresses and configurations:   *)
(* no goroutine is ever out of reach, and Parar leaves no port open.       *)
(***************************************************************************)
EXTENDS Supervisor, TLAPS

(* Nothing runs at the start, and nobody holds the mutex. *)
LEMMA Iniciales == Init => Inductivo
<1> SUFFICES ASSUME Init PROVE Inductivo
  OBVIOUS
<1>1. Disponibles[1] \in Trampa /\ Len(Disponibles) \in Nat
  BY OrdenAssumption
<1>2. (CHOOSE d \in Direccion : TRUE) \in Direccion
  BY DireccionAssumption
<1>3. corriendo \in [{} -> Tarea] /\ DOMAIN corriendo = {}
  BY DEF Init
<1>4. TypeOK
  <2>1. PICK d \in Direccion : d = CHOOSE x \in Direccion : TRUE
    BY <1>2
  <2>2. tarea = [t \in Tarea |-> [trampa |-> Disponibles[1], dir |-> d,
                                 fase |-> "terminada", cancelada |-> FALSE]]
    BY <2>1 DEF Init
  <2>3. tarea \in [Tarea -> Goroutine]
    BY <1>1, <2>2 DEF Goroutine, Fase
  <2>4. turno \in 1..(Len(Disponibles) + 1) /\ cambios \in 0..MaxCambios
    BY <1>1, CotasAssumption DEF Init
  <2> QED
    BY <1>1, <1>3, <2>3, <2>4 DEF Init, TypeOK
<1>5. \A t \in Tarea : ~ Viva(t)
  BY DEF Init, Viva
<1> QED
  BY <1>3, <1>4, <1>5
  DEF Init, Inductivo, Registrada, Turnos, SinHuerfanas, ErrorOEnPie

(* The step that matters: starting a trap whose predecessor is not alive   *)
(* keeps every goroutine registered.                                       *)
LEMMA ArrancarConserva ==
  ASSUME TypeOK, Registrada, SinHuerfanas, ErrorOEnPie,
         NEW id \in Trampa, pedido[id] # Nada, Arrancar(id),
         id \in DOMAIN corriendo => ~ Viva(corriendo[id])
  PROVE  /\ tarea' \in [Tarea -> Goroutine]
         /\ DOMAIN corriendo' \subseteq Trampa
         /\ corriendo' \in [DOMAIN corriendo' -> Tarea]
         /\ ultimoErr' \subseteq Trampa
         /\ Registrada' /\ SinHuerfanas' /\ ErrorOEnPie'
         /\ DOMAIN corriendo \subseteq DOMAIN corriendo'
<1>1. PICK t \in Libre :
        /\ tarea' = [tarea EXCEPT ![t] = [trampa |-> id, dir |-> pedido[id],
                                          fase |-> "arrancando", cancelada |-> FALSE]]
        /\ corriendo' = [a \in DOMAIN corriendo \cup {id} |->
                           IF a = id THEN t ELSE corriendo[a]]
        /\ ultimoErr' = ultimoErr \ {id}
  BY DEF Arrancar
<1>2. /\ t \in Tarea /\ ~ Viva(t) /\ \A a \in DOMAIN corriendo : corriendo[a] # t
      /\ pedido[id] \in Direccion
  BY <1>1, DireccionAssumption DEF Libre, TypeOK
<1>3. tarea' \in [Tarea -> Goroutine]
  BY <1>1, <1>2 DEF TypeOK, Goroutine, Fase
<1>4. corriendo' \in [DOMAIN corriendo' -> Tarea] /\ DOMAIN corriendo' = DOMAIN corriendo \cup {id}
  BY <1>1, <1>2 DEF TypeOK
<1>5. Registrada'
  BY <1>1, <1>2, <1>4 DEF Registrada, TypeOK
<1>6. SinHuerfanas'
  <2> SUFFICES ASSUME NEW u \in Tarea, Viva(u)'
               PROVE  /\ tarea'[u].trampa \in DOMAIN corriendo'
                      /\ corriendo'[tarea'[u].trampa] = u
    BY DEF SinHuerfanas
  <2>1. CASE u = t
    <3>1. tarea'[u].trampa = id
      BY <1>1, <1>2, <2>1 DEF TypeOK
    <3> QED
      BY <1>1, <2>1, <3>1
  <2>2. CASE u # t
    <3>1. tarea'[u] = tarea[u]
      BY <1>1, <2>2 DEF TypeOK
    <3>2. Viva(u)
      BY <3>1 DEF Viva
    <3>3. tarea[u].trampa \in DOMAIN corriendo /\ corriendo[tarea[u].trampa] = u
      BY <3>2 DEF SinHuerfanas
    <3>4. tarea[u].trampa # id
      BY <3>2, <3>3
    <3> QED
      BY <1>1, <3>1, <3>3, <3>4
  <2> QED
    BY <2>1, <2>2
<1>7. ErrorOEnPie' /\ ultimoErr' \subseteq Trampa
  BY <1>1, <1>4 DEF ErrorOEnPie, TypeOK
<1> QED
  BY <1>3, <1>4, <1>5, <1>6, <1>7 DEF TypeOK

(* Striking a trap off is safe once its goroutine is not alive. *)
LEMMA SinConserva ==
  ASSUME TypeOK, Registrada, SinHuerfanas, ErrorOEnPie, NEW id,
         id \in DOMAIN corriendo => ~ Viva(corriendo[id]),
         corriendo' = Sin(id), UNCHANGED <<tarea, ultimoErr>>
  PROVE  /\ DOMAIN corriendo' = DOMAIN corriendo \ {id}
         /\ corriendo' \in [DOMAIN corriendo' -> Tarea]
         /\ Registrada' /\ SinHuerfanas' /\ ErrorOEnPie'
<1>1. /\ DOMAIN corriendo' = DOMAIN corriendo \ {id}
      /\ \A a \in DOMAIN corriendo' : corriendo'[a] = corriendo[a]
      /\ corriendo' = [a \in DOMAIN corriendo \ {id} |-> corriendo[a]]
  BY DEF Sin
<1>2. corriendo' \in [DOMAIN corriendo' -> Tarea]
  BY <1>1 DEF TypeOK
<1>3. SinHuerfanas'
  <2> SUFFICES ASSUME NEW t \in Tarea, Viva(t)
               PROVE  /\ tarea[t].trampa \in DOMAIN corriendo'
                      /\ corriendo'[tarea[t].trampa] = t
    BY DEF SinHuerfanas, Viva
  <2>1. tarea[t].trampa \in DOMAIN corriendo /\ corriendo[tarea[t].trampa] = t
    BY DEF SinHuerfanas
  <2>2. tarea[t].trampa # id
    BY <2>1
  <2> QED
    BY <1>1, <2>1, <2>2
<1>4. Registrada' /\ ErrorOEnPie'
  BY <1>1 DEF Registrada, ErrorOEnPie
<1> QED
  BY <1>1, <1>2, <1>3, <1>4

(* Changing the phase or the context of goroutines that stay what they are *)
(* is safe as long as none comes to life.                                  *)
LEMMA FaseConserva ==
  ASSUME TypeOK, Registrada, SinHuerfanas, ErrorOEnPie, NEW t \in Tarea, NEW g \in Goroutine,
         tarea' = [tarea EXCEPT ![t] = g], g.trampa = tarea[t].trampa,
         g.fase # "terminada" => Viva(t), UNCHANGED <<corriendo, ultimoErr>>
  PROVE  /\ tarea' \in [Tarea -> Goroutine]
         /\ Registrada' /\ SinHuerfanas' /\ ErrorOEnPie'
<1>1. \A u \in Tarea : tarea'[u] = IF u = t THEN g ELSE tarea[u]
  BY DEF TypeOK
<1>2. tarea' \in [Tarea -> Goroutine]
  BY DEF TypeOK
<1>3. \A u \in Tarea : tarea'[u].trampa = tarea[u].trampa /\ (Viva(u)' => Viva(u))
  BY <1>1 DEF Viva
<1>4. Registrada'
  BY <1>3 DEF Registrada, TypeOK
<1>5. SinHuerfanas'
  BY <1>3 DEF SinHuerfanas
<1> QED
  BY <1>2, <1>4, <1>5 DEF ErrorOEnPie

(* At its turn, Aplicar looks at one of the traps. *)
LEMMA IdEsTrampa ==
  ASSUME TypeOK, turno <= Len(Disponibles)
  PROVE  /\ Id \in Trampa /\ pedido[Id] \in Direccion \cup {Nada}
         /\ turno + 1 \in 1..(Len(Disponibles) + 1)
<1>1. turno \in 1..Len(Disponibles) /\ Len(Disponibles) \in Nat
  BY OrdenAssumption DEF TypeOK
<1>2. Id \in Trampa
  BY <1>1, OrdenAssumption DEF Id
<1> QED
  BY <1>1, <1>2, DireccionAssumption DEF TypeOK

(* Every step of Aplicar, Parar, a goroutine or the panel keeps the invariant. *)
LEMMA SeConserva == Inductivo /\ [Next]_vars => Inductivo'
<1> SUFFICES ASSUME Inductivo, [Next]_vars PROVE Inductivo'
  OBVIOUS
<1> USE DEF Inductivo
<1>1. ASSUME NEW t \in Tarea, Escuchar(t) \/ Cerrar(t) PROVE Inductivo'
  <2>1. PICK f \in Fase : /\ tarea' = [tarea EXCEPT ![t].fase = f]
                         /\ Viva(t)
    BY <1>1 DEF Escuchar, Cerrar, Fase, Viva
  <2> DEFINE g == [tarea[t] EXCEPT !.fase = f]
  <2>2. g \in Goroutine /\ g.trampa = tarea[t].trampa /\ tarea' = [tarea EXCEPT ![t] = g]
    BY <2>1 DEF TypeOK, Goroutine
  <2>3. UNCHANGED <<panel, corriendo, ultimoErr, mu, aplica, para, senal>>
    BY <1>1 DEF Escuchar, Cerrar
  <2> HIDE DEF g
  <2>4. tarea' \in [Tarea -> Goroutine] /\ Registrada' /\ SinHuerfanas' /\ ErrorOEnPie'
    BY <2>1, <2>2, <2>3, FaseConserva
  <2>5. TypeOK' /\ Turnos'
    BY <2>3, <2>4 DEF TypeOK, Turnos, EnPie, Id, panel, aplica, para
  <2> QED
    BY <2>4, <2>5
<1>2. ASSUME NEW t \in Tarea, Retirarse(t) PROVE Inductivo'
  <2> DEFINE id == tarea[t].trampa
  <2>1. /\ tarea[t].fase = "fallida" /\ mu = "libre"
        /\ ultimoErr' = ultimoErr \cup {id} /\ corriendo' = Sin(id)
        /\ tarea' = [tarea EXCEPT ![t].fase = "terminada"]
        /\ UNCHANGED <<panel, mu, aplica, para, senal>>
    BY <1>2 DEF Retirarse
  <2>2. id \in Trampa /\ id \in DOMAIN corriendo /\ corriendo[id] = t
    BY <2>1 DEF TypeOK, Goroutine, SinHuerfanas, Viva
  <2>3. /\ tarea' \in [Tarea -> Goroutine]
        /\ \A u \in Tarea : /\ tarea'[u].trampa = tarea[u].trampa
                            /\ Viva(u)' => Viva(u) /\ u # t
    BY <2>1 DEF TypeOK, Goroutine, Fase, Viva
  <2>4. /\ DOMAIN corriendo' = DOMAIN corriendo \ {id}
        /\ \A a \in DOMAIN corriendo' : corriendo'[a] = corriendo[a]
        /\ corriendo' \in [DOMAIN corriendo' -> Tarea]
    BY <2>1 DEF Sin, TypeOK
  <2> HIDE DEF id
  <2>5. Registrada' /\ ErrorOEnPie'
    BY <2>1, <2>3, <2>4 DEF Registrada, ErrorOEnPie, TypeOK
  <2>6. SinHuerfanas'
    BY <2>2, <2>3, <2>4 DEF SinHuerfanas
  <2>7. TypeOK'
    BY <2>1, <2>2, <2>3, <2>4 DEF TypeOK, panel, aplica, para
  <2>8. Turnos'
    BY <2>1, <2>4 DEF Turnos, aplica, para
  <2> QED
    BY <2>5, <2>6, <2>7, <2>8
<1>3. CASE Aplicar \/ AplicarAcaba \/ Despertar \/ MantenimientoAcaba
  <2>1. UNCHANGED <<panel, sup, para, senal>>
    BY <1>3 DEF Aplicar, AplicarAcaba, Despertar, MantenimientoAcaba
  <2>2. TypeOK'
    <3>1. Len(Disponibles) \in Nat
      BY OrdenAssumption
    <3>2. turno' \in 1..(Len(Disponibles) + 1)
      BY <1>3, <3>1 DEF Aplicar, AplicarAcaba, Despertar, MantenimientoAcaba, TypeOK
    <3> QED
      BY <1>3, <2>1, <3>2
      DEF Aplicar, AplicarAcaba, Despertar, MantenimientoAcaba, TypeOK, panel, sup, para
  <2>3. Registrada' /\ SinHuerfanas' /\ ErrorOEnPie'
    BY <2>1 DEF Registrada, SinHuerfanas, ErrorOEnPie, Viva, sup
  <2>4. Turnos'
    BY <1>3, <2>1
    DEF Aplicar, AplicarAcaba, Despertar, MantenimientoAcaba, Turnos, sup, para, TypeOK
  <2> QED
    BY <2>2, <2>3, <2>4
<1>4. CASE VisitarDeja
  <2>1. /\ turno' = turno + 1 /\ mant' = mant /\ mant = "aplicando" /\ turno <= Len(Disponibles)
        /\ UNCHANGED <<panel, sup, mu, pedido, para, senal>>
    BY <1>4 DEF VisitarDeja, Visitando
  <2>2. TypeOK'
    BY <2>1, IdEsTrampa DEF TypeOK, panel, sup, para
  <2>3. Registrada' /\ SinHuerfanas' /\ ErrorOEnPie' /\ Turnos'
    BY <2>1 DEF Registrada, SinHuerfanas, ErrorOEnPie, Viva, Turnos, sup, para
  <2> QED
    BY <2>2, <2>3
<1>5. CASE VisitarArranca
  <2>1. /\ mant = "aplicando" /\ turno <= Len(Disponibles) /\ Id \notin DOMAIN corriendo
        /\ pedido[Id] # Nada /\ Arrancar(Id) /\ turno' = turno + 1
        /\ UNCHANGED <<panel, mu, mant, pedido, para, senal>>
    BY <1>5 DEF VisitarArranca, Visitando, Falta, EnPie
  <2>2. Id \in Trampa /\ turno + 1 \in 1..(Len(Disponibles) + 1)
    BY <2>1, IdEsTrampa
  <2>3. /\ tarea' \in [Tarea -> Goroutine]
        /\ DOMAIN corriendo' \subseteq Trampa /\ corriendo' \in [DOMAIN corriendo' -> Tarea]
        /\ ultimoErr' \subseteq Trampa
        /\ Registrada' /\ SinHuerfanas' /\ ErrorOEnPie'
    BY <2>1, <2>2, ArrancarConserva
  <2>4. TypeOK' /\ Turnos'
    BY <2>1, <2>2, <2>3 DEF TypeOK, Turnos, panel, para
  <2> QED
    BY <2>3, <2>4
<1>6. CASE VisitarCancela
  <2>1. /\ mant = "aplicando" /\ turno <= Len(Disponibles) /\ Id \in DOMAIN corriendo
        /\ Cancelar(Id) /\ mant' = "esperando"
        /\ UNCHANGED <<panel, corriendo, ultimoErr, mu, turno, pedido, para, senal>>
    BY <1>6 DEF VisitarCancela, Visitando, Sobra, EnPie
  <2> DEFINE t == corriendo[Id]
             g == [tarea[t] EXCEPT !.cancelada = TRUE]
  <2>2. /\ t \in Tarea /\ g \in Goroutine /\ g.trampa = tarea[t].trampa
        /\ g.fase # "terminada" => Viva(t)
        /\ tarea' = [tarea EXCEPT ![t] = g]
    BY <2>1 DEF TypeOK, Goroutine, Cancelar, Viva
  <2> HIDE DEF t, g
  <2>3. tarea' \in [Tarea -> Goroutine] /\ Registrada' /\ SinHuerfanas' /\ ErrorOEnPie'
    BY <2>1, <2>2, FaseConserva
  <2>4. TypeOK' /\ Turnos'
    BY <2>1, <2>3 DEF TypeOK, Turnos, EnPie, Id, panel, para
  <2> QED
    BY <2>3, <2>4
<1>7. CASE VisitarRecoge
  <2>1. /\ mant = "esperando" /\ Hecho(Id) /\ turno <= Len(Disponibles) /\ Id \in DOMAIN corriendo
        /\ mant' = "aplicando" /\ turno' = turno + 1
        /\ UNCHANGED <<panel, mu, pedido, para, senal>>
    BY <1>7 DEF VisitarRecoge, Turnos, EnPie
  <2>2. Id \in Trampa /\ turno + 1 \in 1..(Len(Disponibles) + 1)
    BY <2>1, IdEsTrampa
  <2>3. /\ tarea' \in [Tarea -> Goroutine]
        /\ DOMAIN corriendo' \subseteq Trampa /\ corriendo' \in [DOMAIN corriendo' -> Tarea]
        /\ ultimoErr' \subseteq Trampa
        /\ Registrada' /\ SinHuerfanas' /\ ErrorOEnPie'
    <3>1. CASE pedido[Id] = Nada
      <4>1. corriendo' = Sin(Id) /\ UNCHANGED <<tarea, ultimoErr>>
        BY <1>7, <3>1 DEF VisitarRecoge
      <4>2. /\ DOMAIN corriendo' = DOMAIN corriendo \ {Id}
            /\ corriendo' \in [DOMAIN corriendo' -> Tarea]
            /\ Registrada' /\ SinHuerfanas' /\ ErrorOEnPie'
        BY <2>1, <4>1, SinConserva DEF Hecho
      <4> QED
        BY <4>1, <4>2 DEF TypeOK
    <3>2. CASE pedido[Id] # Nada
      <4>1. Arrancar(Id)
        BY <1>7, <3>2 DEF VisitarRecoge
      <4> QED
        BY <2>1, <2>2, <3>2, <4>1, ArrancarConserva DEF Hecho
    <3> QED
      BY <3>1, <3>2
  <2>4. TypeOK' /\ Turnos'
    BY <2>1, <2>2, <2>3 DEF TypeOK, Turnos, panel, para
  <2> QED
    BY <2>3, <2>4
<1>8. CASE PararEmpieza \/ PararAcaba
  <2>1. UNCHANGED <<panel, sup, aplica, cual, senal>>
    BY <1>8 DEF PararEmpieza, PararAcaba
  <2>2. TypeOK' /\ Turnos'
    BY <1>8, <2>1 DEF PararEmpieza, PararAcaba, TypeOK, Turnos, panel, sup, aplica
  <2> QED
    BY <2>1, <2>2 DEF Registrada, SinHuerfanas, ErrorOEnPie, Viva, sup
<1>9. CASE PararCancela
  <2>1. PICK id \in DOMAIN corriendo : Cancelar(id) /\ cual' = id
    BY <1>9 DEF PararCancela
  <2>2. /\ fin = "parando" /\ fin' = "esperando"
        /\ UNCHANGED <<panel, corriendo, ultimoErr, mu, aplica, senal>>
    BY <1>9 DEF PararCancela
  <2> DEFINE t == corriendo[id]
             g == [tarea[t] EXCEPT !.cancelada = TRUE]
  <2>3. /\ t \in Tarea /\ g \in Goroutine /\ g.trampa = tarea[t].trampa
        /\ g.fase # "terminada" => Viva(t)
        /\ tarea' = [tarea EXCEPT ![t] = g]
    BY <2>1 DEF TypeOK, Goroutine, Cancelar, Viva
  <2> HIDE DEF t, g
  <2>4. tarea' \in [Tarea -> Goroutine] /\ Registrada' /\ SinHuerfanas' /\ ErrorOEnPie'
    BY <2>2, <2>3, FaseConserva
  <2>5. TypeOK' /\ Turnos'
    BY <2>1, <2>2, <2>4 DEF TypeOK, Turnos, EnPie, Id, panel, aplica
  <2> QED
    BY <2>4, <2>5
<1>10. CASE PararRecoge
  <2>1. /\ fin = "esperando" /\ Hecho(cual) /\ corriendo' = Sin(cual) /\ fin' = "parando"
        /\ UNCHANGED <<panel, tarea, ultimoErr, mu, aplica, cual, senal>>
    BY <1>10 DEF PararRecoge
  <2>2. /\ DOMAIN corriendo' = DOMAIN corriendo \ {cual}
        /\ corriendo' \in [DOMAIN corriendo' -> Tarea]
        /\ Registrada' /\ SinHuerfanas' /\ ErrorOEnPie'
    BY <2>1, SinConserva DEF Hecho
  <2>3. TypeOK' /\ Turnos'
    BY <2>1, <2>2 DEF TypeOK, Turnos, panel, aplica
  <2> QED
    BY <2>2, <2>3
<1>11. CASE \/ \E c \in Configuraciones : Configurar(c)
            \/ \E a \in SUBSET Ajenas : CambiarAjenas(a)
            \/ Terminar
            \/ UNCHANGED vars
  <2>1. UNCHANGED <<sup, mu, aplica, para>>
    BY <1>11 DEF Configurar, CambiarAjenas, Terminar, vars
  <2>2. deseado' \in Configuraciones /\ ajenas' \subseteq Ajenas /\ senal' \in BOOLEAN
    BY <1>11 DEF Configurar, CambiarAjenas, Terminar, TypeOK, vars, panel
  <2>3. cambios' \in 0..MaxCambios
    BY <1>11, CotasAssumption DEF Configurar, CambiarAjenas, Terminar, TypeOK, vars, panel
  <2>4. TypeOK'
    BY <2>1, <2>2, <2>3 DEF TypeOK, sup, aplica, para
  <2> QED
    BY <2>1, <2>4
    DEF Registrada, SinHuerfanas, ErrorOEnPie, Viva, Turnos, EnPie, Id, sup, aplica, para
<1> QED
  BY <1>1, <1>2, <1>3, <1>4, <1>5, <1>6, <1>7, <1>8, <1>9, <1>10, <1>11
  DEF Next, Mantenimiento, Parar

(* What each goroutine of the supervisor knows fits what the others know,  *)
(* at every point of Aplicar, Parar, Servir and the panel's handlers: the  *)
(* types, the turns of the mutex, and the two properties below.            *)
THEOREM ElSupervisorSeTiene == Spec => []Inductivo
BY Iniciales, SeConserva, PTL DEF Spec

(* A goroutine that lives can always be found, and so stopped, through     *)
(* "corriendo": no interleaving of Aplicar, Parar and a failing Servir     *)
(* loses one.                                                              *)
THEOREM NadieFueraDeAlcance == Spec => []SinHuerfanas
<1>1. Inductivo => SinHuerfanas
  BY DEF Inductivo
<1> QED
  BY <1>1, Iniciales, SeConserva, PTL DEF Spec

(* If Parar returns, it has stopped every trap. *)
THEOREM PararCierraTodo == Spec => []NingunPuertoAbierto
<1>1. Inductivo => NingunPuertoAbierto
  BY DEF Inductivo, Turnos, SinHuerfanas, NingunPuertoAbierto
<1> QED
  BY <1>1, Iniciales, SeConserva, PTL DEF Spec

=============================================================================
