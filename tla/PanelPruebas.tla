----------------------------- MODULE PanelPruebas -----------------------------
(***************************************************************************)
(* Proofs about what the panel does because somebody asked: the period's   *)
(* report and its share of the budget, the accounts and their sessions,    *)
(* the changes of the network and of the firewall that are undone unless   *)
(* confirmed, and the settings, with the key a form that comes without one *)
(* has to keep.                                                            *)
(***************************************************************************)
EXTENDS MCPanel, CuotaLLMPruebas,
        FiniteSetTheorems, SequenceTheorems, WellFoundedInduction, TLAPS

-----------------------------------------------------------------------------
(* The report.                                                             *)

\* The requests between their note and their end are a finite set.
LEMMA EnCursoFinito == IsFiniteSet(EnCurso) /\ Cardinality(EnCurso) \in Nat
<1>1. EnCurso \subseteq Peticion
  BY DEF EnCurso
<1> QED
  BY <1>1, FS_Subset, FS_CardinalityType, InformeAssumption

\* ... also after the step.
LEMMA EnCursoFinitoDespues == Cardinality(EnCurso') \in Nat
<1>1. EnCurso' \subseteq Peticion
  BY DEF EnCurso
<1> QED
  BY <1>1, FS_Subset, FS_CardinalityType, InformeAssumption

\* A request leaves the models' loop once: its text, the rules' fallback or an error.
LEMMA SaleDeCurso ==
    ASSUME TypeOKInforme, NEW r \in Peticion, r \in EnCurso,
           NEW t, t.fase \notin {"eligiendo", "llamando"},
           trabajo' = [trabajo EXCEPT ![r] = t]
    PROVE  /\ Cardinality(EnCurso') = Cardinality(EnCurso) - 1
           /\ Cardinality(EnCurso) > 0
<1>1. EnCurso' = EnCurso \ {r}
  BY DEF EnCurso, TypeOKInforme
<1>2. Cardinality(EnCurso \ {r}) = Cardinality(EnCurso) - 1
  BY EnCursoFinito, FS_RemoveElement
<1> QED
  BY <1>1, <1>2, EnCursoFinito, EnCursoFinitoDespues

\* Whatever stays on its side of the loop does not change the set.
LEMMA SigueEnCurso ==
    ASSUME TypeOKInforme, NEW r \in Peticion, NEW t,
           t.fase \in {"eligiendo", "llamando"} <=> r \in EnCurso,
           trabajo' = [trabajo EXCEPT ![r] = t]
    PROVE  EnCurso' = EnCurso
BY DEF EnCurso, TypeOKInforme

\* Nothing stored, served, noted or under way: the panel has just started.
LEMMA InicioInforme == InitInforme => InductivoInforme
<1> SUFFICES ASSUME InitInforme PROVE InductivoInforme
  OBVIOUS
<1>1. TypeOKInforme /\ LlamaAUno
  BY InformeAssumption
  DEF InitInforme, TypeOKInforme, LlamaAUno, Trabajos, SinInforme, Libre
<1>2. EnCurso = {}
  BY DEF InitInforme, EnCurso, Libre
<1>3. NotasCuadran
  BY <1>2, FS_EmptySet DEF InitInforme, NotasCuadran
<1>4. InformeHonesto
  BY DEF InitInforme, InformeHonesto, SinServir
<1> QED
  BY <1>1, <1>3, <1>4 DEF InductivoInforme

\* The local of one request changes to another of its type.
LEMMA TrabajoSigueBien ==
    ASSUME TypeOKInforme, LlamaAUno, NEW r \in Peticion, NEW t \in Trabajos,
           t.fase = "llamando" => t.i <= Modelos,
           trabajo' = [trabajo EXCEPT ![r] = t]
    PROVE  trabajo' \in [Peticion -> Trabajos] /\ LlamaAUno'
BY DEF TypeOKInforme, LlamaAUno

\* The local once a request has ended.
LEMMA LibreEsTrabajo == Libre \in Trabajos /\ Libre.fase = "libre"
BY InformeAssumption DEF Libre, Trabajos

\* Types are kept by every handler and by every step of the walk over the
\* models: the model a request is at exists while it is being called.
LEMMA PasoTiposInforme ==
    TypeOKInforme /\ LlamaAUno /\ [NextInforme]_varsInforme
      => TypeOKInforme' /\ LlamaAUno'
<1> SUFFICES ASSUME TypeOKInforme, LlamaAUno, [NextInforme]_varsInforme
             PROVE  TypeOKInforme' /\ LlamaAUno'
  OBVIOUS
<1>a. \A r \in Peticion :
        /\ trabajo[r] \in Trabajos
        /\ trabajo[r] = [fase |-> trabajo[r].fase, que |-> trabajo[r].que,
              huella |-> trabajo[r].huella, dias |-> trabajo[r].dias, i |-> trabajo[r].i]
  BY DEF TypeOKInforme, Trabajos
<1>b. ASSUME NEW r \in Peticion, Soltar(r)
      PROVE  trabajo' \in [Peticion -> Trabajos] /\ LlamaAUno'
  BY <1>b, LibreEsTrabajo, TrabajoSigueBien DEF Soltar
<1>1. CASE CambianDatos \/ PasaElRato \/ UNCHANGED varsInforme
  <2>1. LlamaAUno'
    BY <1>1 DEF CambianDatos, PasaElRato, varsInforme, LlamaAUno
  <2>2. CASE PasaElRato
    <3>1. \A m \in 1..Modelos :
            (IF pausa[m] > 0 THEN pausa[m] - 1 ELSE 0) \in 0..MaxPausa
      BY InformeAssumption DEF TypeOKInforme
    <3> QED
      BY <2>1, <2>2, <3>1 DEF PasaElRato, TypeOKInforme
  <2>3. CASE CambianDatos \/ UNCHANGED varsInforme
    BY <2>1, <2>3, InformeAssumption DEF CambianDatos, varsInforme, TypeOKInforme
  <2> QED
    BY <1>1, <2>2, <2>3
<1>2. ASSUME NEW r \in Peticion, NEW que \in {"auto", "mano", "pregunta"},
             NEW d \in Periodos, Recibir(r, que, d)
      PROVE  TypeOKInforme' /\ LlamaAUno'
  <2> DEFINE t == [fase |-> IF que = "auto" THEN "auto" ELSE "cuota",
                   que |-> que, i |-> 1, dias |-> IF que = "pregunta" THEN 0 ELSE d,
                   huella |-> IF que = "pregunta" THEN 0 ELSE datos]
  <2>1. t \in Trabajos /\ t.fase # "llamando"
    BY InformeAssumption DEF TypeOKInforme, Trabajos
  <2>2. trabajo' = [trabajo EXCEPT ![r] = t]
    BY <1>2 DEF Recibir
  <2> HIDE DEF t
  <2> QED
    BY <1>2, <2>1, <2>2, TrabajoSigueBien, ZenonT(40) DEF Recibir, TypeOKInforme
<1>3. ASSUME NEW r \in Peticion, Automatico(r)
      PROVE  TypeOKInforme' /\ LlamaAUno'
  BY <1>3, <1>b DEF Automatico, TypeOKInforme
<1>4. ASSUME NEW r \in Peticion, Apuntar(r)
      PROVE  TypeOKInforme' /\ LlamaAUno'
  <2>1. PICK t \in Trabajos :
          t.fase # "llamando" /\ trabajo' = [trabajo EXCEPT ![r] = t]
    <3>1. CASE HayCuota
      <4>1. [trabajo[r] EXCEPT !.fase = "eligiendo"] \in Trabajos
        BY <1>a DEF Trabajos
      <4> QED
        BY <1>4, <1>a, <3>1, <4>1 DEF Apuntar, Trabajos
    <3>2. CASE ~HayCuota /\ trabajo[r].que = "mano"
      <4>1. [trabajo[r] EXCEPT !.fase = "auto"] \in Trabajos
        BY <1>a DEF Trabajos
      <4> QED
        BY <1>4, <1>a, <3>2, <4>1 DEF Apuntar, Trabajos
    <3>3. CASE ~HayCuota /\ trabajo[r].que # "mano"
      BY <1>4, <3>3, LibreEsTrabajo DEF Apuntar
    <3> QED
      BY <3>1, <3>2, <3>3
  <2>2. notas' \in Nat /\ UNCHANGED <<datos, guardado, pausa, redactadas>>
    BY <1>4 DEF Apuntar, TypeOKInforme
  <2> QED
    BY <2>1, <2>2, TrabajoSigueBien DEF TypeOKInforme
<1>5. ASSUME NEW r \in Peticion, Saltar(r)
      PROVE  TypeOKInforme' /\ LlamaAUno'
  <2>1. PICK t \in Trabajos :
          t.fase # "llamando" /\ trabajo' = [trabajo EXCEPT ![r] = t]
    <3>1. trabajo[r].i + 1 \in 1..(Modelos + 1)
      <4>1. trabajo[r].i \in 1..(Modelos + 1)
        BY <1>a DEF Trabajos
      <4>2. trabajo[r].i <= Modelos
        BY <1>5 DEF Saltar
      <4> QED
        BY <4>1, <4>2, InformeAssumption
    <3>2. [trabajo[r] EXCEPT !.i = trabajo[r].i + 1] \in Trabajos
      BY <1>a, <3>1 DEF Trabajos
    <3> QED
      BY <1>5, <1>a, <3>2 DEF Saltar, Trabajos
  <2> QED
    BY <1>5, <2>1, TrabajoSigueBien DEF Saltar, TypeOKInforme
<1>6. ASSUME NEW r \in Peticion, Llamar(r)
      PROVE  TypeOKInforme' /\ LlamaAUno'
  <2>1. PICK t \in Trabajos :
          t.i <= Modelos /\ trabajo' = [trabajo EXCEPT ![r] = t]
    <3>1. [trabajo[r] EXCEPT !.fase = "llamando"] \in Trabajos
      BY <1>a DEF Trabajos
    <3> QED
      BY <1>6, <1>a, <3>1 DEF Llamar, Trabajos
  <2> QED
    BY <1>6, <2>1, TrabajoSigueBien DEF Llamar, TypeOKInforme
<1>7. ASSUME NEW r \in Peticion, SinModelos(r)
      PROVE  TypeOKInforme' /\ LlamaAUno'
  <2>1. notas' \in Nat
    BY <1>7 DEF SinModelos, DevolverNota, TypeOKInforme
  <2> QED
    BY <1>7, <1>b, <2>1 DEF SinModelos, TypeOKInforme
<1>8. ASSUME NEW r \in Peticion, Redactar(r) \/ Replegarse(r)
      PROVE  TypeOKInforme' /\ LlamaAUno'
  <2>1. trabajo' \in [Peticion -> Trabajos] /\ LlamaAUno' /\ UNCHANGED <<datos, pausa>>
    BY <1>8, <1>b DEF Redactar, Replegarse
  <2>2. notas' \in Nat /\ redactadas' \in Nat
    <3>1. notas' = notas \/ DevolverNota
      BY <1>8, Zenon DEF Redactar, Replegarse, Entregar
    <3>2. redactadas' = redactadas \/ redactadas' = redactadas + 1
      BY <1>8 DEF Redactar, Replegarse
    <3> QED
      BY <3>1, <3>2 DEF DevolverNota, TypeOKInforme
  <2>3. guardado' = guardado \/ guardado'.huella = trabajo[r].huella
    <3>1. guardado' = guardado
            \/ \E autor : guardado' = [autor |-> autor, huella |-> trabajo[r].huella,
                                       dias |-> trabajo[r].dias]
      BY <1>8, Zenon DEF Redactar, Replegarse, Entregar
    <3> QED
      BY <3>1
  <2>4. guardado'.huella \in 0..MaxDatos
    BY <1>a, <2>3 DEF TypeOKInforme, Trabajos
  <2> QED
    BY <2>1, <2>2, <2>4 DEF TypeOKInforme
<1>9. ASSUME NEW r \in Peticion, NEW p \in 0..MaxPausa, ProbarSiguiente(r, p)
      PROVE  TypeOKInforme' /\ LlamaAUno'
  <2>1. PICK t \in Trabajos :
          t.fase # "llamando" /\ trabajo' = [trabajo EXCEPT ![r] = t]
    <3>1. trabajo[r].i + 1 \in 1..(Modelos + 1)
      <4>1. trabajo[r].i \in 1..(Modelos + 1)
        BY <1>a DEF Trabajos
      <4>2. trabajo[r].i <= Modelos
        BY <1>9 DEF ProbarSiguiente, LlamaAUno
      <4> QED
        BY <4>1, <4>2, InformeAssumption
    <3>2. [trabajo[r] EXCEPT !.fase = "eligiendo", !.i = trabajo[r].i + 1] \in Trabajos
      BY <1>a, <3>1 DEF Trabajos
    <3> QED
      BY <1>9, <1>a, <3>2 DEF ProbarSiguiente, Trabajos, TypeOKInforme
  <2>2. pausa' \in [1..Modelos -> 0..MaxPausa]
    BY <1>9 DEF ProbarSiguiente, TypeOKInforme
  <2> QED
    BY <1>9, <2>1, <2>2, TrabajoSigueBien DEF ProbarSiguiente, TypeOKInforme
<1> QED
  BY <1>1, <1>2, <1>3, <1>4, <1>5, <1>6, <1>7, <1>8, <1>9 DEF NextInforme

\* What Servir leaves: it is honest whenever its arguments are.
LEMMA ServirHonesto ==
    ASSUME NEW r, NEW autor, NEW huella, NEW d, NEW ia, NEW viejo,
           Servir(r, autor, huella, d, ia, viejo),
           ia = (autor = "modelo"),
           d = trabajo[r].dias, viejo = (huella # trabajo[r].huella)
    PROVE  /\ servido'.conIA = (servido'.autor = "modelo")
           /\ servido'.dias = servido'.pedidos
           /\ servido'.viejo = (servido'.huella # servido'.leida)
<1>1. /\ servido'.autor = autor /\ servido'.huella = huella
      /\ servido'.dias = d /\ servido'.conIA = ia /\ servido'.viejo = viejo
      /\ servido'.leida = trabajo[r].huella /\ servido'.pedidos = trabajo[r].dias
  BY DEF Servir
<1> QED
  BY <1>1, Zenon

\* Whoever writes or serves a report signs it as what it is (AMano,
\* Automatico, the fallback of the model and of the multiplexor).
LEMMA PasoHonesto == InductivoInforme /\ [NextInforme]_varsInforme => InformeHonesto'
<1> SUFFICES ASSUME InductivoInforme, [NextInforme]_varsInforme
             PROVE  InformeHonesto'
  OBVIOUS
<1>0. guardado = SinInforme \/ guardado.autor = "modelo"
  BY DEF InductivoInforme, InformeHonesto
<1>1. ASSUME UNCHANGED <<guardado, servido>> PROVE InformeHonesto'
  BY <1>1 DEF InductivoInforme, InformeHonesto
<1>2. CASE CambianDatos \/ PasaElRato \/ UNCHANGED varsInforme
  BY <1>1, <1>2 DEF CambianDatos, PasaElRato, varsInforme
<1>3. ASSUME NEW r \in Peticion,
             \/ \E que \in {"auto", "mano", "pregunta"}, d \in Periodos : Recibir(r, que, d)
             \/ Apuntar(r) \/ Saltar(r) \/ Llamar(r)
             \/ \E p \in 0..MaxPausa : ProbarSiguiente(r, p)
      PROVE  InformeHonesto'
  BY <1>1, <1>3 DEF Recibir, Apuntar, Saltar, Llamar, ProbarSiguiente
\* A report of the rules, about the data and the period of the request.
<1>4. ASSUME NEW r \in Peticion, guardado' = guardado,
             \/ Servir(r, "reglas", trabajo[r].huella, trabajo[r].dias, FALSE, FALSE)
             \/ Servir(r, Repliegue, trabajo[r].huella, trabajo[r].dias, FALSE, FALSE)
      PROVE  InformeHonesto'
  <2>1. FALSE = ("reglas" = "modelo") /\ FALSE = (Repliegue = "modelo")
    BY DEF Repliegue
  <2>2. FALSE = (trabajo[r].huella # trabajo[r].huella)
    OBVIOUS
  <2>3. /\ servido'.conIA = (servido'.autor = "modelo")
        /\ servido'.dias = servido'.pedidos
        /\ servido'.viejo = (servido'.huella # servido'.leida)
    BY <1>4, <2>1, <2>2, ServirHonesto
  <2> QED
    BY <1>0, <1>4, <2>3 DEF InformeHonesto
<1>5. ASSUME NEW r \in Peticion, Automatico(r) PROVE InformeHonesto'
  <2>1. CASE ValeElGuardado(trabajo[r].dias)
    <3>1. Servir(r, guardado.autor, guardado.huella, guardado.dias, TRUE,
                 guardado.huella # trabajo[r].huella)
      BY <1>5, <2>1 DEF Automatico, ServirAutomatico
    <3>2. guardado.dias = trabajo[r].dias /\ guardado.autor = "modelo"
      BY <1>0, <2>1 DEF ValeElGuardado
    <3>3. TRUE = (guardado.autor = "modelo")
      BY <3>2, Zenon
    <3>4. /\ servido'.conIA = (servido'.autor = "modelo")
          /\ servido'.dias = servido'.pedidos
          /\ servido'.viejo = (servido'.huella # servido'.leida)
      BY <3>1, <3>2, <3>3, ServirHonesto
    <3>5. guardado' = guardado
      BY <1>5 DEF Automatico
    <3> QED
      BY <1>0, <3>4, <3>5 DEF InformeHonesto
  <2>2. CASE ~ValeElGuardado(trabajo[r].dias)
    BY <1>4, <1>5, <2>2 DEF Automatico, ServirAutomatico
  <2> QED
    BY <2>1, <2>2
<1>6. ASSUME NEW r \in Peticion, SinModelos(r) PROVE InformeHonesto'
  BY <1>1, <1>4, <1>6 DEF SinModelos
<1>7. ASSUME NEW r \in Peticion, Entregar(r, "modelo") PROVE InformeHonesto'
  <2>1. ~loEscribieronLasReglas("modelo")
    BY DEF loEscribieronLasReglas
  <2>2. CASE UNCHANGED <<guardado, servido>>
    BY <1>1, <2>2
  <2>3. CASE /\ guardado' = [autor |-> "modelo", huella |-> trabajo[r].huella,
                             dias |-> trabajo[r].dias]
             /\ Servir(r, "modelo", trabajo[r].huella, trabajo[r].dias, TRUE, FALSE)
    <3>1. guardado'.autor = "modelo"
      BY <2>3
    <3>2. TRUE = ("modelo" = "modelo") /\ FALSE = (trabajo[r].huella # trabajo[r].huella)
      OBVIOUS
    <3>3. /\ servido'.conIA = (servido'.autor = "modelo")
          /\ servido'.dias = servido'.pedidos
          /\ servido'.viejo = (servido'.huella # servido'.leida)
      BY <2>3, <3>2, ServirHonesto
    <3> QED
      BY <3>1, <3>3 DEF InformeHonesto
  <2> QED
    BY <1>7, <2>1, <2>2, <2>3, Zenon DEF Entregar
<1>8. ASSUME NEW r \in Peticion, Redactar(r) PROVE InformeHonesto'
  BY <1>1, <1>7, <1>8 DEF Redactar
<1>9. ASSUME NEW r \in Peticion, Replegarse(r) PROVE InformeHonesto'
  <2>1. loEscribieronLasReglas(Repliegue)
    BY DEF loEscribieronLasReglas, Repliegue
  <2>2. /\ guardado' = guardado
        /\ Servir(r, Repliegue, trabajo[r].huella, trabajo[r].dias, FALSE, FALSE)
    BY <1>9, <2>1, Zenon DEF Replegarse, Entregar
  <2> QED
    BY <1>4, <2>2
<1> QED
  BY <1>2, <1>3, <1>5, <1>6, <1>8, <1>9 DEF NextInforme

\* Every step of the panel's requests is a step of the abstract budget or
\* none: the one mapping that shows both the refinement and the balance.
LEMMA PasoPresupuesto ==
    ASSUME InductivoInforme, [NextInforme]_varsInforme
    PROVE  \/ ElPresupuesto!NextPresupuesto
           \/ UNCHANGED ElPresupuesto!varsPresupuesto
<1> DEFINE Paso == ElPresupuesto!NextPresupuesto
                   \/ UNCHANGED ElPresupuesto!varsPresupuesto
<1>0. /\ TypeOKInforme /\ notas \in Nat /\ redactadas \in Nat
      /\ notas = Cardinality(EnCurso) + redactadas
      /\ Cardinality(EnCurso) \in Nat
      /\ \A r \in Peticion : r \in EnCurso <=> trabajo[r].fase \in {"eligiendo", "llamando"}
  BY EnCursoFinito DEF InductivoInforme, TypeOKInforme, NotasCuadran, EnCurso
<1>1. ASSUME UNCHANGED <<notas, redactadas>>, EnCurso' = EnCurso PROVE Paso
  BY <1>1 DEF ElPresupuesto!varsPresupuesto
<1>2. ASSUME Cardinality(EnCurso') = Cardinality(EnCurso) - 1, Cardinality(EnCurso) > 0,
             notas' = notas, redactadas' = redactadas + 1
      PROVE  Paso
  <2>1. 1 \in 1..Cardinality(EnCurso)
    BY <1>0, <1>2
  <2> QED
    BY <1>2, <2>1 DEF ElPresupuesto!NextPresupuesto, ElPresupuesto!Pagar
<1>3. ASSUME Cardinality(EnCurso') = Cardinality(EnCurso) - 1, Cardinality(EnCurso) > 0,
             DevolverNota, redactadas' = redactadas
      PROVE  Paso
  BY <1>0, <1>3 DEF DevolverNota, ElPresupuesto!NextPresupuesto, ElPresupuesto!Deshacer
<1>4. CASE CambianDatos \/ PasaElRato \/ UNCHANGED varsInforme
  BY <1>1, <1>4 DEF CambianDatos, PasaElRato, varsInforme, EnCurso
<1>5. ASSUME NEW r \in Peticion, NEW que \in {"auto", "mano", "pregunta"},
             NEW d \in Periodos, Recibir(r, que, d)
      PROVE  Paso
  BY <1>0, <1>1, <1>5, SigueEnCurso DEF Recibir
<1>6. ASSUME NEW r \in Peticion, Automatico(r) PROVE Paso
  BY <1>0, <1>1, <1>6, SigueEnCurso DEF Automatico, Soltar, Libre
<1>7. ASSUME NEW r \in Peticion, Apuntar(r) PROVE Paso
  <2>1. CASE HayCuota
    <3>1. trabajo' = [trabajo EXCEPT ![r] = [trabajo[r] EXCEPT !.fase = "eligiendo"]]
      BY <1>7, <2>1 DEF Apuntar
    <3>2. Cardinality(EnCurso') = Cardinality(EnCurso) + 1
      <4>1. r \notin EnCurso
        BY <1>0, <1>7 DEF Apuntar
      <4>2. EnCurso' = EnCurso \cup {r}
        BY <1>0, <3>1 DEF EnCurso, TypeOKInforme, Trabajos
      <4> QED
        BY <4>1, <4>2, EnCursoFinito, FS_AddElement
    <3>3. ElPresupuesto!HaySitio
      BY <2>1, InformeAssumption DEF HayCuota, ElPresupuesto!HaySitio
    <3> QED
      BY <1>7, <2>1, <3>2, <3>3
      DEF Apuntar, ElPresupuesto!NextPresupuesto, ElPresupuesto!Reservar
  <2>2. CASE ~HayCuota
    <3>1. trabajo' = [trabajo EXCEPT ![r] = IF trabajo[r].que = "mano"
                        THEN [trabajo[r] EXCEPT !.fase = "auto"] ELSE Libre]
      BY <1>7, <2>2 DEF Apuntar
    <3>2. EnCurso' = EnCurso
      BY <1>0, <1>7, <3>1, SigueEnCurso DEF Apuntar, Libre, TypeOKInforme, Trabajos
    <3> QED
      BY <1>1, <1>7, <2>2, <3>2 DEF Apuntar
  <2> QED
    BY <2>1, <2>2
<1>8. ASSUME NEW r \in Peticion, Saltar(r) PROVE Paso
  <2>1. trabajo' = [trabajo EXCEPT ![r] = [trabajo[r] EXCEPT !.i = trabajo[r].i + 1]]
    BY <1>8 DEF Saltar
  <2>2. EnCurso' = EnCurso
    BY <1>0, <1>8, <2>1, SigueEnCurso DEF Saltar, TypeOKInforme, Trabajos
  <2> QED
    BY <1>1, <1>8, <2>2 DEF Saltar
<1>9. ASSUME NEW r \in Peticion, Llamar(r) PROVE Paso
  <2>1. trabajo' = [trabajo EXCEPT ![r] = [trabajo[r] EXCEPT !.fase = "llamando"]]
    BY <1>9 DEF Llamar
  <2>2. EnCurso' = EnCurso
    BY <1>0, <1>9, <2>1, SigueEnCurso DEF Llamar, TypeOKInforme, Trabajos
  <2> QED
    BY <1>1, <1>9, <2>2 DEF Llamar
<1>10. ASSUME NEW r \in Peticion, NEW p \in 0..MaxPausa, ProbarSiguiente(r, p)
       PROVE  Paso
  <2>1. trabajo' = [trabajo EXCEPT ![r] =
                      [trabajo[r] EXCEPT !.fase = "eligiendo", !.i = trabajo[r].i + 1]]
    BY <1>0, <1>10 DEF ProbarSiguiente, TypeOKInforme, Trabajos
  <2>2. EnCurso' = EnCurso
    <3> DEFINE t == [trabajo[r] EXCEPT !.fase = "eligiendo", !.i = trabajo[r].i + 1]
    <3>1. t.fase = "eligiendo"
      BY <1>0 DEF TypeOKInforme, Trabajos
    <3>2. r \in EnCurso
      BY <1>0, <1>10 DEF ProbarSiguiente
    <3>3. trabajo' = [trabajo EXCEPT ![r] = t]
      BY <2>1
    <3> HIDE DEF t
    <3> QED
      BY <1>0, <3>1, <3>2, <3>3, SigueEnCurso
  <2> QED
    BY <1>1, <1>10, <2>2 DEF ProbarSiguiente
<1>11. ASSUME NEW r \in Peticion, Soltar(r), trabajo[r].fase \in {"eligiendo", "llamando"}
       PROVE  /\ Cardinality(EnCurso') = Cardinality(EnCurso) - 1
              /\ Cardinality(EnCurso) > 0
  BY <1>0, <1>11, SaleDeCurso DEF Soltar, Libre
<1>12. ASSUME NEW r \in Peticion, SinModelos(r) PROVE Paso
  BY <1>3, <1>11, <1>12 DEF SinModelos
<1>13. ASSUME NEW r \in Peticion, Redactar(r) PROVE Paso
  <2>1. notas' = notas
    BY <1>13 DEF Redactar, Entregar, loEscribieronLasReglas
  <2> QED
    BY <1>2, <1>11, <1>13, <2>1 DEF Redactar
<1>14. ASSUME NEW r \in Peticion, Replegarse(r) PROVE Paso
  <2>1. DevolverNota
    BY <1>14 DEF Replegarse, Entregar, loEscribieronLasReglas, Repliegue
  <2> QED
    BY <1>3, <1>11, <1>14, <2>1 DEF Replegarse
<1> QED
  BY <1>4, <1>5, <1>6, <1>7, <1>8, <1>9, <1>10, <1>12, <1>13, <1>14 DEF NextInforme

\* So the row stays equal to what it stands for.
LEMMA PasoNotas == InductivoInforme /\ [NextInforme]_varsInforme => NotasCuadran'
<1> SUFFICES ASSUME InductivoInforme, [NextInforme]_varsInforme PROVE NotasCuadran'
  OBVIOUS
<1>1. /\ notas = Cardinality(EnCurso) + redactadas
      /\ notas \in Nat /\ redactadas \in Nat
      /\ Cardinality(EnCurso) \in Nat /\ Cardinality(EnCurso') \in Nat
  BY EnCursoFinito, EnCursoFinitoDespues
  DEF InductivoInforme, TypeOKInforme, NotasCuadran
<1>2. CASE ElPresupuesto!Reservar
  BY <1>1, <1>2 DEF ElPresupuesto!Reservar, NotasCuadran
<1>3. CASE ElPresupuesto!Pagar
  <2>1. PICK n \in 1..Cardinality(EnCurso) :
          /\ Cardinality(EnCurso') = Cardinality(EnCurso) - n
          /\ redactadas' = redactadas + n
    BY <1>3 DEF ElPresupuesto!Pagar
  <2> QED
    BY <1>1, <1>3, <2>1 DEF ElPresupuesto!Pagar, NotasCuadran
<1>4. CASE ElPresupuesto!Deshacer
  BY <1>1, <1>4 DEF ElPresupuesto!Deshacer, NotasCuadran
<1>5. CASE UNCHANGED ElPresupuesto!varsPresupuesto
  BY <1>1, <1>5 DEF ElPresupuesto!varsPresupuesto, NotasCuadran
<1> QED
  BY <1>2, <1>3, <1>4, <1>5, PasoPresupuesto DEF ElPresupuesto!NextPresupuesto

\* The inductive invariant of the report.
LEMMA PasoInforme == InductivoInforme /\ [NextInforme]_varsInforme => InductivoInforme'
BY PasoTiposInforme, PasoHonesto, PasoNotas DEF InductivoInforme

\* Nothing the rules wrote is stored or served as the model's, and nothing is
\* served as up to date that tells other data than its request read, for any
\* number of requests, models and periods (programado.go).
THEOREM ElInformeEsHonesto == SpecInforme => []InformeHonesto
<1>1. InductivoInforme => InformeHonesto
  BY DEF InductivoInforme
<1> QED
  BY InicioInforme, PasoInforme, <1>1, PTL DEF SpecInforme

\* The panel's requests implement the abstract budget: noted once before the
\* first model, paid if and only if some model delivered (multiplexor.go,
\* programado.go: AMano).
THEOREM ElInformeImplementaElPresupuesto == SpecInforme => CumplePresupuesto
<1>1. InitInforme => ElPresupuesto!InitPresupuesto
  <2> SUFFICES ASSUME InitInforme PROVE ElPresupuesto!InitPresupuesto
    OBVIOUS
  <2>1. EnCurso = {}
    BY DEF InitInforme, EnCurso, Libre
  <2> QED
    BY <2>1, FS_EmptySet DEF InitInforme, ElPresupuesto!InitPresupuesto
<1>2. InductivoInforme /\ [NextInforme]_varsInforme
        => [ElPresupuesto!NextPresupuesto]_(ElPresupuesto!varsPresupuesto)
  BY PasoPresupuesto
<1> QED
  BY InicioInforme, PasoInforme, <1>1, <1>2, PTL
  DEF SpecInforme, CumplePresupuesto, ElPresupuesto!SpecPresupuesto
-----------------------------------------------------------------------------
(* The accounts.                                                           *)

\* The parts of the invariant, apart: the requests, the sessions, the tables.
GestionesBien ==
    /\ gestion \in [Navegador -> Gestiones]
    /\ \A n \in Navegador : SabeDe(gestion[n])
TablasBien ==
    /\ clave \in [Cuenta -> 0..MaxClave]
    /\ cookie \in [Navegador -> 0..tokens] /\ tokens \in Nat
    /\ cli \subseteq Cuenta /\ porCerrar \subseteq Cuenta
SesionesBien ==
    /\ \A s \in sesiones :
         /\ s.cuenta \in Cuenta /\ s.token \in 1..tokens /\ clave[s.cuenta] > 0
         /\ s.de # clave[s.cuenta] => s.tarde \/ s.cuenta \in porCerrar
    /\ \A s, t \in sesiones : s.token = t.token => s = t

\* They are the invariant.
LEMMA PartesSesiones == InductivoSesiones <=> GestionesBien /\ TablasBien /\ SesionesBien
<1>1. InductivoSesiones => GestionesBien /\ TablasBien /\ SesionesBien
  BY DEF InductivoSesiones, TypeOKSesiones, LeidaFueVigente, SoloClaveVigente,
         GestionesBien, TablasBien, SesionesBien, Gestiones, FasesGestion, SabeDe
<1>2. ASSUME GestionesBien, TablasBien, SesionesBien PROVE InductivoSesiones
  <2>1. \A n \in Navegador : gestion[n].leida \in 0..MaxClave
    BY <1>2 DEF GestionesBien, Gestiones
  <2> QED
    BY <1>2, <2>1 DEF InductivoSesiones, TypeOKSesiones, LeidaFueVigente,
      SoloClaveVigente, GestionesBien, TablasBien, SesionesBien, Gestiones, FasesGestion, SabeDe
<1> QED
  BY <1>1, <1>2

\* ... before a step and after it.
LEMMA PartesSesionesDespues ==
    GestionesBien' /\ TablasBien' /\ SesionesBien' => InductivoSesiones'
BY PartesSesiones, PTL

\* A request at rest knows nothing.
LEMMA QuietaBien == Quieta \in Gestiones /\ SabeDe(Quieta) /\ SabeDe(Quieta)'
BY SesionesAssumption DEF Quieta, Gestiones, FasesGestion, SabeDe

\* Accounts that may or may not exist, and nobody in.
LEMMA InicioSesiones == InitSesiones => InductivoSesiones
<1> SUFFICES ASSUME InitSesiones PROVE InductivoSesiones
  OBVIOUS
<1>1. GestionesBien
  BY QuietaBien DEF InitSesiones, GestionesBien
<1>2. TablasBien
  BY SesionesAssumption DEF InitSesiones, TablasBien, NingunReset
<1>3. SesionesBien
  BY DEF InitSesiones, SesionesBien
<1> QED
  BY <1>1, <1>2, <1>3, PartesSesiones

\* Passwords only ever move forward, so what a request knew stays true
\* (CambiarHash, CrearUsuario).
LEMMA GestionesSiguen ==
    ASSUME TablasBien, GestionesBien,
           clave' \in [Cuenta -> 0..MaxClave], \A c \in Cuenta : clave[c] <= clave'[c],
           NEW n \in Navegador, NEW g \in Gestiones, SabeDe(g)',
           gestion' = [gestion EXCEPT ![n] = g]
    PROVE  GestionesBien'
<1>1. \A m \in Navegador : gestion[m] \in Gestiones /\ SabeDe(gestion[m])
  BY DEF GestionesBien
<1>2. \A m \in Navegador : SabeDe(gestion[m])'
  <2> SUFFICES ASSUME NEW m \in Navegador PROVE SabeDe(gestion[m])'
    OBVIOUS
  <2>1. CASE m = n
    <3>1. gestion'[m] = g
      BY <2>1 DEF GestionesBien
    <3> QED
      BY <3>1 DEF SabeDe
  <2>2. CASE m # n
    <3>1. gestion'[m] = gestion[m]
      BY <2>2 DEF GestionesBien
    <3>2. gestion[m].leida \in 0..MaxClave
      BY <1>1 DEF Gestiones
    <3>3. ASSUME gestion[m].cuenta \in Cuenta
          PROVE  /\ clave[gestion[m].cuenta] \in 0..MaxClave
                 /\ clave'[gestion[m].cuenta] \in 0..MaxClave
                 /\ clave[gestion[m].cuenta] <= clave'[gestion[m].cuenta]
      BY <3>3 DEF TablasBien
    <3>4. ASSUME gestion[m].cuenta \in Cuenta, gestion[m].leida <= clave[gestion[m].cuenta]
          PROVE  gestion[m].leida <= clave'[gestion[m].cuenta]
      BY <3>2, <3>3, <3>4, SesionesAssumption
    <3> QED
      BY <1>1, <3>1, <3>4 DEF SabeDe
  <2> QED
    BY <2>1, <2>2
<1>3. gestion' \in [Navegador -> Gestiones]
  BY DEF GestionesBien
<1> QED
  BY <1>2, <1>3 DEF GestionesBien

\* Requests that stay as they are keep what they knew.
LEMMA GestionesQuietas ==
    ASSUME TablasBien, GestionesBien,
           clave' \in [Cuenta -> 0..MaxClave], \A c \in Cuenta : clave[c] <= clave'[c],
           gestion' = gestion
    PROVE  GestionesBien'
<1> SUFFICES ASSUME NEW m \in Navegador PROVE SabeDe(gestion[m])'
  BY DEF GestionesBien
<1>1. gestion[m] \in Gestiones /\ SabeDe(gestion[m]) /\ gestion'[m] = gestion[m]
  BY DEF GestionesBien
<1>2. gestion[m].leida \in 0..MaxClave
  BY <1>1 DEF Gestiones
<1>3. ASSUME gestion[m].cuenta \in Cuenta, gestion[m].leida <= clave[gestion[m].cuenta]
      PROVE  gestion[m].leida <= clave'[gestion[m].cuenta]
  BY <1>2, <1>3, SesionesAssumption DEF TablasBien
<1> QED
  BY <1>1, <1>3 DEF SabeDe

\* Sessions that are deleted leave the others as they were (PurgarSesiones,
\* BorrarSesion).
LEMMA MenosSesiones ==
    ASSUME SesionesBien, sesiones' \subseteq sesiones,
           UNCHANGED <<clave, tokens, porCerrar>>
    PROVE  SesionesBien'
BY DEF SesionesBien

\* A session opened by whoever knew a password of an account that exists says
\* whether it was late, and its token is new (CrearSesion).
LEMMA NuevaSesion ==
    ASSUME SesionesBien, TablasBien, NEW c \in Cuenta, NEW k, clave[c] > 0,
           sesiones' \subseteq sesiones \cup {Nueva(c, k)},
           tokens' = tokens + 1, UNCHANGED <<clave, porCerrar>>
    PROVE  SesionesBien'
<1> DEFINE s0 == Nueva(c, k)
<1>1. /\ s0.cuenta = c /\ s0.token = tokens + 1 /\ s0.de = k
      /\ s0.tarde = (clave[c] # k)
  BY DEF Nueva
<1>2. k # clave[c] => s0.tarde
  BY <1>1
<1> HIDE DEF s0
<1>3. /\ tokens \in Nat /\ tokens' \in Nat
      /\ \A s \in sesiones : s.token \in 1..tokens /\ s.token \in 1..tokens' /\ s.token # s0.token
      /\ s0.token \in 1..tokens'
  BY <1>1 DEF TablasBien, SesionesBien
<1>4. \A s \in sesiones' :
        /\ s.cuenta \in Cuenta /\ s.token \in 1..tokens' /\ clave'[s.cuenta] > 0
        /\ s.de # clave'[s.cuenta] => s.tarde \/ s.cuenta \in porCerrar'
  <2> SUFFICES ASSUME NEW s \in sesiones'
               PROVE  /\ s.cuenta \in Cuenta /\ s.token \in 1..tokens' /\ clave'[s.cuenta] > 0
                      /\ s.de # clave'[s.cuenta] => s.tarde \/ s.cuenta \in porCerrar'
    OBVIOUS
  <2>1. CASE s \in sesiones
    BY <2>1, <1>3 DEF SesionesBien
  <2>2. CASE s = s0
    BY <2>2, <1>1, <1>2, <1>3
  <2> QED
    BY <2>1, <2>2 DEF s0
<1>5. \A s, t \in sesiones' : s.token = t.token => s = t
  BY <1>3 DEF SesionesBien, s0
<1> QED
  BY <1>4, <1>5 DEF SesionesBien

\* A password that changes marks its account until its sessions are closed;
\* one that is set for the first time had none open (CambiarHash,
\* CrearUsuario).
LEMMA OtraClave ==
    ASSUME SesionesBien, TablasBien, NEW c \in Cuenta,
           UNCHANGED <<sesiones, tokens>>,
           \/ clave' = [clave EXCEPT ![c] = @ + 1] /\ porCerrar' = porCerrar \cup {c}
           \/ clave[c] = 0 /\ clave' = [clave EXCEPT ![c] = 1] /\ porCerrar' = porCerrar
    PROVE  SesionesBien'
<1>1. \A x \in Cuenta : clave[x] \in Nat
  BY SesionesAssumption DEF TablasBien
<1>2. \A x \in Cuenta \ {c} : clave'[x] = clave[x]
  BY DEF TablasBien
<1>3. clave'[c] > 0
  BY <1>1 DEF TablasBien
<1>4. \A s \in sesiones : s.cuenta = c => c \in porCerrar'
  BY <1>1 DEF SesionesBien
<1>5. porCerrar \subseteq porCerrar'
  OBVIOUS
<1>6. ASSUME NEW s \in sesiones
      PROVE  /\ clave'[s.cuenta] > 0
             /\ s.de # clave'[s.cuenta] => s.tarde \/ s.cuenta \in porCerrar'
  BY <1>2, <1>3, <1>4, <1>5 DEF SesionesBien
<1> QED
  BY <1>6 DEF SesionesBien

\* Closing an account's sessions, or failing to, leaves nothing unmarked
\* (BorrarSesionesDe).
LEMMA CerrarBien ==
    ASSUME SesionesBien, TablasBien, NEW c \in Cuenta, CerrarTodas(c),
           UNCHANGED <<clave, tokens>>
    PROVE  SesionesBien' /\ porCerrar' \subseteq Cuenta
BY DEF SesionesBien, TablasBien, CerrarTodas, BorrarSesionesDe
\* A browser's request that only reads, fails or ends touches no table.
LEMMA SoloLeer ==
    ASSUME InductivoSesiones, NEW n \in Navegador,
           \/ \E c \in Cuenta : EntrarLee(n, c)
           \/ Frenar(n) \/ EntrarFalla(n) \/ CambiarLee(n) \/ DejarPeticion(n) \/ Olvidar(n)
    PROVE  InductivoSesiones'
<1>0. GestionesBien /\ TablasBien /\ SesionesBien
  BY PartesSesiones
<1>1. UNCHANGED <<clave, sesiones, tokens, cookie, cli, porCerrar>>
  BY DEF EntrarLee, Frenar, EntrarFalla, CambiarLee, DejarPeticion, Olvidar
<1>2. TablasBien' /\ SesionesBien'
  BY <1>0, <1>1, MenosSesiones DEF TablasBien
<1>3. /\ clave' \in [Cuenta -> 0..MaxClave]
      /\ \A x \in Cuenta : clave[x] \in 0..MaxClave /\ clave[x] <= clave'[x]
  BY <1>0, <1>1, SesionesAssumption DEF TablasBien
<1>4. ASSUME \E g \in Gestiones : SabeDe(g)' /\ gestion' = [gestion EXCEPT ![n] = g]
      PROVE  GestionesBien'
  BY <1>0, <1>3, <1>4, GestionesSiguen
<1>5. ASSUME gestion' = gestion PROVE GestionesBien'
  BY <1>0, <1>3, <1>5, GestionesQuietas
<1>6. ASSUME NEW c \in Cuenta, EntrarLee(n, c)
      PROVE  \E g \in Gestiones : SabeDe(g)' /\ gestion' = [gestion EXCEPT ![n] = g]
  <2> DEFINE g == [fase |-> "entrando", cuenta |-> c, leida |-> clave[c]]
  <2>1. g \in Gestiones /\ SabeDe(g)'
    BY <1>1, <1>3 DEF Gestiones, FasesGestion, SabeDe
  <2> QED
    BY <1>6, <2>1 DEF EntrarLee
<1>7. ASSUME Frenar(n)
      PROVE  \E g \in Gestiones : SabeDe(g)' /\ gestion' = [gestion EXCEPT ![n] = g]
  <2> DEFINE g == [gestion[n] EXCEPT !.fase = "frenada"]
  <2>1. g \in Gestiones /\ g.fase = "frenada"
    BY <1>0 DEF GestionesBien, Gestiones, FasesGestion
  <2>2. PICK h \in Gestiones : h.fase = "frenada" /\ gestion' = [gestion EXCEPT ![n] = h]
    BY <1>7, <2>1 DEF Frenar
  <2> QED
    BY <2>2 DEF SabeDe
<1>8. ASSUME EntrarFalla(n) \/ DejarPeticion(n)
      PROVE  \E g \in Gestiones : SabeDe(g)' /\ gestion' = [gestion EXCEPT ![n] = g]
  BY <1>8, QuietaBien DEF EntrarFalla, DejarPeticion
<1>9. ASSUME CambiarLee(n)
      PROVE  \E g \in Gestiones : SabeDe(g)' /\ gestion' = [gestion EXCEPT ![n] = g]
  <2>1. PICK s \in sesiones : gestion' = [gestion EXCEPT ![n] =
             [fase |-> "cambiando", cuenta |-> s.cuenta, leida |-> clave[s.cuenta]]]
    BY <1>9 DEF CambiarLee, SesionValida
  <2>2. s.cuenta \in Cuenta /\ clave[s.cuenta] > 0
    BY <1>0 DEF SesionesBien
  <2>3. PICK k \in 0..MaxClave : k = clave[s.cuenta]
    BY <1>3, <2>2
  <2> DEFINE g == [fase |-> "cambiando", cuenta |-> s.cuenta, leida |-> k]
  <2>4. g \in Gestiones /\ SabeDe(g)'
    BY <1>1, <2>2, <2>3 DEF Gestiones, FasesGestion, SabeDe
  <2> QED
    BY <2>1, <2>3, <2>4
<1>10. GestionesBien'
  BY <1>4, <1>5, <1>6, <1>7, <1>8, <1>9 DEF Olvidar
<1> QED
  BY <1>2, <1>10, PartesSesionesDespues

\* The invariant is kept by every handler, by the command line, by the clock
\* and by the death of the panel between two statements of a request.
LEMMA PasoSesiones ==
    InductivoSesiones /\ [NextSesiones]_varsSesiones => InductivoSesiones'
<1> SUFFICES ASSUME InductivoSesiones, [NextSesiones]_varsSesiones
             PROVE  InductivoSesiones'
  OBVIOUS
<1>0. GestionesBien /\ TablasBien /\ SesionesBien
  BY PartesSesiones
<1>a. /\ clave \in [Cuenta -> 0..MaxClave]
      /\ \A x \in Cuenta : clave[x] \in 0..MaxClave /\ clave[x] <= clave[x]
  BY <1>0, SesionesAssumption DEF TablasBien
<1>b. ASSUME UNCHANGED clave, NEW n \in Navegador, gestion' = [gestion EXCEPT ![n] = Quieta]
      PROVE  GestionesBien'
  BY <1>0, <1>a, <1>b, QuietaBien, GestionesSiguen
<1>1. ASSUME NEW n \in Navegador,
             \/ \E c \in Cuenta : EntrarLee(n, c)
             \/ Frenar(n) \/ EntrarFalla(n) \/ CambiarLee(n) \/ DejarPeticion(n) \/ Olvidar(n)
      PROVE  InductivoSesiones'
  BY <1>1, SoloLeer
<1>2. ASSUME NEW n \in Navegador, Entrar(n) PROVE InductivoSesiones'
  <2>1. /\ gestion[n].cuenta \in Cuenta /\ gestion[n].leida \in 0..MaxClave
        /\ gestion[n].leida > 0 /\ gestion[n].leida <= clave[gestion[n].cuenta]
    BY <1>0, <1>2 DEF Entrar, GestionesBien, SabeDe, Gestiones
  <2>2. clave[gestion[n].cuenta] > 0
    BY <1>a, <2>1, SesionesAssumption
  <2>3. SesionesBien'
    BY <1>0, <1>2, <2>1, <2>2, NuevaSesion DEF Entrar, PurgarSesiones
  <2>4. TablasBien'
    BY <1>0, <1>2 DEF Entrar, TablasBien
  <2>5. GestionesBien'
    BY <1>b, <1>2 DEF Entrar
  <2> QED
    BY <2>3, <2>4, <2>5, PartesSesionesDespues
<1>3. ASSUME NEW n \in Navegador, Salir(n) PROVE InductivoSesiones'
  <2>1. TablasBien'
    BY <1>0, <1>3 DEF Salir, TablasBien
  <2>2. SesionesBien'
    BY <1>0, <1>3, MenosSesiones DEF Salir
  <2>3. GestionesBien'
    BY <1>0, <1>a, <1>3, GestionesQuietas DEF Salir
  <2> QED
    BY <2>1, <2>2, <2>3, PartesSesionesDespues
<1>4. ASSUME NEW n \in Navegador, CambiarEscribe(n) PROVE InductivoSesiones'
  <2>0. gestion[n] \in Gestiones /\ gestion[n].cuenta \in Cuenta
    BY <1>0, <1>4 DEF CambiarEscribe, GestionesBien, SabeDe
  <2>1. PICK c \in Cuenta : c = gestion[n].cuenta
    BY <2>0
  <2>2. /\ clave[c] < MaxClave /\ clave' = [clave EXCEPT ![c] = @ + 1]
        /\ porCerrar' = porCerrar \cup {c}
    BY <1>4, <2>1 DEF CambiarEscribe, CambiarHash
  <2>3. /\ clave' \in [Cuenta -> 0..MaxClave]
        /\ \A x \in Cuenta : clave[x] <= clave'[x]
        /\ clave'[c] \in 1..MaxClave
    BY <1>a, <2>1, <2>2, SesionesAssumption
  <2>4. SesionesBien'
    BY <1>0, <1>4, <2>1, <2>2, OtraClave DEF CambiarEscribe
  <2>5. TablasBien'
    BY <1>0, <1>4, <2>1, <2>2, <2>3 DEF CambiarEscribe, TablasBien
  <2>6. PICK k \in 1..MaxClave : k = clave'[c]
    BY <2>3
  <2>7. PICK g \in Gestiones :
          /\ gestion' = [gestion EXCEPT ![n] = g]
          /\ g.fase = "cerrando" /\ g.cuenta = c /\ g.leida = k
    <3> DEFINE f == [gestion[n] EXCEPT !.fase = "cerrando"]
               g == [f EXCEPT !.leida = k]
    <3>1. f \in Gestiones /\ f.fase = "cerrando" /\ f.cuenta = gestion[n].cuenta
      BY <2>0 DEF Gestiones, FasesGestion
    <3>2. gestion' = [gestion EXCEPT ![n] = g]
      BY <1>4, <2>1, <2>6 DEF CambiarEscribe
    <3> HIDE DEF f
    <3>3. g \in Gestiones /\ g.leida = k /\ g.fase = f.fase /\ g.cuenta = f.cuenta
      BY <3>1, SesionesAssumption DEF Gestiones, FasesGestion
    <3> HIDE DEF g
    <3> QED
      BY <2>1, <3>1, <3>2, <3>3
  <2>8. SabeDe(g)'
    BY <2>6, <2>7, SesionesAssumption DEF SabeDe
  <2>10. GestionesBien'
    BY <1>0, <2>3, <2>7, <2>8, GestionesSiguen
  <2> QED
    BY <2>4, <2>5, <2>10, PartesSesionesDespues
<1>5. ASSUME NEW n \in Navegador, CambiarCierra(n) PROVE InductivoSesiones'
  <2>1. /\ gestion[n] \in Gestiones /\ gestion[n].cuenta \in Cuenta
        /\ gestion[n].leida > 0 /\ gestion[n].leida <= clave[gestion[n].cuenta]
    BY <1>0, <1>5 DEF CambiarCierra, GestionesBien, SabeDe
  <2>2. SesionesBien' /\ porCerrar' \subseteq Cuenta
    BY <1>0, <1>5, <2>1, CerrarBien DEF CambiarCierra
  <2>3. TablasBien'
    BY <1>0, <1>5, <2>2 DEF CambiarCierra, TablasBien
  <2> DEFINE g == [gestion[n] EXCEPT !.fase = "reabriendo"]
  <2>4. /\ g \in Gestiones /\ g.cuenta = gestion[n].cuenta /\ g.leida = gestion[n].leida
    BY <2>1 DEF Gestiones, FasesGestion
  <2>5. gestion' = [gestion EXCEPT ![n] = g] /\ clave' = clave
    BY <1>5 DEF CambiarCierra
  <2>6. PICK h \in Gestiones :
          /\ gestion' = [gestion EXCEPT ![n] = h] /\ h.cuenta \in Cuenta
          /\ h.leida > 0 /\ h.leida <= clave[h.cuenta]
    BY <2>1, <2>4, <2>5
  <2>7. SabeDe(h)'
    BY <2>5, <2>6 DEF SabeDe
  <2>8. GestionesBien'
    BY <1>0, <1>a, <2>5, <2>6, <2>7, GestionesSiguen
  <2> QED
    BY <2>2, <2>3, <2>8, PartesSesionesDespues
<1>6. ASSUME NEW n \in Navegador, CambiarReabre(n) PROVE InductivoSesiones'
  <2>1. /\ gestion[n].cuenta \in Cuenta /\ gestion[n].leida \in 0..MaxClave
        /\ gestion[n].leida > 0 /\ gestion[n].leida <= clave[gestion[n].cuenta]
    BY <1>0, <1>6 DEF CambiarReabre, GestionesBien, SabeDe, Gestiones
  <2>2. clave[gestion[n].cuenta] > 0
    BY <1>a, <2>1, SesionesAssumption
  <2>3. SesionesBien'
    BY <1>0, <1>6, <2>1, <2>2, NuevaSesion DEF CambiarReabre
  <2>4. TablasBien'
    BY <1>0, <1>6 DEF CambiarReabre, TablasBien
  <2>5. GestionesBien'
    BY <1>b, <1>6 DEF CambiarReabre
  <2> QED
    BY <2>3, <2>4, <2>5, PartesSesionesDespues
<1>7. ASSUME NEW c \in Cuenta, AltaUsuario(c) \/ ResetearEscribe(c)
      PROVE  InductivoSesiones'
  <2>1. \/ clave[c] < MaxClave /\ clave' = [clave EXCEPT ![c] = @ + 1]
           /\ porCerrar' = porCerrar \cup {c}
        \/ clave[c] = 0 /\ clave' = [clave EXCEPT ![c] = 1] /\ porCerrar' = porCerrar
    BY <1>7 DEF AltaUsuario, ResetearEscribe, CambiarHash
  <2>2. /\ clave' \in [Cuenta -> 0..MaxClave]
        /\ \A x \in Cuenta : clave[x] <= clave'[x]
    BY <1>a, <2>1, SesionesAssumption
  <2>3. UNCHANGED <<sesiones, tokens, cookie, gestion>> /\ cli' \subseteq Cuenta
    BY <1>0, <1>7 DEF AltaUsuario, ResetearEscribe, TablasBien
  <2>4. SesionesBien'
    BY <1>0, <2>1, <2>3, OtraClave
  <2>5. TablasBien'
    BY <1>0, <2>1, <2>2, <2>3 DEF TablasBien
  <2>6. GestionesBien'
    BY <1>0, <2>2, <2>3, GestionesQuietas
  <2> QED
    BY <2>4, <2>5, <2>6, PartesSesionesDespues
<1>8. ASSUME NEW c \in Cuenta, ResetearCierra(c) PROVE InductivoSesiones'
  <2>1. SesionesBien' /\ porCerrar' \subseteq Cuenta
    BY <1>0, <1>8, CerrarBien DEF ResetearCierra
  <2>2. TablasBien'
    BY <1>0, <1>8, <2>1 DEF ResetearCierra, TablasBien, NingunReset
  <2>3. GestionesBien'
    BY <1>0, <1>a, <1>8, GestionesQuietas DEF ResetearCierra
  <2> QED
    BY <2>1, <2>2, <2>3, PartesSesionesDespues
<1>9. CASE PasaHora \/ UNCHANGED varsSesiones
  <2>1. UNCHANGED <<clave, sesiones, tokens, cookie, gestion, cli, porCerrar>>
    BY <1>9 DEF PasaHora, varsSesiones
  <2>2. TablasBien' /\ SesionesBien'
    BY <1>0, <2>1, MenosSesiones DEF TablasBien
  <2>3. GestionesBien'
    BY <1>0, <1>a, <2>1, GestionesQuietas
  <2> QED
    BY <2>2, <2>3, PartesSesionesDespues
<1>10. CASE MuerePanel
  <2>1. TablasBien' /\ SesionesBien'
    BY <1>0, <1>10, MenosSesiones DEF MuerePanel, TablasBien
  <2>2. GestionesBien'
    BY <1>10, QuietaBien DEF MuerePanel, GestionesBien
  <2> QED
    BY <2>1, <2>2, PartesSesionesDespues
<1> QED
  BY <1>1, <1>2, <1>3, <1>4, <1>5, <1>6, <1>7, <1>8, <1>9, <1>10 DEF NextSesiones

\* For any accounts and browsers, whatever is interleaved with a change of
\* password or dies half way through it: a session opened with a password
\* that is not the account's any more is marked to be closed, or its own
\* request read the old hash before the change; and no token is given twice
\* (sesion.go: cambiarContrasena, entrar; auth.go).
THEOREM LaClaveVieja == SpecSesiones => []SoloClaveVigente
<1>1. InductivoSesiones => SoloClaveVigente
  BY DEF InductivoSesiones
<1> QED
  BY InicioSesiones, PasoSesiones, <1>1, PTL DEF SpecSesiones

-----------------------------------------------------------------------------
(* The change of the network.                                              *)

Ayudas == [fase : {"libre", "escribir", "validar", "armar", "aplicar", "deshacer"},
           ajuste : Ajuste \cup {Nadie}]

\* A helper goes on with the same configuration, or has no more to do.
LEMMA AyudaSigue ==
    ASSUME ayudante \in [Ayudante -> Ayudas], NEW h \in Ayudante,
           NEW f \in {"libre", "escribir", "validar", "armar", "aplicar", "deshacer"}
    PROVE  /\ Quieto \in Ayudas /\ Quieto.fase = "libre"
           /\ Pasa(h, f) => /\ ayudante' \in [Ayudante -> Ayudas] /\ ayudante'[h].fase = f
                            /\ \A k \in Ayudante \ {h} : ayudante'[k] = ayudante[k]
           /\ Acaba(h) => /\ ayudante' \in [Ayudante -> Ayudas]
                          /\ ayudante'[h].fase = "libre"
                          /\ \A k \in Ayudante \ {h} : ayudante'[k] = ayudante[k]
BY DEF Ayudas, Pasa, Acaba, Quieto

\* Nobody at work, nothing pending, what there is chosen.
LEMMA InicioCambio == InitCambio => InductivoCambio
<1> SUFFICES ASSUME InitCambio PROVE InductivoCambio
  OBVIOUS
<1>1. /\ \A h \in Ayudante : ayudante[h] = Quieto /\ ayudante[h].fase = "libre"
      /\ \A m \in Margen : margen[m] = "nadie"
  BY DEF InitCambio, Quieto
<1>2. TypeOKCambio
  BY DEF InitCambio, TypeOKCambio, Quieto, EnFase
<1>3. UnAyudante /\ QuienVuelve
  BY <1>1 DEF InitCambio, UnAyudante, QuienVuelve, EnFase
<1>4. DondeVuelve
  BY <1>1 DEF InitCambio, DondeVuelve, Volviendo
<1> QED
  BY <1>2, <1>3, <1>4 DEF InductivoCambio

\* The types of what the helper keeps.
LEMMA PasoTiposCambio == TypeOKCambio /\ [NextCambio]_varsCambio => TypeOKCambio'
<1> SUFFICES ASSUME TypeOKCambio, [NextCambio]_varsCambio PROVE TypeOKCambio'
  OBVIOUS
<1>0. /\ ayudante \in [Ayudante -> Ayudas]
      /\ \A h \in Ayudante : ayudante[h].fase = "escribir" => ayudante[h].ajuste \in Ajuste
  BY DEF TypeOKCambio, Ayudas, EnFase
<1> DEFINE Escribe == \A k \in Ayudante : ayudante'[k].fase = "escribir" => ayudante'[k].ajuste \in Ajuste
<1> USE DEF EnFase
<1>1. ASSUME NEW h \in Ayudante, NEW c \in Ajuste, GuardarRed(h, c) PROVE TypeOKCambio'
  <2>1. ayudante' \in [Ayudante -> Ayudas] /\ Escribe
    BY <1>0, <1>1 DEF GuardarRed, Ayudas
  <2>2. deUno' \in BOOLEAN
    BY <1>1 DEF GuardarRed, TypeOKCambio, Suelta
  <2> QED
    BY <1>1, <2>1, <2>2 DEF GuardarRed, TypeOKCambio, Ayudas
<1>2. ASSUME NEW h \in Ayudante, EscribirRed(h) PROVE TypeOKCambio'
  <2>1. ayudante' \in [Ayudante -> Ayudas] /\ Escribe
    BY <1>0, <1>2, AyudaSigue DEF EscribirRed
  <2>2. destino' \in Ajuste \cup {Inicial}
    BY <1>0, <1>2 DEF EscribirRed
  <2> QED
    BY <1>2, <2>1, <2>2 DEF EscribirRed, TypeOKCambio, Ayudas
<1>3. ASSUME NEW h \in Ayudante, Rechazar(h) PROVE TypeOKCambio'
  <2>1. ayudante' \in [Ayudante -> Ayudas] /\ Escribe
    BY <1>0, <1>3, AyudaSigue DEF Rechazar
  <2> QED
    BY <1>3, <2>1 DEF Rechazar, TypeOKCambio, Ayudas
<1>4. ASSUME NEW h \in Ayudante, Atestiguar(h) PROVE TypeOKCambio'
  <2>1. ayudante' \in [Ayudante -> Ayudas] /\ Escribe
    BY <1>0, <1>4, AyudaSigue DEF Atestiguar
  <2> QED
    BY <1>4, <2>1 DEF Atestiguar, TypeOKCambio, Ayudas
<1>5. ASSUME NEW h \in Ayudante, NEW m \in Margen, Armar(h, m) PROVE TypeOKCambio'
  <2>1. ayudante' \in [Ayudante -> Ayudas] /\ Escribe
    BY <1>0, <1>5, AyudaSigue DEF Armar
  <2> QED
    BY <1>5, <2>1 DEF Armar, TypeOKCambio, Ayudas
<1>6. ASSUME NEW h \in Ayudante, AplicarRed(h) PROVE TypeOKCambio'
  <2>1. ayudante' \in [Ayudante -> Ayudas] /\ Escribe
    BY <1>0, <1>6, AyudaSigue DEF AplicarRed
  <2> QED
    BY <1>6, <2>1 DEF AplicarRed, TypeOKCambio, Ayudas
<1>7. ASSUME NEW h \in Ayudante, Revertir(h) PROVE TypeOKCambio'
  <2>1. ayudante' \in [Ayudante -> Ayudas] /\ Escribe /\ deUno' \in BOOLEAN
    BY <1>0, <1>7, AyudaSigue DEF Revertir, TypeOKCambio, EnMarcha
  <2> QED
    BY <1>7, <2>1 DEF Revertir, TypeOKCambio, Ayudas
<1>8. ASSUME NEW h \in Ayudante, Deshacer(h) PROVE TypeOKCambio'
  <2>1. ayudante' \in [Ayudante -> Ayudas] /\ Escribe
    BY <1>0, <1>8, AyudaSigue DEF Deshacer
  <2> QED
    BY <1>8, <2>1 DEF Deshacer, TypeOKCambio, Ayudas
<1>9. ASSUME NEW m \in Margen,
             Despertar(m) \/ VencidoCopia(m) \/ VencidoAplica(m) \/ VencidoBorra(m)
      PROVE  TypeOKCambio'
  BY <1>9 DEF Despertar, VencidoCopia, VencidoAplica, VencidoBorra, TypeOKCambio
<1>10. CASE Confirmar
  BY <1>10 DEF Confirmar, TypeOKCambio
<1>11. CASE Reiniciar
  BY <1>11 DEF Reiniciar, TypeOKCambio, Quieto
<1>12. CASE UNCHANGED varsCambio
  BY <1>12 DEF varsCambio, TypeOKCambio
<1> QED
  BY <1>1, <1>2, <1>3, <1>4, <1>5, <1>6, <1>7, <1>8, <1>9, <1>10, <1>11, <1>12
  DEF NextCambio

\* Nothing comes on top of a pending order in an execution where nothing did,
\* and the machine does not start again.
LEMMA DeUnoViene ==
    ASSUME TypeOKCambio, [NextCambio]_varsCambio, deUno'
    PROVE  /\ deUno /\ (Reiniciar => UNCHANGED varsCambio)
           /\ \A h \in Ayudante, c \in Ajuste : GuardarRed(h, c) => Suelta
           /\ \A h \in Ayudante : Revertir(h) => ~ EnMarcha
<1>1. ASSUME UNCHANGED deUno PROVE deUno
  BY <1>1
<1>2. ~ Reiniciar
  BY DEF Reiniciar
<1>3. \A h \in Ayudante, c \in Ajuste : GuardarRed(h, c) => deUno /\ Suelta
  BY DEF GuardarRed
<1>4. \A h \in Ayudante : Revertir(h) => deUno /\ ~ EnMarcha
  BY DEF Revertir
<1> QED
  BY <1>1, <1>2, <1>3, <1>4 DEF NextCambio, EscribirRed, Rechazar, Atestiguar, Armar,
     AplicarRed, Deshacer, Despertar, VencidoCopia, VencidoAplica, VencidoBorra, Confirmar,
     varsCambio

\* What RedVuelve rests on is kept by every command of the helper, of the
\* margins that end, of who confirms and of who goes back.
LEMMA PasoCambio == InductivoCambio /\ [NextCambio]_varsCambio => InductivoCambio'
<1> SUFFICES ASSUME TypeOKCambio, [NextCambio]_varsCambio, deUno',
                    UnAyudante, QuienVuelve, DondeVuelve
             PROVE  UnAyudante' /\ QuienVuelve' /\ DondeVuelve'
  BY PasoTiposCambio, DeUnoViene DEF InductivoCambio
<1>0. ayudante \in [Ayudante -> Ayudas]
  BY DEF TypeOKCambio, Ayudas
<1> USE DEF EnFase, EnMarcha, Volviendo
<1>1. ASSUME NEW h \in Ayudante, NEW c \in Ajuste, GuardarRed(h, c)
      PROVE  UnAyudante' /\ QuienVuelve' /\ DondeVuelve'
  <2>1. ~ EnMarcha /\ ~ testigo /\ ~ Volviendo
    BY <1>1, DeUnoViene DEF Suelta
  <2>2. /\ ayudante'[h].fase = "escribir"
        /\ \A k \in Ayudante \ {h} : ayudante'[k] = ayudante[k]
        /\ anterior' = destino /\ UNCHANGED <<destino, testigo, margen, red, elegida>>
    BY <1>0, <1>1 DEF GuardarRed
  <2>3. destino \in elegida /\ red = destino
    BY <2>1 DEF DondeVuelve
  <2>4. UnAyudante'
    BY <2>1, <2>2, <2>3 DEF UnAyudante
  <2>5. QuienVuelve'
    BY <2>1, <2>2 DEF QuienVuelve
  <2>6. DondeVuelve'
    BY <2>1, <2>2, <2>3 DEF DondeVuelve
  <2> QED
    BY <2>4, <2>5, <2>6
<1>2. ASSUME NEW h \in Ayudante, EscribirRed(h)
      PROVE  UnAyudante' /\ QuienVuelve' /\ DondeVuelve'
  <2>1. /\ ayudante[h].fase = "escribir" /\ ayudante'[h].fase = "validar"
        /\ \A k \in Ayudante \ {h} : ayudante'[k] = ayudante[k]
        /\ UNCHANGED <<anterior, testigo, margen, red, elegida>>
    BY <1>0, <1>2, AyudaSigue DEF EscribirRed
  <2>2. ~ testigo /\ ~ Volviendo /\ red = anterior /\ anterior \in elegida
    BY <2>1 DEF UnAyudante
  <2>3. UnAyudante'
    BY <2>1, <2>2 DEF UnAyudante
  <2>4. QuienVuelve'
    BY <2>1, <2>2 DEF QuienVuelve
  <2>5. DondeVuelve'
    BY <2>1, <2>2 DEF DondeVuelve
  <2> QED
    BY <2>3, <2>4, <2>5
<1>3. ASSUME NEW h \in Ayudante, Rechazar(h)
      PROVE  UnAyudante' /\ QuienVuelve' /\ DondeVuelve'
  <2>1. /\ ayudante[h].fase = "validar" /\ ayudante'[h].fase = "libre"
        /\ \A k \in Ayudante \ {h} : ayudante'[k] = ayudante[k]
        /\ destino' = anterior /\ UNCHANGED <<anterior, testigo, margen, red, elegida>>
    BY <1>0, <1>3, AyudaSigue DEF Rechazar
  <2>2. ~ testigo /\ ~ Volviendo /\ red = anterior /\ anterior \in elegida
    BY <2>1 DEF UnAyudante
  <2>3. UnAyudante'
    BY <2>1, <2>2 DEF UnAyudante
  <2>4. QuienVuelve'
    BY <2>1, <2>2 DEF QuienVuelve
  <2>5. DondeVuelve'
    BY <2>1, <2>2 DEF DondeVuelve
  <2> QED
    BY <2>3, <2>4, <2>5
<1>4. ASSUME NEW h \in Ayudante, Atestiguar(h)
      PROVE  UnAyudante' /\ QuienVuelve' /\ DondeVuelve'
  <2>1. /\ ayudante[h].fase = "validar" /\ ayudante'[h].fase = "armar"
        /\ \A k \in Ayudante \ {h} : ayudante'[k] = ayudante[k]
        /\ testigo' /\ UNCHANGED <<destino, anterior, margen, red, elegida>>
    BY <1>0, <1>4, AyudaSigue DEF Atestiguar
  <2>2. ~ Volviendo /\ anterior \in elegida
    BY <2>1 DEF UnAyudante
  <2>3. UnAyudante'
    BY <2>1, <2>2 DEF UnAyudante
  <2>4. QuienVuelve'
    BY <2>1, <2>2 DEF QuienVuelve
  <2>5. DondeVuelve'
    BY <2>1, <2>2 DEF DondeVuelve
  <2> QED
    BY <2>3, <2>4, <2>5
<1>5. ASSUME NEW h \in Ayudante, NEW m \in Margen, Armar(h, m)
      PROVE  UnAyudante' /\ QuienVuelve' /\ DondeVuelve'
  <2>1. /\ ayudante[h].fase = "armar" /\ ayudante'[h].fase = "aplicar"
        /\ \A k \in Ayudante \ {h} : ayudante'[k] = ayudante[k]
        /\ UNCHANGED <<destino, anterior, testigo, red, elegida>>
    BY <1>0, <1>5, AyudaSigue DEF Armar
  <2>2. /\ margen[m] = "nadie" /\ margen'[m] = "duerme"
        /\ \A n \in Margen \ {m} : margen'[n] = margen[n]
    BY <1>5 DEF Armar, TypeOKCambio
  <2>3. Volviendo' <=> Volviendo
    BY <2>2
  <2>4. UnAyudante'
    BY <2>1, <2>3 DEF UnAyudante
  <2>5. QuienVuelve'
    BY <2>1, <2>2 DEF QuienVuelve
  <2>6. DondeVuelve'
    BY <2>1, <2>3 DEF DondeVuelve
  <2> QED
    BY <2>4, <2>5, <2>6
<1>6. ASSUME NEW h \in Ayudante, AplicarRed(h)
      PROVE  UnAyudante' /\ QuienVuelve' /\ DondeVuelve'
  <2>1. /\ ayudante[h].fase = "aplicar" /\ ayudante'[h].fase = "libre"
        /\ \A k \in Ayudante \ {h} : ayudante'[k] = ayudante[k]
        /\ red' = destino /\ UNCHANGED <<destino, anterior, testigo, margen, elegida>>
    BY <1>0, <1>6, AyudaSigue DEF AplicarRed
  <2>2. \A k \in Ayudante : ayudante'[k].fase = "libre"
    BY <2>1 DEF UnAyudante
  <2>3. UnAyudante'
    BY <2>2 DEF UnAyudante
  <2>4. QuienVuelve'
    BY <2>1 DEF QuienVuelve
  <2>5. DondeVuelve'
    BY <2>1, <2>2 DEF DondeVuelve, UnAyudante
  <2> QED
    BY <2>3, <2>4, <2>5
<1>7. ASSUME NEW h \in Ayudante, Revertir(h)
      PROVE  UnAyudante' /\ QuienVuelve' /\ DondeVuelve'
  <2>1. ~ EnMarcha
    BY <1>7, DeUnoViene
  <2>2. /\ ayudante'[h].fase = "deshacer"
        /\ \A k \in Ayudante \ {h} : ayudante'[k] = ayudante[k]
        /\ ~ testigo' /\ elegida' = {anterior} /\ UNCHANGED <<destino, anterior, margen, red>>
    BY <1>0, <1>7, AyudaSigue DEF Revertir
  <2>3. UnAyudante'
    BY <2>1, <2>2 DEF UnAyudante
  <2>4. QuienVuelve'
    BY <2>1, <2>2 DEF QuienVuelve
  <2>5. DondeVuelve'
    BY <2>1, <2>2 DEF DondeVuelve
  <2> QED
    BY <2>3, <2>4, <2>5
<1>8. ASSUME NEW h \in Ayudante, Deshacer(h)
      PROVE  UnAyudante' /\ QuienVuelve' /\ DondeVuelve'
  <2>1. /\ ayudante[h].fase = "deshacer" /\ ayudante'[h].fase = "aplicar"
        /\ \A k \in Ayudante \ {h} : ayudante'[k] = ayudante[k]
        /\ destino' = anterior /\ UNCHANGED <<anterior, testigo, margen, red, elegida>>
    BY <1>0, <1>8, AyudaSigue DEF Deshacer
  <2>2. ~ testigo /\ anterior \in elegida
    BY <2>1 DEF UnAyudante
  <2>3. UnAyudante'
    BY <2>1, <2>2 DEF UnAyudante
  <2>4. QuienVuelve'
    BY <2>1, <2>2 DEF QuienVuelve
  <2>5. DondeVuelve'
    BY <2>1, <2>2 DEF DondeVuelve
  <2> QED
    BY <2>3, <2>4, <2>5
<1>9. ASSUME NEW m \in Margen, Despertar(m)
      PROVE  UnAyudante' /\ QuienVuelve' /\ DondeVuelve'
  <2>1. /\ margen[m] = "duerme" /\ margen'[m] = (IF testigo THEN "copiar" ELSE "nadie")
        /\ \A n \in Margen \ {m} : margen'[n] = margen[n]
        /\ UNCHANGED <<ayudante, destino, anterior, testigo, red, elegida>>
    BY <1>9 DEF Despertar, TypeOKCambio
  <2>2. UnAyudante'
    BY <2>1 DEF UnAyudante
  <2>3. QuienVuelve'
    BY <2>1 DEF QuienVuelve
  <2>4. DondeVuelve'
    BY <2>1 DEF DondeVuelve
  <2> QED
    BY <2>2, <2>3, <2>4
<1>10. ASSUME NEW m \in Margen, VencidoCopia(m)
       PROVE  UnAyudante' /\ QuienVuelve' /\ DondeVuelve'
  <2>1. /\ margen[m] = "copiar" /\ margen'[m] = "aplicar"
        /\ \A n \in Margen \ {m} : margen'[n] = margen[n]
        /\ destino' = anterior /\ UNCHANGED <<ayudante, anterior, testigo, red, elegida>>
    BY <1>10 DEF VencidoCopia, TypeOKCambio
  <2>2. UnAyudante'
    BY <2>1 DEF UnAyudante
  <2>3. QuienVuelve'
    <3>1. \A n \in Margen : margen[n] = "borrar" => red = anterior
      BY DEF QuienVuelve
    <3> QED
      BY <2>1, <3>1 DEF QuienVuelve
  <2>4. DondeVuelve'
    BY <2>1 DEF DondeVuelve
  <2> QED
    BY <2>2, <2>3, <2>4
<1>11. ASSUME NEW m \in Margen, VencidoAplica(m)
       PROVE  UnAyudante' /\ QuienVuelve' /\ DondeVuelve'
  <2>1. /\ margen[m] = "aplicar" /\ margen'[m] = "borrar"
        /\ \A n \in Margen \ {m} : margen'[n] = margen[n]
        /\ red' = destino /\ UNCHANGED <<ayudante, destino, anterior, testigo, elegida>>
    BY <1>11 DEF VencidoAplica, TypeOKCambio
  <2>2. UnAyudante'
    BY <2>1 DEF UnAyudante
  <2>3. QuienVuelve'
    BY <2>1 DEF QuienVuelve
  <2>4. DondeVuelve'
    BY <2>1 DEF DondeVuelve
  <2> QED
    BY <2>2, <2>3, <2>4
<1>12. ASSUME NEW m \in Margen, VencidoBorra(m)
       PROVE  UnAyudante' /\ QuienVuelve' /\ DondeVuelve'
  <2>1. /\ margen[m] = "borrar" /\ margen'[m] = "nadie"
        /\ \A n \in Margen \ {m} : margen'[n] = margen[n]
        /\ ~ testigo' /\ UNCHANGED <<ayudante, destino, anterior, red, elegida>>
    BY <1>12 DEF VencidoBorra, TypeOKCambio
  <2>2. destino = anterior /\ red = destino /\ anterior \in elegida
    BY <2>1 DEF QuienVuelve, DondeVuelve
  <2>3. UnAyudante'
    BY <2>1 DEF UnAyudante
  <2>4. QuienVuelve'
    BY <2>1 DEF QuienVuelve
  <2>5. DondeVuelve'
    BY <2>1, <2>2 DEF DondeVuelve
  <2> QED
    BY <2>3, <2>4, <2>5
<1>13. ASSUME Confirmar PROVE UnAyudante' /\ QuienVuelve' /\ DondeVuelve'
  <2>1. /\ testigo /\ ~ testigo' /\ destino \in elegida'
        /\ UNCHANGED <<ayudante, destino, anterior, margen, red>>
    BY <1>13 DEF Confirmar
  <2>2. Volviendo => elegida \subseteq elegida'
    BY <1>13, Zenon DEF Confirmar
  <2>3. \A h \in Ayudante : ayudante[h].fase \notin {"escribir", "validar", "deshacer"}
    BY <2>1 DEF UnAyudante
  <2>4. UnAyudante'
    BY <2>1, <2>3 DEF UnAyudante
  <2>5. QuienVuelve'
    BY <2>1 DEF QuienVuelve
  <2>6. DondeVuelve'
    BY <2>1, <2>2 DEF DondeVuelve
  <2> QED
    BY <2>4, <2>5, <2>6
<1>14. CASE UNCHANGED varsCambio
  <2>1. UnAyudante'
    BY <1>14 DEF varsCambio, UnAyudante
  <2>2. QuienVuelve' /\ DondeVuelve'
    BY <1>14 DEF varsCambio, QuienVuelve, DondeVuelve
  <2> QED
    BY <2>1, <2>2
<1> QED
  <2>1. Reiniciar => UNCHANGED varsCambio
    BY DeUnoViene
  <2> QED
    BY <1>1, <1>2, <1>3, <1>4, <1>5, <1>6, <1>7, <1>8, <1>9, <1>10, <1>11, <1>12, <1>13,
       <1>14, <2>1
    DEF NextCambio

\* At rest, what is in use is what is written, and what is written was chosen.
LEMMA LaRedVuelve == InductivoCambio => RedVuelve
<1> SUFFICES ASSUME InductivoCambio, deUno, EnReposo PROVE red \in elegida
  BY DEF RedVuelve
<1>1. ~ EnMarcha /\ ~ Volviendo /\ ~ testigo
  BY DEF InductivoCambio, EnReposo, QuienVuelve, Volviendo, EnMarcha, EnFase
<1> QED
  BY <1>1 DEF InductivoCambio, DondeVuelve, EnMarcha, EnFase

-----------------------------------------------------------------------------
(* The change of the firewall.                                             *)

Ordenes == [paso : {"libre", "parar", "armar", "cargar", "deshacer", "vaciar", "restaurar"},
            reglas : Reglas \cup {DeFabrica}]

\* An execution goes on with the same rules, or has no more to do.
LEMMA OrdenSigue ==
    ASSUME orden \in [Ejecucion -> Ordenes], NEW e \in Ejecucion,
           NEW p \in {"libre", "parar", "armar", "cargar", "deshacer", "vaciar", "restaurar"}
    PROVE  /\ Parada \in Ordenes /\ Parada.paso = "libre"
           /\ Sigue(e, p) => /\ orden' \in [Ejecucion -> Ordenes] /\ orden'[e].paso = p
                             /\ orden'[e].reglas = orden[e].reglas
                             /\ \A g \in Ejecucion \ {e} : orden'[g] = orden[g]
           /\ Termina(e) => /\ orden' \in [Ejecucion -> Ordenes] /\ orden'[e].paso = "libre"
                            /\ \A g \in Ejecucion \ {e} : orden'[g] = orden[g]
BY DEF Ordenes, Sigue, Termina, Parada

\* Nothing runs, and what is loaded is chosen.
LEMMA InicioReglas == InitReglas => InductivoReglas
<1> SUFFICES ASSUME InitReglas PROVE InductivoReglas
  OBVIOUS
<1>1. \A e \in Ejecucion : orden[e].paso = "libre"
  BY DEF InitReglas, Parada
<1>2. TypeOKReglas
  BY DEF InitReglas, TypeOKReglas, Parada, Conjuntos
<1>3. UnaOrden
  BY <1>1 DEF UnaOrden, EnPaso, Ejecucion
<1>4. DondeVuelven
  BY <1>1 DEF InitReglas, DondeVuelven, EnPaso, Deshaciendo
<1> QED
  BY <1>2, <1>3, <1>4 DEF InductivoReglas

\* The types of what the firewall's script keeps.
LEMMA PasoTiposReglas == TypeOKReglas /\ [NextReglas]_varsReglas => TypeOKReglas'
<1> SUFFICES ASSUME TypeOKReglas, [NextReglas]_varsReglas PROVE TypeOKReglas'
  OBVIOUS
<1>0. /\ orden \in [Ejecucion -> Ordenes] /\ Orden \subseteq Ejecucion
      /\ Servicio \in Ejecucion
  BY DEF TypeOKReglas, Ordenes, Ejecucion
<1>1. ASSUME NEW e \in Orden, NEW f \in Reglas, AplicarReglas(e, f) PROVE TypeOKReglas'
  <2>1. orden' \in [Ejecucion -> Ordenes]
    BY <1>0, <1>1 DEF AplicarReglas, Ordenes
  <2>2. unaAUna' \in BOOLEAN
    BY <1>1 DEF AplicarReglas, TypeOKReglas, HayOrden, EnPaso
  <2> QED
    BY <1>1, <2>1, <2>2 DEF AplicarReglas, TypeOKReglas, Ordenes
<1>2. ASSUME NEW e \in Ejecucion,
             \/ PararTemporizador(e) \/ ArmarTemporizador(e) \/ SinTemporizador(e)
             \/ Cargar(e) \/ NoCargar(e) \/ DesarmarTemporizador(e) \/ VaciarReglas(e)
             \/ RestaurarReglas(e)
      PROVE  TypeOKReglas'
  <2>1. orden' \in [Ejecucion -> Ordenes]
    BY <1>0, <1>2, OrdenSigue
    DEF PararTemporizador, ArmarTemporizador, SinTemporizador, Cargar, NoCargar,
        DesarmarTemporizador, VaciarReglas, RestaurarReglas
  <2>2. reglas' \in Conjuntos
    <3>1. CASE Cargar(e)
      BY <1>0, <3>1 DEF Cargar, Ordenes, Conjuntos
    <3>2. CASE RestaurarReglas(e)
      BY <3>2 DEF RestaurarReglas, TypeOKReglas
    <3>3. CASE VaciarReglas(e)
      BY <3>3 DEF VaciarReglas, Conjuntos
    <3>4. CASE UNCHANGED reglas
      BY <3>4 DEF TypeOKReglas
    <3> QED
      BY <1>2, <3>1, <3>2, <3>3, <3>4
      DEF PararTemporizador, ArmarTemporizador, SinTemporizador, NoCargar,
          DesarmarTemporizador
  <2>3. temporizador' \in BOOLEAN
    BY <1>2
    DEF PararTemporizador, ArmarTemporizador, SinTemporizador, Cargar, NoCargar,
        DesarmarTemporizador, VaciarReglas, RestaurarReglas, TypeOKReglas
  <2>4. UNCHANGED <<respaldo, elegidas, unaAUna>>
    BY <1>2
    DEF PararTemporizador, ArmarTemporizador, SinTemporizador, Cargar, NoCargar,
        DesarmarTemporizador, VaciarReglas, RestaurarReglas
  <2> QED
    BY <2>1, <2>2, <2>3, <2>4 DEF TypeOKReglas, Ordenes
<1>3. ASSUME NEW e \in Orden, RevertirReglas(e) PROVE TypeOKReglas'
  <2>1. orden' \in [Ejecucion -> Ordenes]
    BY <1>0, <1>3, OrdenSigue DEF RevertirReglas
  <2>2. unaAUna' \in BOOLEAN
    BY <1>3 DEF RevertirReglas, TypeOKReglas, HayOrden, EnPaso
  <2> QED
    BY <1>3, <2>1, <2>2 DEF RevertirReglas, TypeOKReglas, Ordenes
<1>4. CASE VencerReglas
  <2>1. orden' \in [Ejecucion -> Ordenes]
    BY <1>0, <1>4, OrdenSigue DEF VencerReglas
  <2>2. unaAUna' \in BOOLEAN
    BY <1>4 DEF VencerReglas, TypeOKReglas, EnPaso
  <2> QED
    BY <1>4, <2>1, <2>2 DEF VencerReglas, TypeOKReglas, Ordenes
<1>5. CASE ConfirmarReglas
  <2>1. unaAUna' \in BOOLEAN
    BY <1>5 DEF ConfirmarReglas, TypeOKReglas, HayOrden, EnPaso
  <2>2. elegidas' \subseteq Conjuntos
    BY <1>5, Zenon DEF ConfirmarReglas, TypeOKReglas
  <2> QED
    BY <1>5, <2>1, <2>2 DEF ConfirmarReglas, TypeOKReglas
<1>6. CASE UNCHANGED varsReglas
  BY <1>6 DEF varsReglas, TypeOKReglas
<1> QED
  BY <1>0, <1>1, <1>2, <1>3, <1>4, <1>5, <1>6 DEF NextReglas

\* Nothing comes on top of a pending order in an execution where nothing did,
\* and no margin ends while the rules of its change are being loaded.
LEMMA UnaAUnaViene ==
    ASSUME TypeOKReglas, [NextReglas]_varsReglas, unaAUna'
    PROVE  /\ unaAUna
           /\ \A e \in Orden, f \in Reglas :
                AplicarReglas(e, f) => ~ HayOrden /\ ~ temporizador /\ EnPaso(Servicio, "libre")
           /\ \A e \in Orden : RevertirReglas(e) => ~ HayOrden
           /\ VencerReglas => \A e \in Orden : ~ EnPaso(e, "cargar")
           /\ ConfirmarReglas => ~ HayOrden
<1>1. ASSUME UNCHANGED unaAUna PROVE unaAUna
  BY <1>1
<1>2. \A e \in Orden, f \in Reglas : AplicarReglas(e, f) =>
        unaAUna /\ ~ HayOrden /\ ~ temporizador /\ EnPaso(Servicio, "libre")
  BY DEF AplicarReglas
<1>3. \A e \in Orden : RevertirReglas(e) => unaAUna /\ ~ HayOrden
  BY DEF RevertirReglas
<1>4. VencerReglas => unaAUna /\ \A e \in Orden : ~ EnPaso(e, "cargar")
  BY DEF VencerReglas
<1>5. ConfirmarReglas => unaAUna /\ ~ HayOrden
  BY DEF ConfirmarReglas
<1> QED
  BY <1>1, <1>2, <1>3, <1>4, <1>5
  DEF NextReglas, PararTemporizador, ArmarTemporizador, SinTemporizador, Cargar, NoCargar,
      DesarmarTemporizador, VaciarReglas, RestaurarReglas, varsReglas

\* What ReglasVuelven rests on is kept by every command of the script and of
\* the timer's service.
LEMMA PasoReglas == InductivoReglas /\ [NextReglas]_varsReglas => InductivoReglas'
<1> SUFFICES ASSUME TypeOKReglas, [NextReglas]_varsReglas, unaAUna',
                    UnaOrden, DondeVuelven
             PROVE  UnaOrden' /\ DondeVuelven'
  BY PasoTiposReglas, UnaAUnaViene DEF InductivoReglas
<1>0. /\ orden \in [Ejecucion -> Ordenes] /\ Orden \subseteq Ejecucion
      /\ Servicio \in Ejecucion /\ Servicio \notin Orden
      /\ \A e \in Ejecucion : e \in Orden \/ e = Servicio
  BY ReglasAssumption DEF TypeOKReglas, Ordenes, Ejecucion
<1> USE DEF EnPaso, HayOrden, Deshaciendo
\* It is enough to look at the one execution by hand there is.
<1>f. ASSUME NEW e \in Orden, \A g \in Orden \ {e} : orden'[g].paso = "libre",
             orden'[Servicio].paso = "libre" \/ Deshaciendo(Servicio)',
             orden'[e].paso \in {"parar", "armar", "cargar"} =>
               /\ orden'[Servicio].paso = "libre"
               /\ temporizador' <=> orden'[e].paso = "cargar"
               /\ reglas' = respaldo' /\ respaldo' \in elegidas'
      PROVE  UnaOrden'
  <2>1. \A g \in Orden : orden'[g].paso # "libre" => g = e
    BY <1>f
  <2>2. temporizador' \in BOOLEAN
    BY PasoTiposReglas DEF TypeOKReglas
  <2> QED
    BY <1>f, <2>1, <2>2 DEF UnaOrden
<1>1. ASSUME NEW e \in Orden, NEW f \in Reglas, AplicarReglas(e, f)
      PROVE  UnaOrden' /\ DondeVuelven'
  <2>1. ~ HayOrden /\ ~ temporizador /\ EnPaso(Servicio, "libre")
    BY <1>1, UnaAUnaViene
  <2>2. /\ orden'[e].paso = "parar" /\ \A g \in Ejecucion \ {e} : orden'[g] = orden[g]
        /\ respaldo' = reglas /\ UNCHANGED <<reglas, temporizador, elegidas>>
    BY <1>0, <1>1 DEF AplicarReglas
  <2>3. reglas \in elegidas
    BY <1>0, <2>1 DEF DondeVuelven
  <2>4. /\ \A g \in Orden \ {e} : orden'[g].paso = "libre"
        /\ orden'[Servicio].paso = "libre"
    BY <1>0, <2>1, <2>2
  <2>5. UnaOrden'
    BY <1>f, <2>1, <2>2, <2>3, <2>4
  <2>6. DondeVuelven'
    BY <1>0, <2>1, <2>2, <2>3 DEF DondeVuelven
  <2> QED
    BY <2>5, <2>6
<1>2. ASSUME NEW e \in Orden, PararTemporizador(e) PROVE UnaOrden' /\ DondeVuelven'
  <2>1. /\ orden[e].paso = "parar" /\ orden'[e].paso = "armar" /\ ~ temporizador'
        /\ \A g \in Ejecucion \ {e} : orden'[g] = orden[g]
        /\ UNCHANGED <<reglas, respaldo, elegidas>>
    BY <1>0, <1>2, OrdenSigue DEF PararTemporizador
  <2>2. /\ respaldo \in elegidas /\ reglas = respaldo /\ orden[Servicio].paso = "libre"
        /\ \A g \in Orden \ {e} : orden[g].paso = "libre"
    BY <2>1 DEF UnaOrden
  <2>3. UnaOrden'
    BY <1>0, <1>f, <2>1, <2>2
  <2>4. DondeVuelven'
    BY <1>0, <2>1 DEF DondeVuelven
  <2> QED
    BY <2>3, <2>4
<1>3. ASSUME NEW e \in Orden, ArmarTemporizador(e) PROVE UnaOrden' /\ DondeVuelven'
  <2>1. /\ orden[e].paso = "armar" /\ orden'[e].paso = "cargar" /\ temporizador'
        /\ \A g \in Ejecucion \ {e} : orden'[g] = orden[g]
        /\ orden[Servicio].paso = "libre"
        /\ UNCHANGED <<reglas, respaldo, elegidas>>
    BY <1>0, <1>3, OrdenSigue DEF ArmarTemporizador
  <2>2. /\ respaldo \in elegidas /\ reglas = respaldo
        /\ \A g \in Orden \ {e} : orden[g].paso = "libre"
    BY <2>1 DEF UnaOrden
  <2>3. UnaOrden'
    BY <1>0, <2>1, <2>2 DEF UnaOrden
  <2>4. DondeVuelven'
    BY <1>0, <2>1, <2>2 DEF DondeVuelven
  <2> QED
    BY <2>3, <2>4
<1>4. ASSUME NEW e \in Orden, SinTemporizador(e) PROVE UnaOrden' /\ DondeVuelven'
  <2>1. /\ orden[e].paso = "armar" /\ orden'[e].paso = "libre"
        /\ \A g \in Ejecucion \ {e} : orden'[g] = orden[g]
        /\ UNCHANGED <<reglas, respaldo, temporizador, elegidas>>
    BY <1>0, <1>4, OrdenSigue DEF SinTemporizador
  <2>2. UnaOrden'
    BY <1>0, <2>1 DEF UnaOrden
  <2>3. DondeVuelven'
    BY <1>0, <2>1 DEF DondeVuelven, UnaOrden
  <2> QED
    BY <2>2, <2>3
<1>5. ASSUME NEW e \in Orden, Cargar(e) PROVE UnaOrden' /\ DondeVuelven'
  <2>1. /\ orden[e].paso = "cargar" /\ orden'[e].paso = "libre"
        /\ \A g \in Ejecucion \ {e} : orden'[g] = orden[g]
        /\ UNCHANGED <<respaldo, temporizador, elegidas>>
    BY <1>0, <1>5, OrdenSigue DEF Cargar
  <2>2. /\ temporizador /\ orden[Servicio].paso = "libre"
        /\ \A g \in Orden \ {e} : orden[g].paso = "libre"
    BY <2>1 DEF UnaOrden
  <2>3. UnaOrden'
    BY <1>0, <1>f, <2>1, <2>2
  <2>4. DondeVuelven'
    BY <1>0, <2>1, <2>2 DEF DondeVuelven
  <2> QED
    BY <2>3, <2>4
<1>6. ASSUME NEW e \in Orden, NoCargar(e) PROVE UnaOrden' /\ DondeVuelven'
  <2>1. /\ orden[e].paso = "cargar" /\ orden'[e].paso = "deshacer"
        /\ \A g \in Ejecucion \ {e} : orden'[g] = orden[g]
        /\ UNCHANGED <<reglas, respaldo, temporizador, elegidas>>
    BY <1>0, <1>6, OrdenSigue DEF NoCargar
  <2>2. UnaOrden'
    BY <1>0, <2>1 DEF UnaOrden
  <2>3. DondeVuelven'
    BY <1>0, <2>1 DEF DondeVuelven, UnaOrden
  <2> QED
    BY <2>2, <2>3
<1>7. ASSUME NEW e \in Orden, RevertirReglas(e) PROVE UnaOrden' /\ DondeVuelven'
  <2>1. \A g \in Orden : orden[g].paso = "libre"
    BY <1>7, UnaAUnaViene
  <2>2. /\ orden'[e].paso = "deshacer" /\ \A g \in Ejecucion \ {e} : orden'[g] = orden[g]
        /\ elegidas' = {respaldo} /\ UNCHANGED <<reglas, respaldo, temporizador>>
    BY <1>0, <1>7, OrdenSigue DEF RevertirReglas
  <2>3. UnaOrden'
    BY <1>0, <2>1, <2>2 DEF UnaOrden
  <2>4. DondeVuelven'
    BY <1>0, <2>1, <2>2 DEF DondeVuelven
  <2> QED
    BY <2>3, <2>4
<1>8. ASSUME NEW e \in Ejecucion, DesarmarTemporizador(e) PROVE UnaOrden' /\ DondeVuelven'
  <2>1. /\ orden[e].paso = "deshacer" /\ orden'[e].paso = "vaciar" /\ ~ temporizador'
        /\ \A g \in Ejecucion \ {e} : orden'[g] = orden[g]
        /\ UNCHANGED <<reglas, respaldo, elegidas>>
    BY <1>0, <1>8, OrdenSigue DEF DesarmarTemporizador
  <2>2. \A g \in Orden : orden[g].paso \notin {"parar", "armar", "cargar"}
    BY <1>0, <2>1 DEF UnaOrden
  <2>3. UnaOrden'
    BY <1>0, <2>1, <2>2 DEF UnaOrden
  <2>4. DondeVuelven'
    BY <1>0, <2>1 DEF DondeVuelven
  <2> QED
    BY <2>3, <2>4
<1>9. ASSUME NEW e \in Ejecucion, VaciarReglas(e) PROVE UnaOrden' /\ DondeVuelven'
  <2>1. /\ orden[e].paso = "vaciar" /\ orden'[e].paso = "restaurar" /\ reglas' = Abierto
        /\ \A g \in Ejecucion \ {e} : orden'[g] = orden[g]
        /\ UNCHANGED <<respaldo, temporizador, elegidas>>
    BY <1>0, <1>9, OrdenSigue DEF VaciarReglas
  <2>2. \A g \in Orden : orden[g].paso \notin {"parar", "armar", "cargar"}
    BY <1>0, <2>1 DEF UnaOrden
  <2>3. UnaOrden'
    BY <1>0, <2>1, <2>2 DEF UnaOrden
  <2>4. DondeVuelven'
    BY <1>0, <2>1 DEF DondeVuelven
  <2> QED
    BY <2>3, <2>4
<1>10. ASSUME NEW e \in Ejecucion, RestaurarReglas(e) PROVE UnaOrden' /\ DondeVuelven'
  <2>1. /\ orden[e].paso = "restaurar" /\ orden'[e].paso = "libre"
        /\ \A g \in Ejecucion \ {e} : orden'[g] = orden[g]
        /\ UNCHANGED <<respaldo, temporizador, elegidas>>
    BY <1>0, <1>10, OrdenSigue DEF RestaurarReglas
  <2>2. reglas' = respaldo /\ respaldo \in elegidas
    BY <2>1, <1>10 DEF DondeVuelven, RestaurarReglas
  <2>3. \A g \in Orden : orden[g].paso \notin {"parar", "armar", "cargar"}
    BY <1>0, <2>1 DEF UnaOrden
  <2>4. UnaOrden'
    BY <1>0, <2>1, <2>3 DEF UnaOrden
  <2>5. DondeVuelven'
    BY <1>0, <2>1, <2>2 DEF DondeVuelven
  <2> QED
    BY <2>4, <2>5
<1>11. CASE VencerReglas
  <2>1. /\ temporizador /\ orden[Servicio].paso = "libre"
        /\ \A e \in Orden : orden[e].paso # "cargar"
    BY <1>11, UnaAUnaViene DEF VencerReglas
  <2>2. /\ orden'[Servicio].paso = "deshacer"
        /\ \A g \in Ejecucion \ {Servicio} : orden'[g] = orden[g]
        /\ UNCHANGED <<reglas, respaldo, temporizador, elegidas>>
    BY <1>0, <1>11, OrdenSigue DEF VencerReglas
  <2>3. \A e \in Orden : orden[e].paso \notin {"parar", "armar", "cargar"}
    BY <2>1 DEF UnaOrden
  <2>4. UnaOrden'
    BY <1>0, <2>2, <2>3 DEF UnaOrden
  <2>5. DondeVuelven'
    BY <1>0, <2>1, <2>2 DEF DondeVuelven
  <2> QED
    BY <2>4, <2>5
<1>12. CASE ConfirmarReglas
  <2>1. \A e \in Orden : orden[e].paso = "libre"
    BY <1>12, UnaAUnaViene
  <2>2. /\ ~ temporizador' /\ reglas \in elegidas' /\ UNCHANGED <<reglas, respaldo, orden>>
    BY <1>12 DEF ConfirmarReglas
  <2>3. orden[Servicio].paso # "libre" => elegidas \subseteq elegidas'
    BY <1>12, Zenon DEF ConfirmarReglas
  <2>4. UnaOrden'
    BY <2>1, <2>2 DEF UnaOrden
  <2>5. DondeVuelven'
    BY <1>0, <2>1, <2>2, <2>3 DEF DondeVuelven
  <2> QED
    BY <2>4, <2>5
<1>13. CASE UNCHANGED varsReglas
  <2>1. UnaOrden'
    BY <1>13 DEF varsReglas, UnaOrden
  <2>2. DondeVuelven'
    BY <1>13 DEF varsReglas, DondeVuelven
  <2> QED
    BY <2>1, <2>2
<1> QED
  BY <1>1, <1>2, <1>3, <1>4, <1>5, <1>6, <1>7, <1>8, <1>9, <1>10, <1>11, <1>12, <1>13
  DEF NextReglas

-----------------------------------------------------------------------------
(* The settings.                                                           *)

\* A set of naturals has a least element ...
LEMMA Menor ==
    ASSUME NEW T, T \subseteq Nat, T # {}
    PROVE  \E n \in T : \A k \in T : n <= k
<1>1. PICK n \in T : \A k \in T : ~(<<k, n>> \in OpToRel(<, Nat))
  BY NatLessThanWellFounded, WFMin, Zenon
<1>2. \A k \in T : ~(k < n)
  BY <1>1 DEF OpToRel
<1> QED
  BY <1>2

\* ... so what holds at zero and after each turn of a loop holds at every turn.
LEMMA PorVueltas ==
    ASSUME NEW S, 0 \in S, \A n \in Nat : n \in S => n + 1 \in S
    PROVE  Nat \subseteq S
<1> SUFFICES ASSUME Nat \ S # {} PROVE FALSE
  OBVIOUS
<1>1. PICK n \in Nat \ S : \A k \in Nat \ S : n <= k
  BY Menor
<1>2. n # 0 /\ n - 1 \in Nat /\ n - 1 < n
  BY <1>1
<1> QED
  BY <1>1, <1>2

\* The positions of a list that satisfy something have a last one.
LEMMA Mayor ==
    ASSUME NEW n \in Nat, NEW T, T \subseteq 1..n, T # {}
    PROVE  \E m \in T : \A k \in T : k <= m
<1> DEFINE U == {n - i : i \in T}
<1>0. U \subseteq Nat /\ U # {}
  <2>1. PICK i \in T : TRUE
    OBVIOUS
  <2>2. n - i \in U
    OBVIOUS
  <2> QED
    BY <2>2
<1>1. PICK u \in U : \A v \in U : u <= v
  <2> HIDE DEF U
  <2> QED
    BY <1>0, Menor
<1>2. PICK m \in T : u = n - m
  BY <1>1
<1>3. \A k \in T : n - m <= n - k
  BY <1>1, <1>2
<1> QED
  BY <1>3

\* The loop of guardarAjustes over the models sent is well defined.
LEMMA BucleExiste ==
    ASSUME NEW c, NEW ms \in Seq(UnModelo)
    PROVE  Bucle(c, ms) =
             [n \in 0..Len(ms) |->
                IF n = 0 THEN <<>>
                ELSE IF ConClave(c, ms[n]).clave = SinClave THEN Bucle(c, ms)[n - 1]
                ELSE Append(Bucle(c, ms)[n - 1], ConClave(c, ms[n]))]
<1> DEFINE Paso(h, n) == IF n = 0 THEN <<>>
                         ELSE IF ConClave(c, ms[n]).clave = SinClave THEN h[n - 1]
                         ELSE Append(h[n - 1], ConClave(c, ms[n]))
           S == {k \in Nat : \E h : h = [n \in 0..k |-> Paso(h, n)]}
<1>1. 0 \in S
  <2>1. [n \in 0..0 |-> <<>>] = [n \in 0..0 |-> Paso([m \in 0..0 |-> <<>>], n)]
    OBVIOUS
  <2> QED
    BY <2>1
<1>2. ASSUME NEW k \in Nat, k \in S PROVE k + 1 \in S
  <2> SUFFICES \E h : h = [n \in 0..(k + 1) |-> Paso(h, n)]
    OBVIOUS
  <2>1. PICK h : h = [n \in 0..k |-> Paso(h, n)]
    BY <1>2
  <2> DEFINE g == [n \in 0..(k + 1) |-> IF n <= k THEN h[n] ELSE Paso(h, n)]
  <2>2. ASSUME NEW n \in 0..(k + 1) PROVE g[n] = Paso(g, n)
    <3>1. n # 0 => n - 1 \in 0..k /\ g[n - 1] = h[n - 1]
      OBVIOUS
    <3>2. Paso(g, n) = Paso(h, n)
      BY <3>1
    <3>3. CASE n <= k
      <4>1. n \in 0..k
        BY <3>3
      <4>2. h[n] = Paso(h, n)
        BY <2>1, <4>1
      <4> QED
        BY <3>2, <4>2, <3>3
    <3>4. CASE n = k + 1
      BY <3>2, <3>4
    <3> QED
      BY <3>3, <3>4
  <2>3. g = [n \in 0..(k + 1) |-> Paso(g, n)]
    <3> HIDE DEF Paso
    <3> DEFINE f == [n \in 0..(k + 1) |-> Paso(g, n)]
    <3>1. DOMAIN f = 0..(k + 1) /\ DOMAIN g = 0..(k + 1)
      OBVIOUS
    <3>2. \A n \in 0..(k + 1) : f[n] = Paso(g, n)
      OBVIOUS
    <3> QED
      BY <2>2, <3>2
  <2> WITNESS g
  <2> QED
    BY <2>3
<1>3. Len(ms) \in S
  <2> HIDE DEF S
  <2>1. Nat \subseteq S
    BY <1>1, <1>2, PorVueltas
  <2> QED
    BY <2>1, LenProperties
<1>4. \E h : h = [n \in 0..Len(ms) |-> Paso(h, n)]
  BY <1>3
<1> QED
  BY <1>4 DEF Bucle

\* What one turn of the loop does.
LEMMA BucleVuelta ==
    ASSUME NEW c, NEW ms \in Seq(UnModelo)
    PROVE  /\ Bucle(c, ms)[0] = <<>>
           /\ \A n \in 1..Len(ms) :
                Bucle(c, ms)[n] =
                  IF ConClave(c, ms[n]).clave = SinClave THEN Bucle(c, ms)[n - 1]
                  ELSE Append(Bucle(c, ms)[n - 1], ConClave(c, ms[n]))
<1> DEFINE f == [n \in 0..Len(ms) |->
                   IF n = 0 THEN <<>>
                   ELSE IF ConClave(c, ms[n]).clave = SinClave THEN Bucle(c, ms)[n - 1]
                   ELSE Append(Bucle(c, ms)[n - 1], ConClave(c, ms[n]))]
<1>1. Bucle(c, ms) = f
  BY BucleExiste
<1>2. Len(ms) \in Nat
  BY LenProperties
<1>3. f[0] = <<>>
  BY <1>2
<1>4. ASSUME NEW n \in 1..Len(ms)
      PROVE  f[n] = IF ConClave(c, ms[n]).clave = SinClave THEN Bucle(c, ms)[n - 1]
                    ELSE Append(Bucle(c, ms)[n - 1], ConClave(c, ms[n]))
  <2>1. n \in 0..Len(ms) /\ n # 0
    BY <1>2
  <2> QED
    BY <2>1
<1> HIDE DEF f
<1> QED
  BY <1>1, <1>3, <1>4

\* After each turn "nuevos" is a list of models with key: the ones sent so far,
\* each with its own or the one its provider had.
LEMMA BucleLlena ==
    ASSUME NEW c, NEW ms \in Seq(UnModelo), \A m \in UnModelo : ConClave(c, m) \in UnModelo
    PROVE  \A n \in 0..Len(ms) :
             /\ Bucle(c, ms)[n] \in Seq(UnModelo)
             /\ \A j \in DOMAIN Bucle(c, ms)[n] : Bucle(c, ms)[n][j].clave # SinClave
             /\ \A j \in DOMAIN Bucle(c, ms)[n] :
                  \E i \in 1..n : Bucle(c, ms)[n][j] = ConClave(c, ms[i])
             /\ \A i \in 1..n : ConClave(c, ms[i]).clave # SinClave =>
                  \E j \in DOMAIN Bucle(c, ms)[n] : Bucle(c, ms)[n][j] = ConClave(c, ms[i])
<1> DEFINE v == Bucle(c, ms)
           Bien(n) == /\ v[n] \in Seq(UnModelo)
                      /\ \A j \in DOMAIN v[n] : v[n][j].clave # SinClave
                      /\ \A j \in DOMAIN v[n] : \E i \in 1..n : v[n][j] = ConClave(c, ms[i])
                      /\ \A i \in 1..n : ConClave(c, ms[i]).clave # SinClave =>
                           \E j \in DOMAIN v[n] : v[n][j] = ConClave(c, ms[i])
           S == {n \in Nat : n <= Len(ms) => Bien(n)}
<1>0. Len(ms) \in Nat
  BY LenProperties
<1>1. 0 \in S
  <2>1. v[0] = <<>>
    BY BucleVuelta
  <2>2. Bien(0)
    BY <2>1
  <2> QED
    BY <2>2
<1>2. ASSUME NEW n \in Nat, n \in S PROVE n + 1 \in S
  <2> SUFFICES ASSUME n + 1 <= Len(ms) PROVE Bien(n + 1)
    BY <1>0
  <2> DEFINE m == ConClave(c, ms[n + 1])
  <2>1. Bien(n)
    BY <1>0, <1>2
  <2>2. ms[n + 1] \in UnModelo /\ m \in UnModelo
    BY <1>0, ElementOfSeq
  <2>3. v[n + 1] = IF m.clave = SinClave THEN v[n] ELSE Append(v[n], m)
    <3>1. n + 1 \in 1..Len(ms) /\ (n + 1) - 1 = n
      BY <1>0
    <3> QED
      BY <3>1, BucleVuelta
  <2>4. CASE m.clave = SinClave
    <3>1. v[n + 1] = v[n]
      BY <2>3, <2>4
    <3>2. \A i \in 1..(n + 1) : i \in 1..n \/ i = n + 1
      OBVIOUS
    <3> HIDE DEF v
    <3>3. \A j \in DOMAIN v[n + 1] : \E i \in 1..(n + 1) : v[n + 1][j] = ConClave(c, ms[i])
      <4> TAKE j \in DOMAIN v[n + 1]
      <4>1. PICK i \in 1..n : v[n][j] = ConClave(c, ms[i])
        BY <2>1, <3>1
      <4>2. i \in 1..(n + 1)
        OBVIOUS
      <4> QED
        BY <3>1, <4>1, <4>2
    <3>4. ASSUME NEW i \in 1..(n + 1), ConClave(c, ms[i]).clave # SinClave
          PROVE  \E j \in DOMAIN v[n + 1] : v[n + 1][j] = ConClave(c, ms[i])
      <4>1. i \in 1..n
        BY <2>4, <3>2, <3>4
      <4> QED
        BY <2>1, <3>1, <3>4, <4>1
    <3> QED
      BY <2>1, <3>1, <3>3, <3>4
  <2>5. CASE m.clave # SinClave
    <3>1. v[n + 1] = Append(v[n], m)
      BY <2>3, <2>5
    <3> HIDE DEF v
    <3>2. /\ v[n + 1] \in Seq(UnModelo) /\ Len(v[n + 1]) = Len(v[n]) + 1
          /\ \A j \in 1..Len(v[n]) : v[n + 1][j] = v[n][j]
          /\ v[n + 1][Len(v[n]) + 1] = m
      BY <2>1, <2>2, <3>1, AppendProperties
    <3>3. Len(v[n]) \in Nat /\ DOMAIN v[n] = 1..Len(v[n]) /\ DOMAIN v[n + 1] = 1..(Len(v[n]) + 1)
      BY <2>1, <3>2, LenProperties
    <3>4. \A j \in DOMAIN v[n + 1] : j \in DOMAIN v[n] \/ j = Len(v[n]) + 1
      BY <3>3
    <3>5. \A j \in DOMAIN v[n + 1] : v[n + 1][j].clave # SinClave
      BY <2>1, <2>5, <3>2, <3>3, <3>4
    <3>6. \A j \in DOMAIN v[n + 1] : \E i \in 1..(n + 1) : v[n + 1][j] = ConClave(c, ms[i])
      <4> TAKE j \in DOMAIN v[n + 1]
      <4>1. CASE j \in DOMAIN v[n]
        <5>1. PICK i \in 1..n : v[n][j] = ConClave(c, ms[i])
          BY <2>1, <4>1
        <5>2. i \in 1..(n + 1) /\ v[n + 1][j] = v[n][j]
          BY <3>2, <3>3, <4>1
        <5> QED
          BY <5>1, <5>2
      <4>2. CASE j = Len(v[n]) + 1
        BY <3>2, <4>2
      <4> QED
        BY <3>4, <4>1, <4>2
    <3>7. ASSUME NEW i \in 1..(n + 1), ConClave(c, ms[i]).clave # SinClave
          PROVE  \E j \in DOMAIN v[n + 1] : v[n + 1][j] = ConClave(c, ms[i])
      <4>1. CASE i = n + 1
        BY <3>2, <3>3, <4>1
      <4>2. CASE i \in 1..n
        <5>1. PICK j \in DOMAIN v[n] : v[n][j] = ConClave(c, ms[i])
          BY <2>1, <3>7, <4>2
        <5>2. j \in DOMAIN v[n + 1] /\ v[n + 1][j] = v[n][j]
          BY <3>2, <3>3
        <5> QED
          BY <5>1, <5>2
      <4> QED
        BY <4>1, <4>2
    <3> QED
      BY <3>2, <3>5, <3>6, <3>7
  <2> QED
    BY <2>4, <2>5
<1>3. Nat \subseteq S
  <2> HIDE DEF S
  <2> QED
    BY <1>1, <1>2, PorVueltas
<1> QED
  BY <1>0, <1>3

\* A list of models keeps the last key of each provider.
LEMMA ClaveDeLista ==
    ASSUME NEW ms \in Seq(UnModelo), NEW p
    PROVE  /\ ClaveDe(ms, p) = SinClave <=>
                \A i \in DOMAIN ms : ms[i].prov = p => ms[i].clave = SinClave
           /\ ClaveDe(ms, p) # SinClave =>
                \E i \in DOMAIN ms : ms[i].prov = p /\ ClaveDe(ms, p) = ms[i].clave
           /\ ClaveDe(ms, p) \in Clave \cup {SinClave}
<1> DEFINE con == {i \in DOMAIN ms : ms[i].prov = p /\ ms[i].clave # SinClave}
           u == CHOOSE i \in con : \A j \in con : j <= i
<1>1. DOMAIN ms = 1..Len(ms) /\ Len(ms) \in Nat
  BY LenProperties
<1>2. \A i \in DOMAIN ms : ms[i] \in UnModelo
  BY <1>1, ElementOfSeq
<1>3. CASE con = {}
  BY <1>3 DEF ClaveDe
<1>4. CASE con # {}
  <2>1. \E i \in con : \A j \in con : j <= i
    <3>1. con \subseteq 1..Len(ms)
      BY <1>1
    <3> HIDE DEF con
    <3> QED
      BY <1>1, <1>4, <3>1, Mayor
  <2>2. u \in con
    BY <2>1
  <2>3. ClaveDe(ms, p) = ms[u].clave
    BY <1>4 DEF ClaveDe
  <2>4. u \in DOMAIN ms /\ ms[u].prov = p /\ ms[u].clave # SinClave
    BY <2>2
  <2> HIDE DEF u, con
  <2>5. ms[u].clave \in Clave \cup {SinClave}
    BY <1>2, <2>4 DEF UnModelo
  <2> QED
    BY <2>3, <2>4, <2>5
<1> QED
  BY <1>3, <1>4

\* The models in use are a list of models.
LEMMA EfectivosEsLista ==
    ASSUME NEW c \in Configs
    PROVE  ModelosEfectivos(c) \in Seq(UnModelo) /\ generadorDe(c) \in Seq(UnModelo)
<1>1. Suelto(c) \in UnModelo
  BY AjustesAssumption DEF Suelto, Configs, UnModelo, Tipo
<1>2. c.modelos \in Seq(UnModelo) /\ <<Suelto(c)>> \in Seq(UnModelo) /\ <<>> \in Seq(UnModelo)
  BY <1>1 DEF Configs
<1>3. ModelosEfectivos(c) \in Seq(UnModelo)
  BY <1>2 DEF ModelosEfectivos
<1> QED
  BY <1>2, <1>3 DEF generadorDe

\* A model sent without key takes one, whatever its provider had.
LEMMA ConClaveEsModelo ==
    ASSUME NEW c \in Configs, NEW m \in UnModelo
    PROVE  ConClave(c, m) \in UnModelo
<1>1. Viejas(c, m.prov) \in Clave \cup {SinClave}
  BY EfectivosEsLista, ClaveDeLista DEF Viejas
<1> QED
  BY <1>1 DEF ConClave, UnModelo

\* The list a form leaves is a list of models.
LEMMA ListaNuevaEsLista ==
    ASSUME NEW c \in Configs, NEW ms \in Seq(UnModelo)
    PROVE  ListaNueva(c, ms) \in Seq(UnModelo)
<1>1. Len(ms) \in 0..Len(ms)
  BY LenProperties
<1> QED
  BY <1>1, ConClaveEsModelo, BucleLlena DEF ListaNueva

\* A provider the form lists without a key of its own keeps the one it had.
LEMMA ListaConservaClaves ==
    ASSUME NEW c \in Configs, NEW ms \in Seq(UnModelo), NEW i \in DOMAIN ms,
           Viejas(c, ms[i].prov) # SinClave, ClaveDe(ms, ms[i].prov) = SinClave
    PROVE  /\ ListaNueva(c, ms) # <<>>
           /\ ClaveDe(ListaNueva(c, ms), ms[i].prov) = Viejas(c, ms[i].prov)
<1> DEFINE p == ms[i].prov
           l == ListaNueva(c, ms)
<1>1. Len(ms) \in 0..Len(ms) /\ DOMAIN ms = 1..Len(ms)
  BY LenProperties
<1>2. /\ l \in Seq(UnModelo)
      /\ \A j \in DOMAIN l : l[j].clave # SinClave
      /\ \A j \in DOMAIN l : \E k \in DOMAIN ms : l[j] = ConClave(c, ms[k])
      /\ \A k \in DOMAIN ms : ConClave(c, ms[k]).clave # SinClave =>
            \E j \in DOMAIN l : l[j] = ConClave(c, ms[k])
  <2>1. \A m \in UnModelo : ConClave(c, m) \in UnModelo
    BY ConClaveEsModelo
  <2>2. l = Bucle(c, ms)[Len(ms)]
    BY DEF ListaNueva
  <2>3. \A n \in 0..Len(ms) :
          /\ Bucle(c, ms)[n] \in Seq(UnModelo)
          /\ \A j \in DOMAIN Bucle(c, ms)[n] : Bucle(c, ms)[n][j].clave # SinClave
          /\ \A j \in DOMAIN Bucle(c, ms)[n] :
               \E k \in 1..n : Bucle(c, ms)[n][j] = ConClave(c, ms[k])
          /\ \A k \in 1..n : ConClave(c, ms[k]).clave # SinClave =>
               \E j \in DOMAIN Bucle(c, ms)[n] : Bucle(c, ms)[n][j] = ConClave(c, ms[k])
    BY <2>1, BucleLlena
  <2> HIDE DEF l
  <2> QED
    BY <1>1, <2>2, <2>3, ZenonT(40)
<1>3. \A k \in DOMAIN ms : ms[k] \in UnModelo
  BY <1>1, ElementOfSeq
<1>4. \A k \in DOMAIN ms : ms[k].prov = p => ms[k].clave = SinClave
  BY ClaveDeLista
<1>5. \A k \in DOMAIN ms : ConClave(c, ms[k]).prov = ms[k].prov
  BY <1>3 DEF ConClave, UnModelo
<1>6. \A k \in DOMAIN ms : ms[k].prov = p => ConClave(c, ms[k]).clave = Viejas(c, p)
  BY <1>3, <1>4 DEF ConClave, UnModelo
<1> HIDE DEF l
<1>7. PICK j \in DOMAIN l : l[j] = ConClave(c, ms[i])
  BY <1>2, <1>6
<1>8. l[j].prov = p /\ l[j].clave # SinClave
  BY <1>2, <1>5, <1>7
<1>9. ClaveDe(l, p) # SinClave
  BY <1>2, <1>8, ClaveDeLista
<1>10. PICK j2 \in DOMAIN l : l[j2].prov = p /\ ClaveDe(l, p) = l[j2].clave
  BY <1>2, <1>9, ClaveDeLista
<1>11. PICK k \in DOMAIN ms : l[j2] = ConClave(c, ms[k])
  BY <1>2
<1>12. ClaveDe(l, p) = Viejas(c, p)
  BY <1>5, <1>6, <1>10, <1>11
<1> QED
  BY <1>7, <1>12 DEF l

\* At most one value comes with a field of a form, and it is one of those sent.
LEMMA TomaBien ==
    ASSUME NEW S, NEW e \in SUBSET S, NEW si \in S
    PROVE  Toma(e, si) \in S
BY DEF Toma

\* The single provider a form leaves is one.
LEMMA SueltoDaConfig ==
    ASSUME NEW c \in Configs, NEW f \in Formas
    PROVE  LET d == CambiaSuelto(c, f) IN
           /\ d \in Configs
           /\ d.modelos = c.modelos /\ d.puertos = c.puertos /\ d.sueltas = c.sueltas
           /\ d.idioma = c.idioma /\ d.red = c.red
<1>1. /\ Toma(f.usarLLM, c.usarLLM) \in BOOLEAN /\ Toma(f.tipo, c.tipo) \in Tipo
      /\ Toma(f.url, c.url) \in Proveedor
  <2>1. /\ f.usarLLM \in SUBSET BOOLEAN /\ f.tipo \in SUBSET Tipo /\ f.url \in SUBSET Proveedor
        /\ c.usarLLM \in BOOLEAN /\ c.tipo \in Tipo /\ c.url \in Proveedor
    BY DEF Formas, Configs
  <2> QED
    BY <2>1, TomaBien
<1> DEFINE u == Toma(f.usarLLM, c.usarLLM)
           t == Toma(f.tipo, c.tipo)
           p == Toma(f.url, c.url)
<1>2. CambiaSuelto(c, f) = [c EXCEPT !.usarLLM = u, !.tipo = t, !.url = p]
  BY DEF CambiaSuelto, Configs
<1> HIDE DEF u, t, p
<1> QED
  BY <1>1, <1>2 DEF Configs, u, t, p

\* What guardarAjustes makes of each field.
LEMMA CamposDeLaForma ==
    ASSUME NEW c \in Configs, NEW f \in Formas
    PROVE  LET d == AplicarFormulario(c, f) IN
           /\ d = [modelos |-> d.modelos, usarLLM |-> d.usarLLM, tipo |-> d.tipo, url |-> d.url,
                   sueltas |-> d.sueltas, puertos |-> d.puertos, idioma |-> d.idioma,
                   red |-> d.red]
           /\ d.modelos = IF f.modelos = {} THEN c.modelos
                          ELSE ListaNueva(CambiaSuelto(c, f), Toma(f.modelos, <<>>))
           /\ d.puertos = Toma(f.puertos, c.puertos)
           /\ d.usarLLM = CambiaSuelto(c, f).usarLLM /\ d.tipo = CambiaSuelto(c, f).tipo
           /\ d.url = CambiaSuelto(c, f).url
           /\ d.sueltas \in [Tipo -> Clave \cup {SinClave}]
           /\ d.idioma = c.idioma /\ d.red = c.red
<1> DEFINE base == CambiaSuelto(c, f)
           L == IF f.modelos = {} THEN base.modelos ELSE ListaNueva(base, Toma(f.modelos, <<>>))
           P == Toma(f.puertos, base.puertos)
           K == [t \in Tipo |-> IF t \in f.borrar THEN SinClave
                               ELSE IF f.claves[t] = SinClave THEN c.sueltas[t]
                               ELSE f.claves[t]]
<1>1. K \in [Tipo -> Clave \cup {SinClave}]
  BY DEF Configs, Formas
<1>2. /\ base \in Configs /\ base.modelos = c.modelos /\ base.puertos = c.puertos
      /\ base.idioma = c.idioma /\ base.red = c.red
  BY SueltoDaConfig
<1>3. AplicarFormulario(c, f) = [base EXCEPT !.modelos = L, !.puertos = P, !.sueltas = K]
  BY <1>2 DEF AplicarFormulario, Configs
<1> HIDE DEF L, P, K, base
<1>4. AplicarFormulario(c, f) =
        [modelos |-> L, usarLLM |-> base.usarLLM, tipo |-> base.tipo, url |-> base.url,
         sueltas |-> K, puertos |-> P, idioma |-> base.idioma, red |-> base.red]
  BY <1>2, <1>3 DEF Configs
<1>5. /\ L = IF f.modelos = {} THEN c.modelos
             ELSE ListaNueva(CambiaSuelto(c, f), Toma(f.modelos, <<>>))
      /\ P = Toma(f.puertos, c.puertos)
  BY <1>2 DEF L, P, base
<1> QED
  BY <1>1, <1>2, <1>4, <1>5 DEF base

\* A form that Validar accepts leaves a configuration.
LEMMA FormaDaConfig ==
    ASSUME NEW c \in Configs, NEW f \in Formas, Validar(AplicarFormulario(c, f))
    PROVE  AplicarFormulario(c, f) \in Configs
<1> DEFINE d == AplicarFormulario(c, f)
<1>1. d.modelos \in Seq(UnModelo)
  <2>1. CASE f.modelos = {}
    BY <2>1, CamposDeLaForma DEF Configs
  <2>2. CASE f.modelos # {}
    <3>1. f.modelos \in SUBSET Seq(UnModelo) /\ <<>> \in Seq(UnModelo)
      BY DEF Formas
    <3>2. Toma(f.modelos, <<>>) \in Seq(UnModelo)
      BY <3>1, TomaBien
    <3> QED
      BY <2>2, <3>2, SueltoDaConfig, CamposDeLaForma, ListaNuevaEsLista
  <2> QED
    BY <2>1, <2>2
<1>2. d.puertos \in [Puesto -> PuertoUtil \cup {Apagado}]
  <2>1. \A t \in Puesto : d.puertos[t] \in PuertoUtil \cup {Apagado}
    BY DEF Validar
  <2>2. d.puertos = Toma(f.puertos, c.puertos)
    BY CamposDeLaForma
  <2>3. CASE f.puertos = {}
    BY <2>2, <2>3 DEF Toma, Configs
  <2>4. CASE f.puertos # {}
    <3>1. Toma(f.puertos, c.puertos) \in [Puesto -> Nat]
      BY <2>4 DEF Toma, Formas
    <3> HIDE DEF d
    <3> QED
      BY <2>1, <2>2, <3>1
  <2> QED
    BY <2>3, <2>4
<1>3. /\ d.idioma = c.idioma /\ d.red = c.red
      /\ d.sueltas \in [Tipo -> Clave \cup {SinClave}]
      /\ d = [modelos |-> d.modelos, usarLLM |-> d.usarLLM, tipo |-> d.tipo, url |-> d.url,
              sueltas |-> d.sueltas, puertos |-> d.puertos, idioma |-> d.idioma,
              red |-> d.red]
  BY CamposDeLaForma
<1>a. d.usarLLM \in BOOLEAN /\ d.tipo \in Tipo /\ d.url \in Proveedor
  <2>1. CambiaSuelto(c, f) \in Configs
    BY SueltoDaConfig
  <2>2. /\ d.usarLLM = CambiaSuelto(c, f).usarLLM /\ d.tipo = CambiaSuelto(c, f).tipo
        /\ d.url = CambiaSuelto(c, f).url
    BY CamposDeLaForma
  <2> HIDE DEF d
  <2> QED
    BY <2>1, <2>2 DEF Configs
<1> HIDE DEF d
<1>4. d \in Configs
  BY <1>1, <1>2, <1>3, <1>a DEF Configs
<1> QED
  BY <1>4 DEF d

\* The choice of language changes the language.
LEMMA IdiomaDaConfig ==
    ASSUME NEW c \in Configs, NEW i \in Idioma
    PROVE  /\ [c EXCEPT !.idioma = i] \in Configs
           /\ generadorDe([c EXCEPT !.idioma = i]) = generadorDe(c)
           /\ Validar(c) => Validar([c EXCEPT !.idioma = i])
<1> DEFINE d == [c EXCEPT !.idioma = i]
<1>1. /\ d.modelos = c.modelos /\ d.usarLLM = c.usarLLM /\ d.tipo = c.tipo /\ d.url = c.url
      /\ d.sueltas = c.sueltas
  BY DEF Configs
<1>2. d \in Configs /\ (Validar(c) => Validar(d))
  BY DEF Configs, Validar
<1> HIDE DEF d
<1>3. generadorDe(d) = generadorDe(c)
  BY <1>1 DEF generadorDe, ModelosEfectivos, Suelto
<1> QED
  BY <1>2, <1>3 DEF d

\* The addresses of the wizard change the addresses.
LEMMA RedDaConfig ==
    ASSUME NEW c \in Configs, NEW r \in ParDeRed
    PROVE  /\ [c EXCEPT !.red = r] \in Configs
           /\ Validar(c) => Validar([c EXCEPT !.red = r])
BY DEF Configs, Validar

\* A database without row and nobody running: nothing to keep yet.
LEMMA InicioAjustes == InitAjustes => InductivoAjustes
<1> SUFFICES ASSUME InitAjustes PROVE InductivoAjustes
  OBVIOUS
<1>1. TypeOKAjustes
  <2>1. /\ {fila, asistente} \subseteq Configs \cup {Ninguna}
        /\ copia \in [Programa -> Configs \cup {Ninguna}]
        /\ peticion \in [Manejador -> Peticiones \cup {SinPeticion}]
    BY DEF InitAjustes
  <2>2. generador \in Seq(UnModelo) /\ guardados \in Nat /\ caidasAj \in Nat
    BY DEF InitAjustes
  <2>3. cruce \in BOOLEAN
    BY DEF InitAjustes
  <2>4. /\ \A c \in {fila, asistente, copia["panel"], copia["collector"]} : c = Ninguna
        /\ \A q \in Manejador : peticion[q] = SinPeticion
    BY DEF InitAjustes, Programa
  <2> QED
    BY <2>1, <2>2, <2>3, <2>4 DEF TypeOKAjustes
<1>2. SaleDeLoLeido /\ HayFila /\ UnoSolo
  BY DEF InitAjustes, SaleDeLoLeido, HayFila, UnoSolo, Programa
<1> QED
  BY <1>1, <1>2 DEF InductivoAjustes

\* A handler in progress has a phase of its own, and so is told from a free one.
LEMMA FaseDeManejador ==
    ASSUME TypeOKAjustes, NEW q \in Manejador
    PROVE  /\ peticion[q] # SinPeticion => peticion[q] \in Peticiones
           /\ peticion[q] = SinPeticion <=> peticion[q].fase = "libre"
           /\ peticion[q] = SinPeticion <=> peticion[q].fase \notin {"escribir", "copiar", "avisar"}
BY DEF TypeOKAjustes, Peticiones, SinPeticion

\* A handler that moves on keeps what it read and what it writes.
LEMMA SiguienteFase ==
    ASSUME NEW h \in Peticiones, NEW x \in {"escribir", "copiar", "avisar"}
    PROVE  /\ [h EXCEPT !.fase = x] \in Peticiones
           /\ [h EXCEPT !.fase = x].fase = x
           /\ [h EXCEPT !.fase = x].leida = h.leida
           /\ [h EXCEPT !.fase = x].nueva = h.nueva
           /\ [h EXCEPT !.fase = x].forma = h.forma
           /\ [h EXCEPT !.fase = x] # SinPeticion
BY DEF Peticiones, SinPeticion

\* When one handler moves, what the others hold stays as good as it was.
LEMMA UnaPeticion ==
    ASSUME TypeOKAjustes, SaleDeLoLeido, NEW q \in Manejador,
           NEW h \in Peticiones \cup {SinPeticion},
           h # SinPeticion => Validar(h.nueva) /\ DeLoLeido(h),
           peticion' = [peticion EXCEPT ![q] = h]
    PROVE  /\ peticion' \in [Manejador -> Peticiones \cup {SinPeticion}]
           /\ \A r \in Manejador : peticion'[r] # SinPeticion => Validar(peticion'[r].nueva)
           /\ SaleDeLoLeido'
<1>1. peticion \in [Manejador -> Peticiones \cup {SinPeticion}]
  BY DEF TypeOKAjustes
<1>2. \A r \in Manejador : peticion'[r] = IF r = q THEN h ELSE peticion[r]
  BY <1>1
<1>3. peticion' \in [Manejador -> Peticiones \cup {SinPeticion}]
  BY <1>1
<1>4. \A r \in Manejador : peticion'[r] # SinPeticion => Validar(peticion'[r].nueva)
  BY <1>2 DEF TypeOKAjustes
<1>5. \A r \in Manejador : peticion'[r] # SinPeticion => DeLoLeido(peticion'[r])
  BY <1>2 DEF SaleDeLoLeido
<1> QED
  BY <1>3, <1>4, <1>5 DEF SaleDeLoLeido, DeLoLeido

\* Nobody's turn: the handlers hold what they held.
LEMMA MismasPeticiones ==
    ASSUME TypeOKAjustes, SaleDeLoLeido, UNCHANGED peticion
    PROVE  /\ peticion' \in [Manejador -> Peticiones \cup {SinPeticion}]
           /\ \A r \in Manejador : peticion'[r] # SinPeticion => Validar(peticion'[r].nueva)
           /\ SaleDeLoLeido'
BY DEF TypeOKAjustes, SaleDeLoLeido, DeLoLeido

\* Both handlers that save, the settings and the language, start from the
\* copy, and what they will write is a valid configuration.
LEMMA LoQueEmpieza ==
    ASSUME TypeOKAjustes, NEW q \in Manejador,
           \/ \E f \in Formularios : LeerAjustes(q, f)
           \/ \E i \in Idioma : fijarIdioma(q, i)
    PROVE  \E f \in Formularios \cup {Ninguna}, c \in Configs :
             /\ EmpezarAjuste(q, f, c)
             /\ DeLoLeido([fase |-> "escribir", leida |-> copia["panel"], nueva |-> c, forma |-> f])
<1>1. ASSUME NEW f \in Formularios, LeerAjustes(q, f)
      PROVE  \E g \in Formularios \cup {Ninguna}, c \in Configs :
               /\ EmpezarAjuste(q, g, c)
               /\ DeLoLeido([fase |-> "escribir", leida |-> copia["panel"], nueva |-> c, forma |-> g])
  <2> DEFINE c == AplicarFormulario(copia["panel"], f)
  <2>1. copia["panel"] \in Configs /\ Validar(c) /\ EmpezarAjuste(q, f, c)
    BY <1>1 DEF LeerAjustes, EmpezarAjuste, TypeOKAjustes, Programa
  <2>2. c \in Configs
    BY <2>1, FormaDaConfig, AjustesAssumption
  <2>3. DeLoLeido([fase |-> "escribir", leida |-> copia["panel"], nueva |-> c, forma |-> f])
    BY AjustesAssumption DEF DeLoLeido
  <2> QED
    BY <2>1, <2>2, <2>3
<1>2. ASSUME NEW i \in Idioma, fijarIdioma(q, i)
      PROVE  \E g \in Formularios \cup {Ninguna}, c \in Configs :
               /\ EmpezarAjuste(q, g, c)
               /\ DeLoLeido([fase |-> "escribir", leida |-> copia["panel"], nueva |-> c, forma |-> g])
  <2> DEFINE c == [copia["panel"] EXCEPT !.idioma = i]
  <2>1. copia["panel"] \in Configs /\ EmpezarAjuste(q, Ninguna, c)
    BY <1>2 DEF fijarIdioma, TypeOKAjustes, Programa
  <2>2. c \in Configs /\ generadorDe(c) = generadorDe(copia["panel"])
    BY <2>1, IdiomaDaConfig
  <2> HIDE DEF c
  <2>3. DeLoLeido([fase |-> "escribir", leida |-> copia["panel"], nueva |-> c, forma |-> Ninguna])
    BY <2>2 DEF DeLoLeido
  <2> QED
    BY <2>1, <2>2, <2>3
<1> QED
  BY <1>1, <1>2

\* Whoever reads the row, sowing it first when there is none, reads a
\* configuration.
LEMMA LeerFila ==
    ASSUME TypeOKAjustes, fila' = IF fila = Ninguna THEN Semilla ELSE fila
    PROVE  fila' \in Configs /\ fila' # Ninguna /\ Validar(fila')
BY AjustesAssumption DEF TypeOKAjustes

\* Every step keeps the types, the configurations valid and the forms applied
\* to what was read.
LEMMA PasoTiposAjustes ==
    TypeOKAjustes /\ SaleDeLoLeido /\ [NextAjustes]_varsAjustes => TypeOKAjustes' /\ SaleDeLoLeido'
<1> SUFFICES ASSUME TypeOKAjustes, SaleDeLoLeido, [NextAjustes]_varsAjustes
             PROVE  TypeOKAjustes' /\ SaleDeLoLeido'
  OBVIOUS
<1>1. ASSUME NEW p \in Programa, Abrir(p) PROVE TypeOKAjustes' /\ SaleDeLoLeido'
  <2>1. fila' \in Configs /\ fila' # Ninguna /\ Validar(fila')
    BY <1>1, LeerFila DEF Abrir
  <2>2. generadorDe(fila') \in Seq(UnModelo)
    BY <2>1, EfectivosEsLista
  <2>3. UNCHANGED <<peticion, asistente, cruce, guardados, caidasAj>>
    BY <1>1 DEF Abrir
  <2>4. copia' \in [Programa -> Configs \cup {Ninguna}] /\ generador' \in Seq(UnModelo)
    BY <1>1, <2>1, <2>2 DEF Abrir, TypeOKAjustes
  <2>5. \A c \in {fila', asistente', copia'["panel"], copia'["collector"]} : c # Ninguna => Validar(c)
    BY <1>1, <2>1 DEF Abrir, TypeOKAjustes, Programa
  <2>6. fila' \in Configs \cup {Ninguna} /\ asistente' \in Configs \cup {Ninguna}
    BY <2>1, <2>3 DEF TypeOKAjustes
  <2>7. cruce' \in BOOLEAN /\ guardados' \in Nat /\ caidasAj' \in Nat
    BY <2>3 DEF TypeOKAjustes
  <2> QED
    BY <2>3, <2>4, <2>5, <2>6, <2>7, MismasPeticiones DEF TypeOKAjustes
<1>2. ASSUME NEW p \in Programa, CaerProceso(p) PROVE TypeOKAjustes' /\ SaleDeLoLeido'
  <2>1. /\ peticion' \in [Manejador -> Peticiones \cup {SinPeticion}]
        /\ \A r \in Manejador : peticion'[r] # SinPeticion => Validar(peticion'[r].nueva)
        /\ SaleDeLoLeido'
    <3>1. CASE p = "panel"
      BY <1>2, <3>1 DEF CaerProceso, SaleDeLoLeido
    <3>2. CASE p # "panel"
      BY <1>2, <3>2, MismasPeticiones DEF CaerProceso
    <3> QED
      BY <3>1, <3>2
  <2>2. copia' \in [Programa -> Configs \cup {Ninguna}]
    BY <1>2 DEF CaerProceso, TypeOKAjustes
  <2>3. \A c \in {fila', asistente', copia'["panel"], copia'["collector"]} : c # Ninguna => Validar(c)
    BY <1>2 DEF CaerProceso, TypeOKAjustes, Programa
  <2>4. cruce' \in BOOLEAN /\ caidasAj' \in Nat /\ UNCHANGED <<fila, generador, asistente, guardados>>
    <3>1. cruce' = FALSE \/ UNCHANGED cruce
      BY <1>2 DEF CaerProceso
    <3>2. caidasAj' \in Nat /\ UNCHANGED <<fila, generador, asistente, guardados>>
      BY <1>2 DEF CaerProceso, TypeOKAjustes
    <3>3. cruce' \in BOOLEAN
      BY <3>1 DEF TypeOKAjustes
    <3> QED
      BY <3>2, <3>3
  <2> QED
    BY <2>1, <2>2, <2>3, <2>4 DEF TypeOKAjustes
<1>3. ASSUME NEW q \in Manejador,
             \/ \E f \in Formularios : LeerAjustes(q, f)
             \/ \E i \in Idioma : fijarIdioma(q, i)
      PROVE  TypeOKAjustes' /\ SaleDeLoLeido'
  <2>1. PICK f \in Formularios \cup {Ninguna}, c \in Configs :
          /\ EmpezarAjuste(q, f, c)
          /\ DeLoLeido([fase |-> "escribir", leida |-> copia["panel"], nueva |-> c, forma |-> f])
    BY <1>3, LoQueEmpieza
  <2> DEFINE h == [fase |-> "escribir", leida |-> copia["panel"], nueva |-> c, forma |-> f]
  <2>2. copia["panel"] \in Configs /\ Validar(c) /\ peticion' = [peticion EXCEPT ![q] = h]
    BY <2>1 DEF EmpezarAjuste, TypeOKAjustes, Programa
  <2>3. h \in Peticiones /\ h.nueva = c
    BY <2>2 DEF Peticiones
  <2>4. DeLoLeido(h)
    BY <2>1
  <2>5. /\ cruce' \in BOOLEAN /\ guardados' \in Nat
        /\ UNCHANGED <<fila, copia, generador, asistente, caidasAj>>
    BY <2>1 DEF EmpezarAjuste, TypeOKAjustes
  <2> HIDE DEF h
  <2>6. /\ peticion' \in [Manejador -> Peticiones \cup {SinPeticion}]
        /\ \A r \in Manejador : peticion'[r] # SinPeticion => Validar(peticion'[r].nueva)
        /\ SaleDeLoLeido'
    BY <2>2, <2>3, <2>4, UnaPeticion
  <2> QED
    BY <2>5, <2>6 DEF TypeOKAjustes
<1>4. ASSUME NEW q \in Manejador, GuardarConfig(q) PROVE TypeOKAjustes' /\ SaleDeLoLeido'
  <2> DEFINE h == [peticion[q] EXCEPT !.fase = "copiar"]
  <2>1. /\ peticion[q] \in Peticiones /\ peticion[q] # SinPeticion
        /\ peticion' = [peticion EXCEPT ![q] = h] /\ fila' = peticion[q].nueva
        /\ UNCHANGED <<copia, generador, asistente, cruce, guardados, caidasAj>>
    BY <1>4, FaseDeManejador DEF GuardarConfig, SinPeticion, TypeOKAjustes
  <2>2. h \in Peticiones /\ h.nueva = peticion[q].nueva /\ h.leida = peticion[q].leida /\ h.forma = peticion[q].forma
    BY <2>1, SiguienteFase
  <2>3. DeLoLeido(peticion[q]) /\ Validar(peticion[q].nueva) /\ peticion[q].nueva \in Configs
    BY <2>1 DEF SaleDeLoLeido, TypeOKAjustes, Peticiones
  <2> HIDE DEF h
  <2>4. DeLoLeido(h) /\ Validar(h.nueva)
    BY <2>2, <2>3 DEF DeLoLeido
  <2>5. /\ peticion' \in [Manejador -> Peticiones \cup {SinPeticion}]
        /\ \A r \in Manejador : peticion'[r] # SinPeticion => Validar(peticion'[r].nueva)
        /\ SaleDeLoLeido'
    BY <2>1, <2>2, <2>4, UnaPeticion
  <2> QED
    BY <2>1, <2>3, <2>5 DEF TypeOKAjustes
<1>5. ASSUME NEW q \in Manejador, GuardarFalla(q) PROVE TypeOKAjustes' /\ SaleDeLoLeido'
  BY <1>5, UnaPeticion DEF GuardarFalla, TypeOKAjustes
<1>6. ASSUME NEW q \in Manejador, Copiar(q) PROVE TypeOKAjustes' /\ SaleDeLoLeido'
  <2> DEFINE h == IF peticion[q].forma = Ninguna THEN SinPeticion
                  ELSE [peticion[q] EXCEPT !.fase = "avisar"]
  <2>1. /\ peticion[q] \in Peticiones /\ peticion[q] # SinPeticion
        /\ peticion' = [peticion EXCEPT ![q] = h]
        /\ copia' = [copia EXCEPT !["panel"] = peticion[q].nueva]
        /\ UNCHANGED <<fila, generador, asistente, cruce, guardados, caidasAj>>
    BY <1>6, FaseDeManejador DEF Copiar, SinPeticion, TypeOKAjustes
  <2>2. h # SinPeticion =>
          h \in Peticiones /\ h.nueva = peticion[q].nueva /\ h.leida = peticion[q].leida /\ h.forma = peticion[q].forma
    BY <2>1, SiguienteFase
  <2>3. DeLoLeido(peticion[q]) /\ Validar(peticion[q].nueva) /\ peticion[q].nueva \in Configs
    BY <2>1 DEF SaleDeLoLeido, TypeOKAjustes, Peticiones
  <2> HIDE DEF h
  <2>4. h # SinPeticion => DeLoLeido(h) /\ Validar(h.nueva)
    BY <2>2, <2>3 DEF DeLoLeido
  <2>5. /\ peticion' \in [Manejador -> Peticiones \cup {SinPeticion}]
        /\ \A r \in Manejador : peticion'[r] # SinPeticion => Validar(peticion'[r].nueva)
        /\ SaleDeLoLeido'
    BY <2>1, <2>2, <2>4, UnaPeticion
  <2>6. /\ copia' \in [Programa -> Configs \cup {Ninguna}]
        /\ \A c \in {fila', asistente', copia'["panel"], copia'["collector"]} : c # Ninguna => Validar(c)
    BY <2>1, <2>3 DEF TypeOKAjustes, Programa
  <2> QED
    BY <2>1, <2>5, <2>6 DEF TypeOKAjustes
<1>7. ASSUME NEW q \in Manejador, AlCambiarConfig(q) PROVE TypeOKAjustes' /\ SaleDeLoLeido'
  <2>1. peticion[q] \in Peticiones
    BY <1>7, FaseDeManejador DEF AlCambiarConfig
  <2>2. generador' \in Seq(UnModelo)
    BY <1>7, <2>1, EfectivosEsLista DEF AlCambiarConfig, Peticiones
  <2> QED
    BY <1>7, <2>2, UnaPeticion DEF AlCambiarConfig, TypeOKAjustes
<1>8. CASE Recargar
  BY <1>8, MismasPeticiones DEF Recargar, TypeOKAjustes, Programa
<1>9. CASE AbrirAsistente
  BY <1>9, MismasPeticiones, LeerFila DEF AbrirAsistente, TypeOKAjustes
<1>10. CASE CancelarAsistente
  BY <1>10, MismasPeticiones DEF CancelarAsistente, TypeOKAjustes
<1>11. ASSUME NEW r \in ParDeRed, GuardarAsistente(r) PROVE TypeOKAjustes' /\ SaleDeLoLeido'
  <2>1. asistente \in Configs /\ Validar(asistente)
    BY <1>11 DEF GuardarAsistente, TypeOKAjustes
  <2>2. fila' \in Configs /\ Validar(fila')
    BY <1>11, <2>1, RedDaConfig DEF GuardarAsistente
  <2>3. cruce' \in BOOLEAN
    BY <1>11 DEF GuardarAsistente, TypeOKAjustes
  <2> QED
    BY <1>11, <2>2, <2>3, MismasPeticiones DEF GuardarAsistente, TypeOKAjustes
<1>12. CASE UNCHANGED varsAjustes
  BY <1>12, MismasPeticiones DEF varsAjustes, TypeOKAjustes
<1> QED
  BY <1>1, <1>2, <1>3, <1>4, <1>5, <1>6, <1>7, <1>8, <1>9, <1>10, <1>11, <1>12 DEF NextAjustes

\* Who has settings keeps a row to read, and the panel's handlers go with it.
LEMMA PasoHayFila ==
    TypeOKAjustes /\ HayFila /\ [NextAjustes]_varsAjustes => HayFila'
<1> SUFFICES ASSUME TypeOKAjustes, HayFila, [NextAjustes]_varsAjustes PROVE HayFila'
  OBVIOUS
<1> USE DEF HayFila
<1>1. ASSUME NEW p \in Programa, Abrir(p) PROVE HayFila'
  <2>1. fila' # Ninguna
    BY <1>1, LeerFila DEF Abrir
  <2>2. copia'["panel"] # Ninguna \/ copia'["panel"] = copia["panel"]
    BY <1>1, <2>1 DEF Abrir, TypeOKAjustes, Programa
  <2> QED
    BY <1>1, <2>1, <2>2 DEF Abrir
<1>2. ASSUME NEW p \in Programa, CaerProceso(p) PROVE HayFila'
  BY <1>2 DEF CaerProceso, TypeOKAjustes, Programa
<1>3. ASSUME NEW q \in Manejador,
             \/ \E f \in Formularios : LeerAjustes(q, f)
             \/ \E i \in Idioma : fijarIdioma(q, i)
      PROVE  HayFila'
  BY <1>3, LoQueEmpieza DEF EmpezarAjuste
<1>4. ASSUME NEW q \in Manejador, GuardarConfig(q) PROVE HayFila'
  <2>1. peticion[q] \in Peticiones
    BY <1>4, FaseDeManejador DEF GuardarConfig
  <2>2. fila' # Ninguna
    BY <1>4, <2>1, AjustesAssumption DEF GuardarConfig, Peticiones
  <2>3. copia["panel"] # Ninguna
    BY <1>4, FaseDeManejador DEF GuardarConfig
  <2> QED
    BY <1>4, <2>2, <2>3 DEF GuardarConfig
<1>5. ASSUME NEW q \in Manejador, GuardarFalla(q) PROVE HayFila'
  BY <1>5 DEF GuardarFalla, TypeOKAjustes
<1>6. ASSUME NEW q \in Manejador, Copiar(q) PROVE HayFila'
  <2>1. peticion[q] \in Peticiones /\ copia["panel"] # Ninguna
    BY <1>6, FaseDeManejador DEF Copiar
  <2>2. copia'["panel"] # Ninguna
    BY <1>6, <2>1, AjustesAssumption DEF Copiar, Peticiones, TypeOKAjustes, Programa
  <2>3. fila' # Ninguna
    BY <1>6, <2>1 DEF Copiar, Programa
  <2> QED
    BY <2>2, <2>3
<1>7. ASSUME NEW q \in Manejador, AlCambiarConfig(q) PROVE HayFila'
  BY <1>7 DEF AlCambiarConfig, TypeOKAjustes
<1>8. CASE Recargar
  BY <1>8 DEF Recargar, TypeOKAjustes, Programa
<1>9. CASE AbrirAsistente
  BY <1>9, LeerFila DEF AbrirAsistente
<1>10. CASE CancelarAsistente
  BY <1>10 DEF CancelarAsistente
<1>11. ASSUME NEW r \in ParDeRed, GuardarAsistente(r) PROVE HayFila'
  <2>1. fila' \in Configs
    BY <1>11, RedDaConfig DEF GuardarAsistente, TypeOKAjustes
  <2> QED
    BY <1>11, <2>1, AjustesAssumption DEF GuardarAsistente
<1>12. CASE UNCHANGED varsAjustes
  BY <1>12 DEF varsAjustes
<1> QED
  BY <1>1, <1>2, <1>3, <1>4, <1>5, <1>6, <1>7, <1>8, <1>9, <1>10, <1>11, <1>12 DEF NextAjustes

\* A handler that takes its turn when nobody else is at work is the only one.
LEMMA ElUnico ==
    ASSUME UnoSolo, ~cruce, copia["panel"] # Ninguna, NEW q \in Manejador, peticion[q] # SinPeticion
    PROVE  EnSuSitio(q) /\ \A r \in Manejador \ {q} : peticion[r] = SinPeticion
BY DEF UnoSolo

\* What moves none of the three leaves them where they were.
LEMMA NadaSeMueve ==
    ASSUME UnoSolo, copia'["panel"] = copia["panel"], UNCHANGED <<fila, generador, peticion, cruce>>
    PROVE  UnoSolo'
<1>1. \A q \in Manejador : EnSuSitio(q)' <=> EnSuSitio(q)
  BY DEF EnSuSitio
<1> QED
  BY <1>1 DEF UnoSolo

\* One handler at work, with the three where its phase says.
LEMMA UnoTrabaja ==
    ASSUME NEW q \in Manejador, peticion'[q] # SinPeticion, EnSuSitio(q)',
           \A r \in Manejador \ {q} : peticion'[r] = SinPeticion
    PROVE  UnoSolo'
BY DEF UnoSolo

\* Nobody at work: the copy is the row and the generator is up to date.
LEMMA NadieTrabaja ==
    ASSUME \A q \in Manejador : peticion'[q] = SinPeticion,
           copia'["panel"] = fila', generador' = generadorDe(copia'["panel"])
    PROVE  UnoSolo'
BY DEF UnoSolo

\* Without overlapping saves, the row, the copy and the generator are where
\* the one handler at work has left them.
LEMMA PasoUnoSolo ==
    TypeOKAjustes /\ SaleDeLoLeido /\ HayFila /\ UnoSolo /\ [NextAjustes]_varsAjustes => UnoSolo'
<1> SUFFICES ASSUME TypeOKAjustes, SaleDeLoLeido, HayFila, UnoSolo, [NextAjustes]_varsAjustes
             PROVE  UnoSolo'
  OBVIOUS
<1> SUFFICES ASSUME ~cruce', copia'["panel"] # Ninguna PROVE UnoSolo'
  BY DEF UnoSolo
<1>a. peticion \in [Manejador -> Peticiones \cup {SinPeticion}] /\ copia \in [Programa -> Configs \cup {Ninguna}]
  BY DEF TypeOKAjustes
<1>1. ASSUME NEW p \in Programa, Abrir(p) PROVE UnoSolo'
  <2>1. CASE p = "panel"
    <3>1. copia["panel"] = Ninguna /\ UNCHANGED peticion
      BY <1>1, <2>1 DEF Abrir
    <3>2. copia'["panel"] = fila' /\ generador' = generadorDe(copia'["panel"])
      BY <1>1, <2>1, <1>a DEF Abrir, Programa
    <3>3. \A q \in Manejador : peticion'[q] = SinPeticion
      BY <3>1 DEF HayFila
    <3> QED
      BY <3>2, <3>3, NadieTrabaja
  <2>2. CASE p # "panel"
    <3>1. copia'["panel"] = copia["panel"] /\ UNCHANGED <<generador, peticion, cruce>>
      BY <1>1, <2>2, <1>a DEF Abrir, Programa
    <3>2. UNCHANGED fila
      BY <1>1, <3>1 DEF Abrir, HayFila, Programa
    <3> QED
      BY <3>1, <3>2, NadaSeMueve
  <2> QED
    BY <2>1, <2>2
<1>2. ASSUME NEW p \in Programa, CaerProceso(p) PROVE UnoSolo'
  <2>1. p # "panel"
    BY <1>2, <1>a DEF CaerProceso, Programa
  <2>2. copia'["panel"] = copia["panel"] /\ UNCHANGED <<fila, generador, peticion, cruce>>
    BY <1>2, <2>1, <1>a DEF CaerProceso, Programa
  <2> QED
    BY <2>2, NadaSeMueve
<1>3. ASSUME NEW q \in Manejador,
             \/ \E f \in Formularios : LeerAjustes(q, f)
             \/ \E i \in Idioma : fijarIdioma(q, i)
      PROVE  UnoSolo'
  <2>1. PICK f \in Formularios \cup {Ninguna}, c \in Configs : EmpezarAjuste(q, f, c)
    BY <1>3, LoQueEmpieza
  <2> DEFINE h == [fase |-> "escribir", leida |-> copia["panel"], nueva |-> c, forma |-> f]
  <2>2. /\ ~cruce /\ \A r \in Manejador : peticion[r] = SinPeticion
        /\ peticion' = [peticion EXCEPT ![q] = h] /\ copia["panel"] # Ninguna
        /\ UNCHANGED <<fila, copia, generador, asistente, caidasAj>>
    BY <2>1 DEF EmpezarAjuste
  <2>3. copia["panel"] = fila /\ generador = generadorDe(copia["panel"])
    BY <2>2 DEF UnoSolo
  <2>4. h # SinPeticion /\ h.fase = "escribir" /\ h.leida = copia["panel"]
    BY DEF SinPeticion
  <2> HIDE DEF h
  <2>5. peticion'[q] = h /\ \A r \in Manejador \ {q} : peticion'[r] = SinPeticion
    BY <2>2, <1>a
  <2>6. EnSuSitio(q)'
    BY <2>2, <2>3, <2>4, <2>5 DEF EnSuSitio
  <2> QED
    BY <2>4, <2>5, <2>6, UnoTrabaja
<1>4. ASSUME NEW q \in Manejador, GuardarConfig(q) PROVE UnoSolo'
  <2> DEFINE h == [peticion[q] EXCEPT !.fase = "copiar"]
  <2>1. /\ peticion[q] \in Peticiones /\ peticion[q] # SinPeticion /\ peticion[q].fase = "escribir"
        /\ peticion' = [peticion EXCEPT ![q] = h] /\ fila' = peticion[q].nueva
        /\ UNCHANGED <<copia, generador, cruce>>
    BY <1>4, FaseDeManejador DEF GuardarConfig
  <2>2. EnSuSitio(q) /\ \A r \in Manejador \ {q} : peticion[r] = SinPeticion
    BY <2>1, ElUnico
  <2>3. h # SinPeticion /\ h.fase = "copiar" /\ h.nueva = peticion[q].nueva /\ h.leida = peticion[q].leida
    BY <2>1, SiguienteFase
  <2> HIDE DEF h
  <2>4. peticion'[q] = h /\ \A r \in Manejador \ {q} : peticion'[r] = SinPeticion
    BY <2>1, <2>2, <1>a
  <2>5. EnSuSitio(q)'
    BY <2>1, <2>2, <2>3, <2>4 DEF EnSuSitio
  <2> QED
    BY <2>3, <2>4, <2>5, UnoTrabaja
<1>5. ASSUME NEW q \in Manejador, GuardarFalla(q) PROVE UnoSolo'
  <2>1. /\ peticion[q] # SinPeticion /\ peticion[q].fase = "escribir"
        /\ peticion' = [peticion EXCEPT ![q] = SinPeticion] /\ UNCHANGED <<fila, copia, generador, cruce>>
    BY <1>5, FaseDeManejador DEF GuardarFalla
  <2>2. EnSuSitio(q) /\ \A r \in Manejador \ {q} : peticion[r] = SinPeticion
    BY <2>1, ElUnico
  <2>3. \A r \in Manejador : peticion'[r] = SinPeticion
    BY <2>1, <2>2, <1>a
  <2>4. copia'["panel"] = fila' /\ generador' = generadorDe(copia'["panel"])
    BY <2>1, <2>2 DEF EnSuSitio
  <2> QED
    BY <2>3, <2>4, NadieTrabaja
<1>6. ASSUME NEW q \in Manejador, Copiar(q) PROVE UnoSolo'
  <2>1. /\ peticion[q] \in Peticiones /\ peticion[q] # SinPeticion /\ peticion[q].fase = "copiar"
        /\ copia["panel"] # Ninguna
    BY <1>6, FaseDeManejador DEF Copiar, HayFila
  <2>2. copia'["panel"] = peticion[q].nueva /\ UNCHANGED <<fila, generador, cruce>>
    BY <1>6, <1>a DEF Copiar, Programa
  <2>3. EnSuSitio(q) /\ \A r \in Manejador \ {q} : peticion[r] = SinPeticion
    BY <2>1, <2>2, ElUnico
  <2>4. CASE peticion[q].forma = Ninguna
    <3>1. \A r \in Manejador : peticion'[r] = SinPeticion
      BY <1>6, <1>a, <2>3, <2>4 DEF Copiar
    <3>2. generadorDe(peticion[q].nueva) = generadorDe(peticion[q].leida)
      BY <2>1, <2>4 DEF SaleDeLoLeido, DeLoLeido
    <3>3. copia'["panel"] = fila' /\ generador' = generadorDe(copia'["panel"])
      BY <2>1, <2>2, <2>3, <3>2 DEF EnSuSitio
    <3> QED
      BY <3>1, <3>3, NadieTrabaja
  <2>5. CASE peticion[q].forma # Ninguna
    <3> DEFINE h == [peticion[q] EXCEPT !.fase = "avisar"]
    <3>1. peticion' = [peticion EXCEPT ![q] = h]
      BY <1>6, <2>5, <1>a DEF Copiar
    <3>2. h # SinPeticion /\ h.fase = "avisar" /\ h.nueva = peticion[q].nueva
      BY <2>1, SiguienteFase
    <3> HIDE DEF h
    <3>3. peticion'[q] = h /\ \A r \in Manejador \ {q} : peticion'[r] = SinPeticion
      BY <3>1, <2>3, <1>a
    <3>4. EnSuSitio(q)'
      BY <2>1, <2>2, <2>3, <3>2, <3>3 DEF EnSuSitio
    <3> QED
      BY <3>2, <3>3, <3>4, UnoTrabaja
  <2> QED
    BY <2>4, <2>5
<1>7. ASSUME NEW q \in Manejador, AlCambiarConfig(q) PROVE UnoSolo'
  <2>1. /\ peticion[q] # SinPeticion /\ peticion[q].fase = "avisar"
        /\ peticion' = [peticion EXCEPT ![q] = SinPeticion]
        /\ generador' = generadorDe(peticion[q].nueva) /\ UNCHANGED <<fila, copia, cruce>>
    BY <1>7, FaseDeManejador DEF AlCambiarConfig
  <2>2. EnSuSitio(q) /\ \A r \in Manejador \ {q} : peticion[r] = SinPeticion
    BY <2>1, ElUnico
  <2>3. \A r \in Manejador : peticion'[r] = SinPeticion
    BY <2>1, <2>2, <1>a
  <2>4. copia'["panel"] = fila' /\ generador' = generadorDe(copia'["panel"])
    BY <2>1, <2>2 DEF EnSuSitio
  <2> QED
    BY <2>3, <2>4, NadieTrabaja
<1>8. CASE Recargar
  BY <1>8, <1>a, NadaSeMueve DEF Recargar, Programa
<1>9. CASE AbrirAsistente
  <2>1. UNCHANGED <<fila, copia, generador, peticion, cruce>>
    BY <1>9 DEF AbrirAsistente, HayFila, Programa
  <2> QED
    BY <2>1, NadaSeMueve
<1>10. CASE CancelarAsistente
  BY <1>10, NadaSeMueve DEF CancelarAsistente
<1>11. ASSUME NEW r \in ParDeRed, GuardarAsistente(r) PROVE UnoSolo'
  BY <1>11 DEF GuardarAsistente
<1>12. CASE UNCHANGED varsAjustes
  BY <1>12, NadaSeMueve DEF varsAjustes
<1> QED
  BY <1>1, <1>2, <1>3, <1>4, <1>5, <1>6, <1>7, <1>8, <1>9, <1>10, <1>11, <1>12 DEF NextAjustes

\* The four parts hold each other up.
LEMMA PasoAjustes == InductivoAjustes /\ [NextAjustes]_varsAjustes => InductivoAjustes'
BY PasoTiposAjustes, PasoHayFila, PasoUnoSolo DEF InductivoAjustes

\* A handler that applied the form to what it read keeps the keys of the
\* providers the form lists without one.
LEMMA DeLoLeidoConserva ==
    ASSUME NEW h \in Peticiones, DeLoLeido(h), h.forma # Ninguna, ComoEstaba(h),
           NEW i \in DOMAIN Toma(h.forma.modelos, <<>>),
           LET p == Toma(h.forma.modelos, <<>>)[i].prov IN
             /\ ClaveDe(ModelosEfectivos(h.leida), p) # SinClave
             /\ ClaveDe(Toma(h.forma.modelos, <<>>), p) = SinClave
    PROVE  LET p == Toma(h.forma.modelos, <<>>)[i].prov IN
             ClaveDe(ModelosEfectivos(h.nueva), p) = ClaveDe(ModelosEfectivos(h.leida), p)
<1> DEFINE ms == Toma(h.forma.modelos, <<>>)
           base == CambiaSuelto(h.leida, h.forma)
           l == ListaNueva(base, ms)
<1>1. h.leida \in Configs /\ h.forma \in Formas
  BY AjustesAssumption DEF Peticiones
<1>2. h.forma.modelos # {}
  BY DEF Toma
<1>3. ms \in Seq(UnModelo)
  <2>1. h.forma.modelos \in SUBSET Seq(UnModelo) /\ <<>> \in Seq(UnModelo)
    BY <1>1 DEF Formas
  <2> QED
    BY <2>1, TomaBien
<1>4. h.nueva.modelos = l
  BY <1>1, <1>2, CamposDeLaForma DEF DeLoLeido
<1>a. base \in Configs /\ ModelosEfectivos(base) = ModelosEfectivos(h.leida)
  <2>1. /\ base \in Configs /\ base.modelos = h.leida.modelos /\ base.sueltas = h.leida.sueltas
        /\ h.nueva.usarLLM = base.usarLLM /\ h.nueva.tipo = base.tipo /\ h.nueva.url = base.url
    BY <1>1, SueltoDaConfig, CamposDeLaForma DEF DeLoLeido
  <2> HIDE DEF base
  <2> QED
    BY <2>1 DEF ComoEstaba, ModelosEfectivos, Suelto
<1>5. l # <<>> /\ ClaveDe(l, ms[i].prov) = Viejas(h.leida, ms[i].prov)
  <2>1. /\ Viejas(base, ms[i].prov) = Viejas(h.leida, ms[i].prov)
        /\ Viejas(base, ms[i].prov) # SinClave /\ ClaveDe(ms, ms[i].prov) = SinClave
        /\ i \in DOMAIN ms
    BY <1>a DEF Viejas
  <2> HIDE DEF ms, base
  <2> QED
    BY <1>a, <1>3, <2>1, ListaConservaClaves
<1>6. ModelosEfectivos(h.nueva) = l
  BY <1>4, <1>5 DEF ModelosEfectivos
<1> QED
  BY <1>5, <1>6 DEF Viejas

\* What InductivoAjustes says of each handler is what AjustesFieles promises.
LEMMA AjustesFielesSiempre == InductivoAjustes => AjustesFieles
<1> SUFFICES ASSUME InductivoAjustes PROVE PanelAlDia /\ ClavesSeConservan
  BY DEF AjustesFieles
<1>0. TypeOKAjustes /\ SaleDeLoLeido /\ UnoSolo
  BY DEF InductivoAjustes
<1>1. ASSUME ~cruce, copia["panel"] # Ninguna
      PROVE  /\ copia["panel"] = fila \/ \E q \in Manejador : peticion[q].fase \in {"copiar"}
             /\ \/ generador = generadorDe(copia["panel"])
                \/ \E q \in Manejador : peticion[q].fase \in {"avisar"}
             /\ \A q \in Manejador : peticion[q].fase = "escribir" => peticion[q].leida = fila
  <2>1. CASE \A q \in Manejador : peticion[q] = SinPeticion
    BY <1>0, <1>1, <2>1 DEF UnoSolo, SinPeticion
  <2>2. CASE \E q \in Manejador : peticion[q] # SinPeticion
    <3>1. PICK q \in Manejador : peticion[q] # SinPeticion
      BY <2>2
    <3>2. EnSuSitio(q) /\ \A r \in Manejador \ {q} : peticion[r] = SinPeticion
      BY <1>0, <1>1, <3>1, ElUnico
    <3>3. peticion[q].fase \in {"escribir", "copiar", "avisar"}
      BY <1>0, <3>1, FaseDeManejador DEF Peticiones
    <3>4. \A r \in Manejador : peticion[r].fase = "escribir" => r = q
      BY <3>2 DEF SinPeticion
    <3> QED
      BY <3>2, <3>3, <3>4 DEF EnSuSitio
  <2> QED
    BY <2>1, <2>2
<1>2. PanelAlDia
  BY <1>1 DEF PanelAlDia
<1>3. ClavesSeConservan
  <2> SUFFICES ASSUME NEW q \in Manejador, peticion[q] # SinPeticion, peticion[q].forma # Ninguna,
                      ComoEstaba(peticion[q]), NEW i \in DOMAIN Toma(peticion[q].forma.modelos, <<>>),
                      LET p == Toma(peticion[q].forma.modelos, <<>>)[i].prov IN
                        /\ ClaveDe(ModelosEfectivos(peticion[q].leida), p) # SinClave
                        /\ ClaveDe(Toma(peticion[q].forma.modelos, <<>>), p) = SinClave
               PROVE  LET p == Toma(peticion[q].forma.modelos, <<>>)[i].prov IN
                        ClaveDe(ModelosEfectivos(peticion[q].nueva), p)
                          = ClaveDe(ModelosEfectivos(peticion[q].leida), p)
    BY DEF ClavesSeConservan
  <2>1. peticion[q] \in Peticiones /\ DeLoLeido(peticion[q])
    BY <1>0, FaseDeManejador DEF SaleDeLoLeido
  <2> QED
    BY <2>1, DeLoLeidoConserva
<1> QED
  BY <1>2, <1>3

\* For any forms, any number of handlers and any restarts: the copy the panel
\* works with and its generator follow the row as long as no two saves overlap,
\* and a form that lists a provider without its key leaves it the key it had,
\* unless it takes the old single provider out of use or changes it (config.go,
\* web/config.go).
THEOREM LosAjustesNoSePierden == SpecAjustes => []AjustesFieles
<1>1. InitAjustes => InductivoAjustes
  BY InicioAjustes
<1>2. InductivoAjustes /\ [NextAjustes]_varsAjustes => InductivoAjustes'
  BY PasoAjustes
<1> QED
  BY <1>1, <1>2, AjustesFielesSiempre, PTL DEF SpecAjustes

-----------------------------------------------------------------------------
(* The six together.                                                       *)

\* A step of MCPanel is a step of one of the six and none of the others.
LEMMA PasoDeUnaParte ==
    ASSUME [NextPanel]_varsPanel
    PROVE  /\ [Next]_vars /\ [NextInforme]_varsInforme /\ [NextSesiones]_varsSesiones
           /\ [NextAjustes]_varsAjustes /\ [NextCambio]_varsCambio
           /\ [NextReglas]_varsReglas
<1>1. CASE UNCHANGED varsPanel
  BY <1>1 DEF varsPanel
<1>2. CASE NextPanel
  BY <1>2 DEF NextPanel
<1> QED
  BY <1>1, <1>2

\* TiposDelPanel, in every execution: the inductive invariants of the budget,
\* the report, the sessions, the settings, the network and the firewall.
THEOREM ElPanelSeTiene == SpecPanel => []TiposDelPanel
<1>1. InitPanel => TiposDelPanel
  BY InicioCuadra, InicioInforme, InicioSesiones, InicioAjustes, InicioCambio, InicioReglas
     DEF InitPanel, TiposDelPanel
<1>2. TiposDelPanel /\ [NextPanel]_varsPanel => TiposDelPanel'
  <2> SUFFICES ASSUME TiposDelPanel, [NextPanel]_varsPanel PROVE TiposDelPanel'
    OBVIOUS
  <2>1. Inductivo'
    BY PasoDeUnaParte, PasoTipos, PasoCuadra, PasoAcotada DEF TiposDelPanel, Inductivo
  <2>2. InductivoInforme' /\ InductivoSesiones' /\ InductivoAjustes'
    BY PasoDeUnaParte, PasoInforme, PasoSesiones, PasoAjustes DEF TiposDelPanel
  <2>3. InductivoCambio' /\ InductivoReglas'
    BY PasoDeUnaParte, PasoCambio, PasoReglas DEF TiposDelPanel
  <2> QED
    BY <2>1, <2>2, <2>3 DEF TiposDelPanel
<1> QED
  BY <1>1, <1>2, PTL DEF SpecPanel

\* For any configurations, rules, helpers and margins, whatever command of one
\* process falls between two of another: if each order waits for the one before
\* to be settled, the machine does not start again and no margin ends while its
\* rules are being loaded, then when all is done the addresses and the rules in
\* use are the ones somebody confirmed or went back to; if the confirmation
\* came while the change was being undone, they may be those of before
\* (web/red.go, k0pot-red.sh, k0pot-nft.sh).
THEOREM LoNoConfirmadoSeDeshace == SpecPanel => []UnoAUnoSeRevierte
<1>1. TiposDelPanel => UnoAUnoSeRevierte
  BY LaRedVuelve DEF TiposDelPanel, UnoAUnoSeRevierte, InductivoReglas, DondeVuelven,
     ReglasVuelven
<1> QED
  BY <1>1, ElPanelSeTiene, PTL
=============================================================================
