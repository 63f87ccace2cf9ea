--------------------------- MODULE AtaquesPruebas ---------------------------
(***************************************************************************)
(* Proofs about Ataques, for every set of pairs, every gap, every          *)
(* retention and every bound: the state is well typed, no grouped event is *)
(* lost, no mark runs ahead of its notice, no notice is repeated.          *)
(***************************************************************************)
EXTENDS Ataques, AgrupacionPruebas

(* The conjuncts of Inductivo each proof needs. *)
InvTipos == TypeOK /\ Acotado
InvCobertura == VentanaAbarca /\ LoteCompleto /\ Cobertura
InvAvisos == AvisosAdelantan /\ EnviadoConsta /\ MarcaSoloLoEnviado

-----------------------------------------------------------------------------
(* NovedadesDesde: the greatest id, and a bound on what is new. *)
LEMMA MaxIdAcota ==
  ASSUME InvTipos
  PROVE  MaxId \in 0..ultimoId /\ \A e \in eventos : e.id <= MaxId
<1>1. ultimoId \in Nat
  BY PlazosAssumption DEF InvTipos, TypeOK
<1>2. CASE eventos = {}
  BY <1>1, <1>2 DEF MaxId
<1>3. CASE eventos # {}
  <2> DEFINE ids == {e.id : e \in eventos}
  <2>1. ids \subseteq Nat /\ \A i \in ids : i <= ultimoId
    BY DEF InvTipos, TypeOK, Acotado, Evento
  <2>2. ids # {} /\ \A e \in eventos : e.id \in ids
    BY <1>3
  <2>3. MaxId = Maximo(ids)
    BY <1>3 DEF MaxId
  <2> HIDE DEF ids
  <2>4. Maximo(ids) \in ids /\ \A i \in ids : i <= Maximo(ids)
    BY <1>1, <2>1, <2>2, MaximoExiste
  <2>5. Maximo(ids) \in Nat /\ Maximo(ids) <= ultimoId
    BY <2>1, <2>4
  <2>6. MaxId \in 0..ultimoId
    BY <1>1, <2>3, <2>5
  <2> QED
    BY <2>2, <2>3, <2>4, <2>6
<1> QED
  BY <1>2, <1>3

(* NovedadesDesde: "desde" is no later than any event past the watermark. *)
LEMMA MinNuevoAcota ==
  ASSUME InvTipos
  PROVE  MinNuevo \in Nat /\ \A e \in eventos : e.id > ultimoEvento => MinNuevo <= e.ts
<1> DEFINE nuevos == {e \in eventos : e.id > ultimoEvento}
           ticks == {e.ts : e \in nuevos}
<1>1. CASE nuevos = {}
  <2>1. MinNuevo = 0
    BY <1>1 DEF MinNuevo
  <2> QED
    BY <1>1, <2>1
<1>2. CASE nuevos # {}
  <2>1. ticks \subseteq Nat
    BY DEF InvTipos, TypeOK, Evento
  <2>2. ticks # {} /\ \A e \in nuevos : e.ts \in ticks
    BY <1>2
  <2>3. \E t \in ticks : \A u \in ticks : t <= u
    <3> HIDE DEF ticks
    <3> QED
      BY <2>1, <2>2, MinimoExiste
  <2>4. PICK t \in ticks : \A e \in nuevos : t <= e.ts
    BY <2>2, <2>3
  <2>5. MinNuevo \in ticks /\ \A e \in nuevos : MinNuevo <= e.ts
    BY <1>2, <2>4 DEF MinNuevo
  <2> QED
    BY <2>1, <2>5
<1> QED
  BY <1>1, <1>2

(* An event that Ingerir inserts is one. *)
LEMMA IngeridoEsEvento ==
  ASSUME InvTipos, NEW g \in Grupo, NEW t \in 0..MaxReloj, NEW h \in Muestra
  PROVE  [id |-> ultimoId + 1, grupo |-> g, ts |-> t, hecho |-> h] \in Evento
<1>1. ultimoId \in Nat /\ t \in Nat /\ h \in Hecho
  BY PlazosAssumption, MuestraAssumption DEF InvTipos, TypeOK
<1> QED
  BY <1>1 DEF Evento

-----------------------------------------------------------------------------
(* Types.  One step per group of actions that disturb the same variables. *)
LEMMA TiposIniciales == Init => InvTipos
<1> SUFFICES ASSUME Init PROVE InvTipos
  OBVIOUS
<1>1. IsFiniteSet({})
  BY FS_EmptySet
<1>2. Ninguno \in [{} -> Fila] /\ Ninguno \in [{} -> Severidad] /\ DOMAIN Ninguno = {}
  BY DEF Ninguno
<1>3. Acotado
  BY <1>1, PlazosAssumption DEF Init, Acotado
<1>4. TypeOK
  BY <1>2, PlazosAssumption DEF Init, TypeOK, Paso
<1> QED
  BY <1>3, <1>4 DEF InvTipos

(* What is being told is a set of keys with their severities. *)
LEMMA AvisosTipo == InvTipos => Avisos \subseteq Clave \X Severidad
BY DEF InvTipos, TypeOK, Avisos

(* "Olvidar" leaves the locals of the cycle well typed. *)
LEMMA OlvidarTipos ==
  ASSUME Olvidar, InvTipos
  PROVE  /\ maxID' \in 0..MaxEventos /\ desde' \in Int /\ lote' \subseteq Evento
         /\ DOMAIN pendientes' \subseteq Clave
         /\ pendientes' \in [DOMAIN pendientes' -> Severidad]
         /\ IsFiniteSet(lote') /\ (\A e \in lote' : e.ts <= reloj')
         /\ maxID' <= ultimoId
<1>1. IsFiniteSet({})
  BY FS_EmptySet
<1>2. pendientes' = Ninguno /\ Ninguno \in [{} -> Severidad] /\ DOMAIN Ninguno = {}
  BY DEF Olvidar, Ninguno
<1>3. maxID' = 0 /\ desde' = 0 /\ lote' = {}
  BY DEF Olvidar
<1>4. MaxEventos \in Nat /\ ultimoId \in Nat
  BY PlazosAssumption DEF InvTipos, TypeOK
<1> QED
  BY <1>1, <1>2, <1>3, <1>4

(* Every step keeps the types. *)
LEMMA TiposSeConservan == InvTipos /\ [Next]_vars => InvTipos'
<1> SUFFICES ASSUME InvTipos, [Next]_vars PROVE InvTipos'
  OBVIOUS
<1> USE PlazosAssumption
<1>1. CASE Ingesta
  <2>1. PICK g \in Grupo, t \in 0..MaxReloj, h \in Muestra : Ingerir(g, t, h)
    BY <1>1 DEF Ingesta
  <2> DEFINE nuevo == [id |-> ultimoId + 1, grupo |-> g, ts |-> t, hecho |-> h]
  <2>2. nuevo \in Evento
    BY IngeridoEsEvento
  <2>3. eventos' = eventos \cup {nuevo} /\ t <= reloj /\ ultimoId' = ultimoId + 1
    BY <2>1 DEF Ingerir
  <2>4. nuevo.id = ultimoId + 1 /\ nuevo.ts = t
    OBVIOUS
  <2> HIDE DEF nuevo
  <2>5. TypeOK'
    BY <2>1, <2>2, <2>3 DEF Ingerir, InvTipos, TypeOK, ciclo, historia
  <2>6. IsFiniteSet(eventos')
    BY <2>3, FS_AddElement DEF InvTipos, Acotado
  <2>7. \A e \in eventos' : e.id <= ultimoId' /\ e.ts <= reloj'
    <3>1. ultimoId \in Nat /\ t \in Nat /\ reloj \in Nat /\ reloj' = reloj
      BY <2>1 DEF Ingerir, InvTipos, TypeOK
    <3>2. \A e \in eventos : e.id \in Nat /\ e.id <= ultimoId /\ e.ts <= reloj
      BY DEF InvTipos, TypeOK, Acotado, Evento
    <3> QED
      BY <2>3, <2>4, <3>1, <3>2
  <2>8. Acotado'
    BY <2>1, <2>3, <2>6, <2>7 DEF Ingerir, Acotado, InvTipos, TypeOK, ciclo
  <2> QED
    BY <2>5, <2>8 DEF InvTipos
<1>2. CASE Tic
  <2>1. reloj' = reloj + 1 /\ reloj < MaxReloj /\ reloj \in Nat
    BY <1>2 DEF Tic, InvTipos, TypeOK
  <2>2. TypeOK'
    BY <1>2, <2>1 DEF Tic, InvTipos, TypeOK, tablas, ciclo, historia
  <2>3. \A e \in eventos \cup lote : e.ts \in Nat /\ e.ts <= reloj
    BY DEF InvTipos, TypeOK, Acotado, Evento
  <2>4. Acotado'
    BY <1>2, <2>1, <2>3 DEF Tic, InvTipos, Acotado, tablas, ciclo
  <2> QED
    BY <2>2, <2>4 DEF InvTipos
<1>3. CASE Novedades
  <2>1. MaxId \in 0..ultimoId /\ MinNuevo \in Nat
    BY MaxIdAcota, MinNuevoAcota
  <2>2. MaxId \in 0..MaxEventos /\ MinNuevo - Hueco \in Int
    BY <2>1, HuecoAssumption DEF InvTipos, TypeOK
  <2>3. TypeOK'
    BY <1>3, <2>2 DEF Novedades, Ir, InvTipos, TypeOK, Paso, tablas, historia
  <2>4. Acotado'
    BY <1>3, <2>1 DEF Novedades, Ir, InvTipos, Acotado, TypeOK, tablas
  <2> QED
    BY <2>3, <2>4 DEF InvTipos
<1>4. CASE LeerEventos
  <2>1. lote' \subseteq eventos
    BY <1>4 DEF LeerEventos
  <2>2. IsFiniteSet(lote')
    BY <2>1, FS_Subset DEF InvTipos, Acotado
  <2>3. TypeOK'
    BY <1>4, <2>1 DEF LeerEventos, Ir, InvTipos, TypeOK, Paso, tablas, historia
  <2>4. Acotado'
    BY <1>4, <2>1, <2>2 DEF LeerEventos, InvTipos, Acotado, tablas
  <2> QED
    BY <2>3, <2>4 DEF InvTipos
<1>5. CASE GuardarEpisodios
  <2>1. /\ Claves(lote) \subseteq Clave
        /\ Agrupar(lote) \in [Claves(lote) -> Fila]
    <3>1. reloj \in Nat /\ lote \subseteq Evento /\ IsFiniteSet(lote) /\ \A e \in lote : e.ts <= reloj
      BY DEF InvTipos, TypeOK, Acotado
    <3> QED
      BY <3>1, AgruparDaFilas
  <2> DEFINE nuevas == Agrupar(lote)
             claves == DOMAIN episodios \cup DOMAIN nuevas
  <2>2. DOMAIN nuevas = Claves(lote) /\ nuevas \in [Claves(lote) -> Fila]
    BY <2>1
  <2>3. Guardar(nuevas) /\ ultimoEvento' = maxID /\ Olvidar /\ pc' = "porAvisar"
    BY <1>5 DEF GuardarEpisodios, Ir
  <2> HIDE DEF nuevas
  <2>4. /\ episodios' = [k \in claves |->
                          IF k \in DOMAIN nuevas THEN nuevas[k] ELSE episodios[k]]
        /\ avisado' = [k \in claves |->
                        IF k \in DOMAIN avisado THEN avisado[k] ELSE Roce]
    BY <2>3 DEF Guardar
  <2>5. claves \subseteq Clave /\ DOMAIN avisado = DOMAIN episodios
    BY <2>1, <2>2 DEF InvTipos, TypeOK
  <2>6. episodios' \in [claves -> Fila]
    BY <2>2, <2>4 DEF InvTipos, TypeOK
  <2>7. avisado' \in [claves -> Severidad]
    BY <2>4, <2>5 DEF InvTipos, TypeOK, Severidad, Roce
  <2>8. TypeOK'
    BY <1>5, <2>3, <2>5, <2>6, <2>7, OlvidarTipos
    DEF GuardarEpisodios, InvTipos, TypeOK, Paso, historia
  <2>9. Acotado'
    BY <1>5, <2>3, OlvidarTipos DEF GuardarEpisodios, InvTipos, Acotado, TypeOK
  <2> QED
    BY <2>8, <2>9 DEF InvTipos
<1>6. CASE EpisodiosPorAvisar
  <2>1. PorAvisar \subseteq DOMAIN episodios
    BY DEF PorAvisar
  <2>2. \A k \in DOMAIN episodios : episodios[k].severidad \in Severidad
    BY DEF InvTipos, TypeOK, Fila
  <2>3. DOMAIN pendientes' \subseteq Clave /\ pendientes' \in [DOMAIN pendientes' -> Severidad]
    BY <1>6, <2>1, <2>2 DEF EpisodiosPorAvisar, InvTipos, TypeOK
  <2>4. TypeOK'
    BY <1>6, <2>3 DEF EpisodiosPorAvisar, Ir, InvTipos, TypeOK, Paso, tablas, historia
  <2>5. Acotado'
    BY <1>6 DEF EpisodiosPorAvisar, InvTipos, Acotado, tablas
  <2> QED
    BY <2>4, <2>5 DEF InvTipos
<1>7. CASE Enviar
  <2>2. TypeOK'
    BY <1>7, AvisosTipo DEF Enviar, Ir, InvTipos, TypeOK, Paso, tablas, ciclo
  <2>3. Acotado'
    BY <1>7 DEF Enviar, InvTipos, Acotado, tablas, ciclo
  <2> QED
    BY <2>2, <2>3 DEF InvTipos
<1>8. CASE EnviarFalla
  <2>1. TypeOK'
    BY <1>8, OlvidarTipos DEF EnviarFalla, Ir, InvTipos, TypeOK, Paso, tablas, historia
  <2>2. Acotado'
    BY <1>8, OlvidarTipos DEF EnviarFalla, InvTipos, Acotado, tablas
  <2> QED
    BY <2>1, <2>2 DEF InvTipos
<1>9. CASE MarcarAvisados
  <2>1. avisado' \in [DOMAIN episodios' -> Severidad]
    BY <1>9 DEF MarcarAvisados, InvTipos, TypeOK
  <2>2. TypeOK'
    BY <1>9, <2>1, OlvidarTipos DEF MarcarAvisados, Ir, InvTipos, TypeOK, Paso, historia
  <2>3. Acotado'
    BY <1>9, OlvidarTipos DEF MarcarAvisados, InvTipos, Acotado
  <2> QED
    BY <2>2, <2>3 DEF InvTipos
<1>10. CASE SinPurga
  <2>1. TypeOK' /\ Acotado'
    BY <1>10 DEF SinPurga, Ir, InvTipos, TypeOK, Acotado, Paso, tablas, ciclo, historia
  <2> QED
    BY <2>1 DEF InvTipos
<1>11. CASE PurgarEventos
  <2>1. eventos' \subseteq eventos
    BY <1>11 DEF PurgarEventos
  <2>2. IsFiniteSet(eventos')
    BY <2>1, FS_Subset DEF InvTipos, Acotado
  <2>3. TypeOK'
    BY <1>11, <2>1 DEF PurgarEventos, Ir, InvTipos, TypeOK, Paso, ciclo, historia
  <2>4. Acotado'
    BY <1>11, <2>1, <2>2 DEF PurgarEventos, InvTipos, Acotado, ciclo
  <2> QED
    BY <2>3, <2>4 DEF InvTipos
<1>12. CASE PurgarEpisodios
  <2>1. PICK claves \in SUBSET DOMAIN episodios : Dejar(claves)
    BY <1>12 DEF PurgarEpisodios
  <2>2. episodios' = [k \in claves |-> episodios[k]] /\ avisado' = [k \in claves |-> avisado[k]]
    BY <2>1 DEF Dejar
  <2>3. episodios' \in [claves -> Fila] /\ avisado' \in [claves -> Severidad]
    BY <2>2 DEF InvTipos, TypeOK
  <2>4. olvidados' \subseteq Clave \X Severidad
    BY <2>1 DEF Dejar, InvTipos, TypeOK
  <2>5. TypeOK'
    BY <1>12, <2>3, <2>4 DEF PurgarEpisodios, Ir, InvTipos, TypeOK, Paso, ciclo
  <2>6. Acotado'
    BY <1>12 DEF PurgarEpisodios, InvTipos, Acotado, ciclo
  <2> QED
    BY <2>5, <2>6 DEF InvTipos
<1>13. CASE Fallar
  <2>1. pc' \in Paso /\ olvidados' \subseteq Clave \X Severidad
    BY <1>13, AvisosTipo DEF Fallar, Ir, Paso, InvTipos, TypeOK
  <2>2. TypeOK'
    BY <1>13, <2>1, OlvidarTipos DEF Fallar, InvTipos, TypeOK, tablas
  <2>3. Acotado'
    BY <1>13, OlvidarTipos DEF Fallar, InvTipos, Acotado, tablas
  <2> QED
    BY <2>2, <2>3 DEF InvTipos
<1>14. CASE Caer
  <2>1. olvidados' \subseteq Clave \X Severidad
    BY <1>14, AvisosTipo DEF Caer, InvTipos, TypeOK
  <2>2. TypeOK'
    BY <1>14, <2>1, OlvidarTipos DEF Caer, Ir, Paso, InvTipos, TypeOK, tablas
  <2>3. Acotado'
    BY <1>14, OlvidarTipos DEF Caer, InvTipos, Acotado, TypeOK, tablas
  <2> QED
    BY <2>2, <2>3 DEF InvTipos
<1>15. CASE UNCHANGED vars
  <2>1. TypeOK' /\ Acotado'
    BY <1>15 DEF InvTipos, TypeOK, Acotado, vars, tablas, ciclo, historia
  <2> QED
    BY <2>1 DEF InvTipos
<1> QED
  BY <1>1, <1>2, <1>3, <1>4, <1>5, <1>6, <1>7, <1>8, <1>9, <1>10, <1>11, <1>12, <1>13,
     <1>14, <1>15
  DEF Next, Mantenimiento

(* The tables, the cycle and the history hold what TypeOK says, for ever. *)
THEOREM Tipos == Spec => []TypeOK
<1>1. InvTipos /\ [Next]_vars => InvTipos'
  BY TiposSeConservan
<1>2. InvTipos => TypeOK
  BY DEF InvTipos
<1> QED
  BY <1>1, <1>2, TiposIniciales, PTL DEF Spec

-----------------------------------------------------------------------------
(* Coverage. *)

(* Growth of the clock and removal of events only weaken what Cobertura    *)
(* asks; so does a lower watermark.                                        *)
LEMMA CoberturaSinTocarFilas ==
  ASSUME InvTipos, Cobertura, eventos' \subseteq eventos, episodios' = episodios,
         reloj' \in Nat, reloj' >= reloj, ultimoEvento' \in Nat, ultimoEvento' <= ultimoEvento
  PROVE  Cobertura'
<1> SUFFICES ASSUME NEW e \in eventos', e.id <= ultimoEvento', Vigente(e)'
             PROVE  \E k \in DOMAIN episodios : Cubre(k, e)
  BY DEF Cobertura, Cubre
<1>1. /\ e \in eventos /\ e.id \in Nat /\ e.ts \in Nat
      /\ reloj \in Nat /\ ultimoEvento \in Nat /\ RetEpisodios \in Nat
  BY PlazosAssumption DEF InvTipos, TypeOK, Evento
<1>2. e.id <= ultimoEvento /\ Vigente(e)
  BY <1>1 DEF Vigente
<1> QED
  BY <1>1, <1>2 DEF Cobertura

(* The heart of it: reconstruirEpisodios may move the watermark to maxID.  *)
LEMMA GuardarCubre ==
  ASSUME InvTipos, InvCobertura, GuardarEpisodios
  PROVE  Cobertura'
<1> SUFFICES ASSUME NEW e \in eventos, e.id <= maxID, Vigente(e)
             PROVE  \E k \in DOMAIN episodios' : Cubre(k, e)'
  BY DEF GuardarEpisodios, Cobertura, Vigente
<1>1. /\ pc = "guardar" /\ reloj \in Nat /\ ultimoEvento \in Nat /\ maxID \in Nat /\ desde \in Int
      /\ lote \subseteq Evento /\ \A x \in lote : x.ts <= reloj
      /\ e \in Evento /\ e.ts \in Nat /\ e.id \in Nat
  BY PlazosAssumption DEF GuardarEpisodios, InvTipos, TypeOK, Acotado, Evento
<1>2. DOMAIN Agrupar(lote) = Claves(lote)
  BY DEF Agrupar
<1>3. episodios' = [k \in DOMAIN episodios \cup Claves(lote) |->
                      IF k \in Claves(lote) THEN Agrupar(lote)[k] ELSE episodios[k]]
  BY <1>2 DEF GuardarEpisodios, Guardar
<1>4. CASE e \in lote
  <2>1. PICK k \in Claves(lote) : /\ k[1] = e.grupo
                                 /\ k[2] <= e.ts /\ e.ts <= Agrupar(lote)[k].fin
                                 /\ Rango(e) <= Agrupar(lote)[k].severidad
    BY <1>1, <1>4, AgruparCubre
  <2> QED
    BY <1>3, <2>1 DEF Cubre
<1>5. CASE e \notin lote
  <2>1. ~ (e.ts >= desde)
    BY <1>1, <1>5 DEF InvCobertura, LoteCompleto
  <2>2. e.id <= ultimoEvento
    BY <1>1, <2>1 DEF InvCobertura, VentanaAbarca
  <2>3. PICK k \in DOMAIN episodios : Cubre(k, e)
    BY <2>2 DEF InvCobertura, Cobertura
  <2>4. k \notin Claves(lote)
    <3> SUFFICES ASSUME k \in Claves(lote) PROVE FALSE
      OBVIOUS
    <3>1. PICK x \in lote : k[2] = x.ts
      BY <1>1, ClaveDeUnEvento
    <3>2. x.ts >= desde /\ x.ts \in Nat
      BY <1>1 DEF InvCobertura, LoteCompleto, Evento
    <3> QED
      BY <1>1, <2>1, <2>3, <3>1, <3>2 DEF Cubre
  <2> QED
    BY <1>3, <2>3, <2>4 DEF Cubre
<1> QED
  BY <1>4, <1>5

(* Retention only drops an attack when everything in it is out of date.    *)
LEMMA PurgarCubre ==
  ASSUME InvTipos, Cobertura, PurgarEpisodios
  PROVE  Cobertura'
<1> SUFFICES ASSUME NEW e \in eventos, e.id <= ultimoEvento, Vigente(e)
             PROVE  \E k \in DOMAIN episodios' : Cubre(k, e)'
  BY DEF PurgarEpisodios, Cobertura, Vigente
<1>1. PICK k \in DOMAIN episodios : Cubre(k, e)
  BY DEF Cobertura
<1>2. e.ts \in Nat /\ episodios[k].fin \in Nat /\ reloj \in Nat /\ RetEpisodios \in Nat
  BY PlazosAssumption DEF InvTipos, TypeOK, Evento, Fila
<1>3. RetEpisodios = 0 \/ episodios[k].fin >= reloj - RetEpisodios
  BY <1>1, <1>2 DEF Vigente, Cubre
<1>4. k \in DOMAIN episodios' /\ episodios'[k] = episodios[k]
  BY <1>3 DEF PurgarEpisodios, Dejar
<1> QED
  BY <1>1, <1>4 DEF Cubre

(* Every step keeps new events inside the window, the batch and the rows. *)
LEMMA CoberturaSeConserva == InvTipos /\ InvCobertura /\ [Next]_vars => InvCobertura'
<1> SUFFICES ASSUME InvTipos, InvCobertura, [Next]_vars PROVE InvCobertura'
  OBVIOUS
<1> USE DEF InvCobertura
<1>a. /\ reloj \in Nat /\ ultimoId \in Nat /\ ultimoEvento \in Nat
      /\ maxID <= ultimoId /\ ultimoEvento <= ultimoId
      /\ \A e \in eventos : e.id \in Nat /\ e.ts \in Nat
  BY PlazosAssumption DEF InvTipos, TypeOK, Acotado, Evento
<1>1. CASE Ingesta
  <2>1. PICK g \in Grupo, t \in 0..MaxReloj, h \in Muestra : Ingerir(g, t, h)
    BY <1>1 DEF Ingesta
  <2> DEFINE nuevo == [id |-> ultimoId + 1, grupo |-> g, ts |-> t, hecho |-> h]
  <2>2. eventos' = eventos \cup {nuevo} /\ nuevo.id = ultimoId + 1
    BY <2>1 DEF Ingerir
  <2> HIDE DEF nuevo
  <2>3. /\ pc' = pc /\ maxID' = maxID /\ desde' = desde /\ lote' = lote /\ reloj' = reloj
        /\ ultimoEvento' = ultimoEvento /\ episodios' = episodios /\ maxID \in Nat
    BY <2>1, PlazosAssumption DEF Ingerir, ciclo, InvTipos, TypeOK
  <2>4. ~ (nuevo.id <= maxID) /\ ~ (nuevo.id <= ultimoEvento)
    BY <1>a, <2>2, <2>3
  <2>5. VentanaAbarca' /\ LoteCompleto'
    BY <2>2, <2>3, <2>4 DEF VentanaAbarca, LoteCompleto
  <2>6. Cobertura'
    BY <2>2, <2>3, <2>4 DEF Cobertura, Cubre, Vigente
  <2> QED
    BY <2>5, <2>6
<1>2. CASE Tic
  <2>1. VentanaAbarca' /\ LoteCompleto'
    BY <1>2 DEF Tic, VentanaAbarca, LoteCompleto, tablas, ciclo
  <2>2. Cobertura'
    BY <1>2, <1>a, CoberturaSinTocarFilas DEF Tic, tablas
  <2> QED
    BY <2>1, <2>2
<1>3. CASE Novedades
  <2>1. MinNuevo \in Nat /\ \A e \in eventos : e.id > ultimoEvento => MinNuevo <= e.ts
    BY MinNuevoAcota
  <2>2. Hueco \in Nat
    BY HuecoAssumption
  <2>3. VentanaAbarca' /\ LoteCompleto'
    BY <1>3, <1>a, <2>1, <2>2 DEF Novedades, Ir, VentanaAbarca, LoteCompleto, tablas
  <2>4. Cobertura'
    BY <1>3, <1>a, CoberturaSinTocarFilas DEF Novedades, tablas
  <2> QED
    BY <2>3, <2>4
<1>4. CASE LeerEventos
  <2>1. VentanaAbarca' /\ LoteCompleto'
    BY <1>4 DEF LeerEventos, Ir, VentanaAbarca, LoteCompleto, tablas
  <2>2. Cobertura'
    BY <1>4, <1>a, CoberturaSinTocarFilas DEF LeerEventos, tablas
  <2> QED
    BY <2>1, <2>2
<1>5. CASE GuardarEpisodios
  <2>1. VentanaAbarca' /\ LoteCompleto'
    BY <1>5 DEF GuardarEpisodios, Ir, VentanaAbarca, LoteCompleto
  <2> QED
    BY <1>5, <2>1, GuardarCubre
<1>6. CASE EpisodiosPorAvisar \/ Enviar \/ EnviarFalla \/ MarcarAvisados \/ SinPurga
  <2>1. /\ pc' \notin {"leer", "guardar"}
        /\ eventos' = eventos /\ episodios' = episodios
        /\ reloj' = reloj /\ ultimoEvento' = ultimoEvento
    BY <1>6
    DEF EpisodiosPorAvisar, Enviar, EnviarFalla, MarcarAvisados, SinPurga, Ir, tablas
  <2>2. VentanaAbarca' /\ LoteCompleto'
    BY <2>1 DEF VentanaAbarca, LoteCompleto
  <2> QED
    BY <1>a, <2>1, <2>2, CoberturaSinTocarFilas
<1>7. CASE PurgarEventos
  <2>1. VentanaAbarca' /\ LoteCompleto'
    BY <1>7 DEF PurgarEventos, Ir, VentanaAbarca, LoteCompleto
  <2>2. Cobertura'
    BY <1>7, <1>a, CoberturaSinTocarFilas DEF PurgarEventos
  <2> QED
    BY <2>1, <2>2
<1>8. CASE PurgarEpisodios
  <2>1. VentanaAbarca' /\ LoteCompleto'
    BY <1>8 DEF PurgarEpisodios, Ir, VentanaAbarca, LoteCompleto
  <2> QED
    BY <1>8, <2>1, PurgarCubre
<1>9. CASE Fallar \/ Caer
  <2>1. /\ pc' \notin {"leer", "guardar"}
        /\ eventos' = eventos /\ episodios' = episodios /\ reloj' = reloj
    BY <1>9 DEF Fallar, Caer, Ir, tablas
  <2>2. ultimoEvento' \in Nat /\ ultimoEvento' <= ultimoEvento
    BY <1>9, <1>a DEF Fallar, Caer
  <2>3. VentanaAbarca' /\ LoteCompleto'
    BY <2>1 DEF VentanaAbarca, LoteCompleto
  <2> QED
    BY <1>a, <2>1, <2>2, <2>3, CoberturaSinTocarFilas
<1>10. CASE UNCHANGED vars
  BY <1>10
  DEF VentanaAbarca, LoteCompleto, Cobertura, Cubre, Vigente, vars, tablas, ciclo
<1> QED
  BY <1>1, <1>2, <1>3, <1>4, <1>5, <1>6, <1>7, <1>8, <1>9, <1>10 DEF Next, Mantenimiento

(* No evidence is lost: in every behaviour, whatever fails and whenever    *)
(* the process dies, every event behind the watermark is covered by a      *)
(* stored attack until retention drops it.                                 *)
THEOREM NingunEventoSePierde == Spec => []Cobertura
<1> DEFINE Inv == InvTipos /\ InvCobertura
<1>1. Init => Inv
  <2>1. Init => InvCobertura
    BY DEF Init, InvCobertura, VentanaAbarca, LoteCompleto, Cobertura
  <2> QED
    BY <2>1, TiposIniciales
<1>2. Inv /\ [Next]_vars => Inv'
  BY TiposSeConservan, CoberturaSeConserva
<1>3. Inv => Cobertura
  BY DEF InvCobertura
<1> QED
  BY <1>1, <1>2, <1>3, PTL DEF Spec

-----------------------------------------------------------------------------
(* Notices. *)

(* Every step keeps marks behind notices, and notices accounted for. *)
LEMMA AvisosSeConservan == InvTipos /\ InvAvisos /\ [Next]_vars => InvAvisos'
<1> SUFFICES ASSUME InvTipos, InvAvisos, [Next]_vars PROVE InvAvisos'
  OBVIOUS
<1> USE DEF InvAvisos
<1>a. /\ DOMAIN avisado = DOMAIN episodios
      /\ \A k \in DOMAIN avisado : avisado[k] \in Severidad
      /\ \A k \in DOMAIN pendientes : pendientes[k] \in Severidad
      /\ \A a \in enviados : a = <<a[1], a[2]>> /\ a[2] \in Severidad
      /\ Severidad \subseteq Int
  BY DEF InvTipos, TypeOK, Severidad
<1>1. CASE Ingesta \/ Tic \/ UNCHANGED vars
  <2>1. /\ pc' = pc /\ pendientes' = pendientes /\ avisado' = avisado
        /\ enviados' = enviados /\ olvidados' = olvidados
    BY <1>1 DEF Ingesta, Ingerir, Tic, vars, tablas, ciclo, historia
  <2> QED
    BY <2>1 DEF AvisosAdelantan, EnviadoConsta, MarcaSoloLoEnviado, Avisos
<1>2. CASE Novedades \/ LeerEventos \/ SinPurga \/ PurgarEventos
  <2>1. /\ pc' \notin {"enviar", "marcar"} /\ pc # "marcar" /\ avisado' = avisado
        /\ enviados' = enviados /\ olvidados' = olvidados
    BY <1>2 DEF Novedades, LeerEventos, SinPurga, PurgarEventos, Ir, tablas, historia
  <2> QED
    BY <2>1 DEF AvisosAdelantan, EnviadoConsta, MarcaSoloLoEnviado
<1>3. CASE GuardarEpisodios
  <2>1. /\ pc' \notin {"enviar", "marcar"} /\ pc # "marcar"
        /\ enviados' = enviados /\ olvidados' = olvidados
    BY <1>3 DEF GuardarEpisodios, Ir, historia
  <2>2. PICK claves : /\ DOMAIN episodios \subseteq claves
                      /\ avisado' = [k \in claves |->
                                      IF k \in DOMAIN avisado THEN avisado[k] ELSE Roce]
    BY <1>3 DEF GuardarEpisodios, Guardar
  <2>3. EnviadoConsta'
    BY <1>a, <2>1, <2>2 DEF EnviadoConsta
  <2>4. MarcaSoloLoEnviado'
    BY <2>1, <2>2 DEF MarcaSoloLoEnviado, Roce
  <2> QED
    BY <2>1, <2>3, <2>4 DEF AvisosAdelantan
<1>4. CASE EpisodiosPorAvisar
  <2>1. /\ pc' # "marcar" /\ pc # "marcar" /\ avisado' = avisado
        /\ enviados' = enviados /\ olvidados' = olvidados
        /\ pendientes' = [k \in PorAvisar |-> episodios[k].severidad]
    BY <1>4 DEF EpisodiosPorAvisar, Ir, tablas, historia
  <2>2. \A k \in PorAvisar : k \in DOMAIN avisado /\ episodios[k].severidad > avisado[k]
    BY <1>a DEF PorAvisar
  <2>3. AvisosAdelantan'
    BY <2>1, <2>2 DEF AvisosAdelantan
  <2> QED
    BY <2>1, <2>3 DEF EnviadoConsta, MarcaSoloLoEnviado
<1>5. CASE Enviar
  <2>1. /\ pc = "enviar" /\ pc' = "marcar" /\ avisado' = avisado
        /\ olvidados' = olvidados /\ enviados' = enviados \cup Avisos
        /\ pendientes' = pendientes
    BY <1>5 DEF Enviar, Ir, tablas, ciclo
  <2>2. Avisos' = Avisos
    BY <2>1 DEF Avisos
  <2>3. AvisosAdelantan' /\ EnviadoConsta'
    BY <2>1, <2>2 DEF AvisosAdelantan, EnviadoConsta
  <2>4. MarcaSoloLoEnviado'
    BY <2>1 DEF MarcaSoloLoEnviado
  <2> QED
    BY <2>3, <2>4
<1>6. CASE EnviarFalla
  <2>1. /\ pc = "enviar" /\ pc' = "retencion" /\ avisado' = avisado
        /\ olvidados' = olvidados /\ enviados' = enviados
    BY <1>6 DEF EnviarFalla, Ir, tablas, historia
  <2> QED
    BY <2>1 DEF AvisosAdelantan, EnviadoConsta, MarcaSoloLoEnviado
<1>7. CASE MarcarAvisados
  <2>1. /\ pc = "marcar" /\ pc' = "retencion"
        /\ olvidados' = olvidados /\ enviados' = enviados
        /\ avisado' = [k \in DOMAIN avisado |->
                         IF k \in DOMAIN pendientes THEN pendientes[k] ELSE avisado[k]]
    BY <1>7 DEF MarcarAvisados, Ir, historia
  <2>2. \A k \in DOMAIN pendientes :
          /\ k \in DOMAIN avisado /\ pendientes[k] > avisado[k]
          /\ <<k, pendientes[k]>> \in enviados
    BY <2>1 DEF AvisosAdelantan, Avisos
  <2>3. EnviadoConsta'
    <3> SUFFICES ASSUME NEW a \in enviados \ olvidados
                 PROVE  a[1] \in DOMAIN avisado' /\ avisado'[a[1]] >= a[2]
      BY <2>1 DEF EnviadoConsta
    <3>1. CASE a[1] \in DOMAIN avisado /\ avisado[a[1]] >= a[2]
      <4>1. a[2] \in Int /\ avisado[a[1]] \in Int
        BY <1>a, <3>1
      <4>2. CASE a[1] \in DOMAIN pendientes
        <5>1. pendientes[a[1]] \in Int /\ pendientes[a[1]] > avisado[a[1]]
          BY <1>a, <2>2, <4>2
        <5> QED
          BY <2>1, <3>1, <4>1, <4>2, <5>1
      <4>3. CASE a[1] \notin DOMAIN pendientes
        BY <2>1, <3>1, <4>3
      <4> QED
        BY <4>2, <4>3
    <3>2. CASE a \in Avisos
      <4>1. a[1] \in DOMAIN pendientes /\ a[2] = pendientes[a[1]]
        BY <3>2 DEF Avisos
      <4> QED
        BY <1>a, <2>1, <2>2, <4>1
    <3> QED
      BY <3>1, <3>2 DEF EnviadoConsta
  <2>4. MarcaSoloLoEnviado'
    BY <2>1, <2>2 DEF MarcaSoloLoEnviado
  <2> QED
    BY <2>1, <2>3, <2>4 DEF AvisosAdelantan
<1>8. CASE PurgarEpisodios
  <2>1. /\ pc' \notin {"enviar", "marcar"} /\ pc # "marcar" /\ enviados' = enviados
    BY <1>8 DEF PurgarEpisodios, Ir
  <2>2. PICK claves \in SUBSET DOMAIN episodios : Dejar(claves)
    BY <1>8 DEF PurgarEpisodios
  <2>3. /\ avisado' = [k \in claves |-> avisado[k]]
        /\ olvidados' = olvidados \cup {a \in enviados : a[1] \notin claves}
    BY <2>2 DEF Dejar
  <2>4. EnviadoConsta'
    BY <2>1, <2>3 DEF EnviadoConsta
  <2>5. MarcaSoloLoEnviado'
    BY <1>a, <2>1, <2>3 DEF MarcaSoloLoEnviado
  <2> QED
    BY <2>1, <2>4, <2>5 DEF AvisosAdelantan
<1>9. CASE Fallar \/ Caer
  <2>1. /\ pc' \notin {"enviar", "marcar"} /\ enviados' = enviados /\ avisado' = avisado
        /\ olvidados' = IF pc = "marcar" THEN olvidados \cup Avisos ELSE olvidados
    BY <1>9 DEF Fallar, Caer, Ir, tablas
  <2>2. EnviadoConsta'
    BY <2>1 DEF EnviadoConsta
  <2> QED
    BY <2>1, <2>2 DEF AvisosAdelantan, MarcaSoloLoEnviado
<1> QED
  BY <1>1, <1>2, <1>3, <1>4, <1>5, <1>6, <1>7, <1>8, <1>9 DEF Next, Mantenimiento

(* At the start nothing is told and nothing is marked. *)
LEMMA AvisosIniciales == Init => InvAvisos
BY DEF Init, InvAvisos, AvisosAdelantan, EnviadoConsta, MarcaSoloLoEnviado, Ninguno

(* The mark is never ahead of the notice. *)
THEOREM LaMarcaSigueAlAviso == Spec => []MarcaSoloLoEnviado
<1> DEFINE Inv == InvTipos /\ InvAvisos
<1>1. Init => Inv
  BY TiposIniciales, AvisosIniciales
<1>2. Inv /\ [Next]_vars => Inv'
  BY TiposSeConservan, AvisosSeConservan
<1>3. Inv => MarcaSoloLoEnviado
  BY DEF InvAvisos
<1> QED
  BY <1>1, <1>2, <1>3, PTL DEF Spec

(* An attack is told again at a severity it was told at only after a crash *)
(* or a failed statement lost the mark, or retention dropped its row.      *)
THEOREM NoSeRepite == Spec => NoRepiteAviso
<1> DEFINE Inv == InvTipos /\ InvAvisos
           Limpio == (pc = "enviar" /\ pc' = "marcar") => Avisos \cap enviados \subseteq olvidados
<1>1. Init => Inv
  BY TiposIniciales, AvisosIniciales
<1>2. Inv /\ [Next]_vars => Inv'
  BY TiposSeConservan, AvisosSeConservan
<1>3. Inv => Limpio
  <2> SUFFICES ASSUME InvTipos, InvAvisos, pc = "enviar", NEW a \in Avisos \cap enviados
               PROVE  a \in olvidados
    OBVIOUS
  <2>1. a[1] \in DOMAIN pendientes /\ a[2] = pendientes[a[1]]
    BY DEF Avisos
  <2>2. a[1] \in DOMAIN avisado /\ a[2] > avisado[a[1]]
    BY <2>1 DEF InvAvisos, AvisosAdelantan
  <2>3. avisado[a[1]] \in Int /\ a[2] \in Int
    BY <2>1, <2>2 DEF InvTipos, TypeOK, Severidad
  <2> QED
    BY <2>2, <2>3 DEF InvAvisos, EnviadoConsta
<1>4. Inv /\ [Next]_vars => [Limpio]_vars
  BY <1>3
<1> QED
  BY <1>1, <1>2, <1>4, PTL DEF Spec, NoRepiteAviso

-----------------------------------------------------------------------------
(* Rows never shrink. *)

(* Every run Agrupar cuts is unbroken from the event that opens it. *)
LEMMA TramoSeguido ==
  ASSUME NEW S, S \subseteq Evento, NEW k \in Claves(S)
  PROVE  Seguido(Tramo(S, k[1], k[2]), k)
<1> DEFINE T == Tramo(S, k[1], k[2])
<1>1. PICK x \in S : k = <<x.grupo, x.ts>> /\ EsInicio(S, x.grupo, x.ts)
  BY DEF Claves
<1>2. k[1] = x.grupo /\ k[2] = x.ts /\ x.ts \in Nat /\ EsInicio(S, k[1], k[2])
  BY <1>1 DEF Evento
<1>3. x \in T
  BY <1>2 DEF Tramo, Del
<1>4. ASSUME NEW e \in T, e.ts > k[2]
      PROVE  \E f \in T : f.ts < e.ts /\ e.ts - f.ts <= Hueco
  <2>1. /\ e \in Del(S, k[1]) /\ e.ts \in Nat
        /\ \A u \in (k[2] + 1)..e.ts : ~ EsInicio(S, k[1], u)
    BY DEF Tramo, Del, Evento
  <2>2. ~ EsInicio(S, k[1], e.ts)
    BY <1>2, <1>4, <2>1
  <2>3. PICK f \in Del(S, k[1]) : f.ts < e.ts /\ ~ (e.ts - f.ts > Hueco)
    BY <2>1, <2>2 DEF EsInicio
  <2>4. f.ts \in Nat /\ Hueco \in Nat
    BY HuecoAssumption DEF Del, Evento
  <2>5. f.ts >= k[2]
    <3> SUFFICES ASSUME f.ts < k[2] PROVE FALSE
      BY <1>2, <2>4
    <3>1. k[2] - f.ts > Hueco
      BY <1>2 DEF EsInicio
    <3> QED
      BY <1>2, <1>4, <2>1, <2>3, <2>4, <3>1
  <2>6. \A u \in (k[2] + 1)..f.ts : ~ EsInicio(S, k[1], u)
    BY <1>2, <2>1, <2>3, <2>4
  <2>7. f \in T
    BY <2>5, <2>6 DEF Tramo
  <2> QED
    BY <2>1, <2>3, <2>4, <2>7
<1>5. \A e \in T : e.grupo = k[1] /\ e.ts >= k[2]
  BY DEF Tramo, Del
<1> QED
  BY <1>2, <1>3, <1>4, <1>5 DEF Seguido

(* Reading more events splits no run that was unbroken: if the tick that   *)
(* opened it still opens an attack, all of it is in that attack.           *)
LEMMA SeguidoNoSeParte ==
  ASSUME NEW S, S \subseteq Evento, NEW k \in Claves(S),
         NEW T, T \subseteq S, Seguido(T, k)
  PROVE  T \subseteq Tramo(S, k[1], k[2])
<1> SUFFICES ASSUME NEW e \in T PROVE e \in Tramo(S, k[1], k[2])
  OBVIOUS
<1>1. k[2] \in Nat /\ e \in Del(S, k[1]) /\ e.ts >= k[2] /\ e.ts \in Nat
  BY ClaveDeUnEvento DEF Seguido, Del, Evento, Clave
<1>2. ASSUME NEW u \in (k[2] + 1)..e.ts, EsInicio(S, k[1], u) PROVE FALSE
  <2> DEFINE ticks == {f.ts : f \in {x \in T : x.ts >= u}}
  <2>1. u \in Nat /\ u > k[2] /\ e.ts >= u
    BY <1>1
  <2>2. ticks \subseteq Nat /\ e.ts \in ticks
    BY <2>1 DEF Evento
  <2>3. PICK m \in ticks : \A t \in ticks : m <= t
    <3> HIDE DEF ticks
    <3> QED
      BY <2>2, MinimoExiste
  <2>4. PICK f \in T : f.ts = m /\ f.ts >= u
    BY <2>3
  <2>5. f.ts \in Nat /\ f.ts > k[2]
    BY <1>1, <2>1, <2>2, <2>3, <2>4
  <2>6. PICK h \in T : h.ts < f.ts /\ f.ts - h.ts <= Hueco
    BY <2>5 DEF Seguido
  <2>7. h.ts \in Nat /\ h \in Del(S, k[1])
    BY DEF Seguido, Del, Evento
  <2>8. h.ts < u
    <3> SUFFICES ASSUME h.ts >= u PROVE FALSE
      BY <2>1, <2>7
    <3>1. m <= h.ts
      BY <2>3
    <3> QED
      BY <2>4, <2>5, <2>6, <2>7, <3>1
  <2>9. u - h.ts > Hueco
    BY <1>2, <2>7, <2>8 DEF EsInicio
  <2> QED
    BY <2>1, <2>4, <2>5, <2>6, <2>7, <2>9, HuecoAssumption
<1> QED
  BY <1>1, <1>2 DEF Tramo

(* More events make an attack longer, bigger and more severe, never less. *)
LEMMA ResumenCrece ==
  ASSUME NEW U, U \subseteq Evento, IsFiniteSet(U), NEW n \in Nat, \A e \in U : e.ts <= n,
         NEW T, T \subseteq U, T # {}
  PROVE  /\ Resumen(U).fin >= Resumen(T).fin
         /\ Resumen(U).eventos >= Resumen(T).eventos
         /\ Resumen(U).severidad >= Resumen(T).severidad
<1>1. U # {} /\ T \subseteq Evento /\ \A e \in T : e.ts <= n
  OBVIOUS
<1>2. PICK e \in T : Resumen(T).fin = e.ts
  <2> DEFINE ticks == {e.ts : e \in T}
  <2>1. ticks \subseteq Nat /\ ticks # {} /\ \A t \in ticks : t <= n
    BY <1>1 DEF Evento
  <2>2. Resumen(T).fin = Maximo(ticks)
    BY DEF Resumen
  <2>3. Maximo(ticks) \in ticks
    <3> HIDE DEF ticks
    <3> QED
      BY <2>1, MaximoExiste
  <2> QED
    BY <2>2, <2>3
<1>3. PICK r \in T : Resumen(T).severidad = Rango(r)
  <2> DEFINE rangos == {Rango(e2) : e2 \in T}
  <2>1. rangos \subseteq Nat /\ rangos # {} /\ \A s \in rangos : s <= 4
    <3>1. \A e2 \in T : Rango(e2) \in Severidad
      BY <1>1, RangoEsSeveridad
    <3> QED
      BY <3>1 DEF Severidad
  <2>2. Resumen(T).severidad = Maximo(rangos)
    BY DEF Resumen
  <2>3. Maximo(rangos) \in rangos
    <3> HIDE DEF rangos
    <3> QED
      BY <2>1, MaximoExiste
  <2> QED
    BY <2>2, <2>3
<1>4. Cardinality(T) <= Cardinality(U) /\ Cardinality(T) \in Nat /\ Cardinality(U) \in Nat
  BY FS_Subset, FS_CardinalityType
<1>5. Resumen(T).eventos = Cardinality(T) /\ Resumen(U).eventos = Cardinality(U)
  BY DEF Resumen
<1>6. /\ Resumen(U).fin \in Nat /\ Resumen(U).severidad \in Severidad
      /\ e.ts <= Resumen(U).fin /\ Rango(r) <= Resumen(U).severidad
  BY <1>1, ResumenAcota
<1>7. e.ts \in Nat /\ Rango(r) \in Severidad
  BY <1>1, RangoEsSeveridad DEF Evento
<1> QED
  BY <1>2, <1>3, <1>4, <1>5, <1>6, <1>7 DEF Severidad

(* What InvTipos says of the numbers. *)
LEMMA Numeros ==
  ASSUME InvTipos
  PROVE  /\ reloj \in Nat /\ desde \in Int /\ eventos \subseteq Evento /\ lote \subseteq Evento
         /\ DOMAIN episodios \subseteq Clave
         /\ \A e \in eventos : e.ts \in Nat
         /\ \A k \in DOMAIN episodios : k[2] \in Nat
         /\ RetEventos \in Nat /\ Retraso \in Nat
BY PlazosAssumption DEF InvTipos, TypeOK, Evento, Clave

(* Where the row was not touched and no event was taken away, a run that   *)
(* backed it still does.                                                   *)
LEMMA SigueRespaldada ==
  ASSUME NEW k, Respaldada(k), eventos \subseteq eventos', episodios'[k] = episodios[k],
         \/ pc' # "guardar"
         \/ pc = "guardar" /\ lote' = lote /\ desde' = desde
  PROVE  Respaldada(k)'
<1>1. PICK T \in SUBSET eventos :
        /\ Seguido(T, k) /\ episodios[k] = Resumen(T)
        /\ pc = "guardar" => \A e \in T : e.ts >= desde => e \in lote
  BY DEF Respaldada
<1>2. T \in SUBSET eventos' /\ episodios'[k] = Resumen(T)
  BY <1>1
<1>3. pc' = "guardar" => \A e \in T : e.ts >= desde' => e \in lote'
  BY <1>1
<1> QED
  BY <1>1, <1>2, <1>3 DEF Respaldada

(* What retention took stays gone: the clock only advances, and no event   *)
(* older than the tick that opened the row comes in.                       *)
LEMMA SigueCaducada ==
  ASSUME InvTipos, NEW k \in DOMAIN episodios, Caducada(k),
         reloj' \in Nat, reloj' >= reloj, \A e \in eventos' \ eventos : e.ts > k[2]
  PROVE  Caducada(k)'
<1>1. k[2] < reloj' - RetEventos
  BY Numeros DEF Caducada
<1> QED
  BY <1>1 DEF Caducada

-----------------------------------------------------------------------------
(* The row reconstruirEpisodios writes over an old one is no smaller. *)
LEMMA GuardarNoEncoge ==
  ASSUME InvTipos, FilasConRespaldo, GuardarEpisodios, NEW k \in DOMAIN episodios
  PROVE  /\ episodios'[k].fin >= episodios[k].fin
         /\ episodios'[k].eventos >= episodios[k].eventos
         /\ episodios'[k].severidad >= episodios[k].severidad
<1> DEFINE U == Tramo(lote, k[1], k[2])
<1>1. /\ pc = "guardar" /\ lote \subseteq eventos /\ \A x \in lote : x.ts >= desde
      /\ IsFiniteSet(lote) /\ \A x \in lote : x.ts <= reloj
  BY DEF GuardarEpisodios, FilasConRespaldo, InvTipos, Acotado
<1>2. DOMAIN Agrupar(lote) = Claves(lote)
  BY DEF Agrupar
<1>3. episodios' = [c \in DOMAIN episodios \cup Claves(lote) |->
                      IF c \in Claves(lote) THEN Agrupar(lote)[c] ELSE episodios[c]]
  BY <1>2 DEF GuardarEpisodios, Guardar
<1>4. episodios[k] \in Fila
  BY DEF InvTipos, TypeOK
<1>5. CASE k \notin Claves(lote)
  <2>1. episodios'[k] = episodios[k]
    BY <1>3, <1>5
  <2>2. /\ episodios[k].fin \in Nat /\ episodios[k].eventos \in Nat
        /\ episodios[k].severidad \in Nat
    BY <1>4 DEF Fila, Severidad
  <2> QED
    BY <2>1, <2>2
<1>6. CASE k \in Claves(lote)
  <2>1. episodios'[k] = Resumen(U)
    BY <1>3, <1>6 DEF Agrupar
  <2>2. PICK x \in lote : k[2] = x.ts
    BY <1>6, Numeros, ClaveDeUnEvento
  <2>3. x \in eventos /\ x.ts \in Nat /\ k[2] >= desde
    BY <1>1, <2>2, Numeros
  <2>4. ~ Caducada(k)
    BY <2>2, <2>3 DEF Caducada
  <2>5. PICK T \in SUBSET eventos :
          Seguido(T, k) /\ episodios[k] = Resumen(T) /\ \A e \in T : e.ts >= desde => e \in lote
    BY <1>1, <2>4 DEF FilasConRespaldo, Respaldada
  <2>6. T \subseteq lote
    <3> SUFFICES ASSUME NEW e \in T PROVE e \in lote
      OBVIOUS
    <3>1. e.ts \in Nat /\ e.ts >= k[2] /\ desde \in Int /\ k[2] \in Nat
      BY <2>2, <2>3, <2>5, Numeros DEF Seguido
    <3>2. e.ts >= desde
      BY <2>3, <3>1
    <3> QED
      BY <2>5, <3>2
  <2>7. T \subseteq U /\ T # {}
    BY <1>6, <2>5, <2>6, SeguidoNoSeParte, Numeros DEF Seguido
  <2>8. U \subseteq lote
    BY DEF Tramo, Del
  <2>9. U \subseteq Evento /\ IsFiniteSet(U) /\ \A e \in U : e.ts <= reloj
    BY <1>1, <2>8, FS_Subset, Numeros
  <2> HIDE DEF U
  <2> QED
    BY <2>1, <2>5, <2>7, <2>9, ResumenCrece, Numeros
<1> QED
  BY <1>5, <1>6

(* Every step keeps a run behind each row. *)
LEMMA RespaldoSeConserva ==
  ASSUME InvTipos, InvTipos', FilasConRespaldo, AtrasoCorto, [Next]_vars
  PROVE  FilasConRespaldo'
<1> DEFINE Lote == pc = "guardar" => lote \subseteq eventos /\ \A e \in lote : e.ts >= desde
           Filas == \A k \in DOMAIN episodios : Respaldada(k) \/ Caducada(k)
<1>a. Lote /\ Filas
  BY DEF FilasConRespaldo
<1>1. CASE Ingesta
  <2>1. PICK g \in Grupo, t \in 0..MaxReloj, h \in Muestra : Ingerir(g, t, h)
    BY <1>1 DEF Ingesta
  <2> DEFINE nuevo == [id |-> ultimoId + 1, grupo |-> g, ts |-> t, hecho |-> h]
  <2>2. /\ eventos' = eventos \cup {nuevo} /\ reloj - Retraso <= t
        /\ UNCHANGED <<reloj, episodios, pc, lote, desde>>
    BY <2>1 DEF Ingerir, ciclo
  <2>3. nuevo.ts = t /\ t \in Nat
    OBVIOUS
  <2> HIDE DEF nuevo
  <2>4. ASSUME NEW k \in DOMAIN episodios, Caducada(k) PROVE Caducada(k)'
    <3>1. RetEventos # 0 /\ k[2] < reloj - RetEventos
      BY <2>4 DEF Caducada
    <3>2. t > k[2]
      BY <2>2, <2>3, <3>1, Numeros DEF AtrasoCorto
    <3>3. \A e \in eventos' \ eventos : e.ts > k[2]
      BY <2>2, <2>3, <3>2
    <3>4. reloj' \in Nat /\ reloj' >= reloj
      BY <2>2, Numeros
    <3> QED
      BY <2>4, <3>3, <3>4, SigueCaducada
  <2>5. ASSUME NEW k \in DOMAIN episodios, Respaldada(k) PROVE Respaldada(k)'
    <3>1. eventos \subseteq eventos' /\ episodios'[k] = episodios[k]
      BY <2>2
    <3>2. pc' # "guardar" \/ (pc = "guardar" /\ lote' = lote /\ desde' = desde)
      BY <2>2
    <3> QED
      BY <2>5, <3>1, <3>2, SigueRespaldada
  <2>6. Lote'
    BY <1>a, <2>2
  <2>7. Filas'
    BY <1>a, <2>2, <2>4, <2>5
  <2> QED
    BY <2>6, <2>7 DEF FilasConRespaldo
<1>2. CASE PurgarEventos
  <2>1. /\ pc' # "guardar" /\ UNCHANGED <<reloj, episodios>>
        /\ eventos' = IF RetEventos = 0 THEN eventos
                      ELSE {e \in eventos : e.ts >= reloj - RetEventos}
    BY <1>2 DEF PurgarEventos, Ir
  <2>2. ASSUME NEW k \in DOMAIN episodios, Caducada(k) PROVE Caducada(k)'
    <3>1. eventos' \subseteq eventos
      BY <2>1
    <3>2. reloj' \in Nat /\ reloj' >= reloj
      BY <2>1, Numeros
    <3> QED
      BY <2>2, <3>1, <3>2, SigueCaducada
  <2>3. ASSUME NEW k \in DOMAIN episodios, Respaldada(k) PROVE Respaldada(k)' \/ Caducada(k)'
    <3>1. CASE RetEventos = 0 \/ k[2] >= reloj - RetEventos
      <4>1. PICK T \in SUBSET eventos : Seguido(T, k) /\ episodios[k] = Resumen(T)
        BY <2>3 DEF Respaldada
      <4>2. T \subseteq eventos'
        <5> SUFFICES ASSUME NEW e \in T, RetEventos # 0 PROVE e.ts >= reloj - RetEventos
          BY <2>1
        <5>1. e.ts \in Nat /\ e.ts >= k[2] /\ k[2] \in Nat
          BY <4>1, Numeros DEF Seguido
        <5> QED
          BY <3>1, <5>1, Numeros
      <4> QED
        BY <2>1, <4>1, <4>2 DEF Respaldada
    <3>2. CASE ~ (RetEventos = 0 \/ k[2] >= reloj - RetEventos)
      <4>1. k[2] < reloj - RetEventos /\ RetEventos # 0
        BY <3>2, Numeros
      <4>2. \A e \in eventos' : e.ts \in Nat /\ e.ts >= reloj - RetEventos
        BY <2>1, <4>1, Numeros
      <4>3. \A e \in eventos' : e.ts > k[2]
        BY <4>1, <4>2, Numeros
      <4> QED
        BY <2>1, <4>1, <4>3 DEF Caducada
    <3> QED
      BY <3>1, <3>2
  <2>4. Lote'
    BY <2>1
  <2>5. Filas'
    BY <1>a, <2>1, <2>2, <2>3
  <2> QED
    BY <2>4, <2>5 DEF FilasConRespaldo
<1>3. CASE LeerEventos
  <2>1. /\ lote' = {e \in eventos : e.ts >= desde}
        /\ UNCHANGED <<reloj, eventos, episodios, desde>>
    BY <1>3 DEF LeerEventos, tablas
  <2>2. ASSUME NEW k \in DOMAIN episodios, Respaldada(k) PROVE Respaldada(k)'
    <3>1. PICK T \in SUBSET eventos : Seguido(T, k) /\ episodios[k] = Resumen(T)
      BY <2>2 DEF Respaldada
    <3>2. \A e \in T : e.ts >= desde' => e \in lote'
      BY <2>1
    <3> QED
      BY <2>1, <3>1, <3>2 DEF Respaldada
  <2>3. ASSUME NEW k \in DOMAIN episodios, Caducada(k) PROVE Caducada(k)'
    BY <2>1, <2>3 DEF Caducada
  <2>4. Lote'
    BY <2>1
  <2>5. Filas'
    BY <1>a, <2>1, <2>2, <2>3
  <2> QED
    BY <2>4, <2>5 DEF FilasConRespaldo
<1>4. CASE GuardarEpisodios
  <2>1. pc' # "guardar" /\ UNCHANGED <<reloj, eventos>>
    BY <1>4 DEF GuardarEpisodios, Ir
  <2>2. DOMAIN Agrupar(lote) = Claves(lote)
    BY DEF Agrupar
  <2>3. /\ pc = "guardar" /\ lote \subseteq eventos
        /\ episodios' = [c \in DOMAIN episodios \cup Claves(lote) |->
                          IF c \in Claves(lote) THEN Agrupar(lote)[c] ELSE episodios[c]]
    BY <1>4, <1>a, <2>2 DEF GuardarEpisodios, Guardar
  <2>4. ASSUME NEW k \in Claves(lote) PROVE Respaldada(k)'
    <3> DEFINE U == Tramo(lote, k[1], k[2])
    <3>1. U \in SUBSET eventos'
      BY <2>1, <2>3 DEF Tramo, Del
    <3>2. episodios'[k] = Resumen(U)
      BY <2>3 DEF Agrupar
    <3>3. Seguido(U, k)
      BY TramoSeguido, Numeros
    <3> HIDE DEF U
    <3> QED
      BY <2>1, <3>1, <3>2, <3>3 DEF Respaldada
  <2>5. ASSUME NEW k \in DOMAIN episodios, k \notin Claves(lote) PROVE Respaldada(k)' \/ Caducada(k)'
    <3>1. episodios'[k] = episodios[k]
      BY <2>3, <2>5
    <3>2. CASE Respaldada(k)
      BY <2>1, <3>1, <3>2, SigueRespaldada
    <3>3. CASE Caducada(k)
      BY <2>1, <3>3 DEF Caducada
    <3> QED
      BY <1>a, <3>2, <3>3
  <2>6. DOMAIN episodios' = DOMAIN episodios \cup Claves(lote)
    BY <2>3
  <2>7. Lote'
    BY <2>1
  <2>8. Filas'
    BY <2>4, <2>5, <2>6
  <2> QED
    BY <2>7, <2>8 DEF FilasConRespaldo
<1>5. CASE PurgarEpisodios
  <2>1. pc' # "guardar" /\ UNCHANGED <<reloj, eventos>>
    BY <1>5 DEF PurgarEpisodios, Ir
  <2>2. PICK claves \in SUBSET DOMAIN episodios : episodios' = [k \in claves |-> episodios[k]]
    BY <1>5 DEF PurgarEpisodios, Dejar
  <2>3. ASSUME NEW k \in DOMAIN episodios' PROVE Respaldada(k)' \/ Caducada(k)'
    <3>1. k \in DOMAIN episodios /\ episodios'[k] = episodios[k]
      BY <2>2
    <3>2. CASE Respaldada(k)
      BY <2>1, <3>1, <3>2, SigueRespaldada
    <3>3. CASE Caducada(k)
      BY <2>1, <3>3 DEF Caducada
    <3> QED
      BY <1>a, <3>1, <3>2, <3>3
  <2>4. Lote' /\ Filas'
    BY <2>1, <2>3
  <2> QED
    BY <2>4 DEF FilasConRespaldo
<1>6. CASE Tic \/ Novedades \/ EpisodiosPorAvisar \/ Enviar \/ EnviarFalla \/ MarcarAvisados
           \/ SinPurga \/ Fallar \/ Caer \/ UNCHANGED vars
  <2>1. /\ UNCHANGED <<eventos, episodios>> /\ reloj' \in Nat /\ reloj' >= reloj
        /\ \/ pc' # "guardar"
           \/ pc = "guardar" /\ lote' = lote /\ desde' = desde
    BY <1>6, Numeros
    DEF Tic, Novedades, EpisodiosPorAvisar, Enviar, EnviarFalla, MarcarAvisados, SinPurga,
        Fallar, Caer, vars, tablas, ciclo, Ir
  <2>2. ASSUME NEW k \in DOMAIN episodios PROVE Respaldada(k)' \/ Caducada(k)'
    <3>1. CASE Respaldada(k)
      BY <2>1, <3>1, SigueRespaldada
    <3>2. CASE Caducada(k)
      BY <2>1, <3>2, SigueCaducada
    <3> QED
      BY <1>a, <3>1, <3>2
  <2>3. Lote'
    BY <1>a, <2>1
  <2>4. Filas'
    BY <2>1, <2>2
  <2> QED
    BY <2>3, <2>4 DEF FilasConRespaldo
<1> QED
  BY <1>1, <1>2, <1>3, <1>4, <1>5, <1>6 DEF Next, Mantenimiento

(* As long as retention keeps an event for longer than a log can lag       *)
(* behind, what reconstruirEpisodios writes over a stored attack is never  *)
(* shorter, smaller or milder than what was there.                         *)
THEOREM NingunaFilaEncoge == AtrasoCorto => (Spec => FilasNoEncogen)
<1> SUFFICES ASSUME AtrasoCorto PROVE Spec => FilasNoEncogen
  OBVIOUS
<1> DEFINE Inv == InvTipos /\ FilasConRespaldo
           Crecen == \A k \in DOMAIN episodios \cap DOMAIN episodios' :
                       /\ episodios'[k].fin >= episodios[k].fin
                       /\ episodios'[k].eventos >= episodios[k].eventos
                       /\ episodios'[k].severidad >= episodios[k].severidad
<1>1. Init => Inv
  BY TiposIniciales DEF Init, FilasConRespaldo, Ninguno
<1>2. Inv /\ [Next]_vars => Inv'
  BY TiposSeConservan, RespaldoSeConserva
<1>3. Inv /\ [Next]_vars => [Crecen]_vars
  <2> SUFFICES ASSUME Inv, Next, NEW k \in DOMAIN episodios, k \in DOMAIN episodios'
               PROVE  /\ episodios'[k].fin >= episodios[k].fin
                      /\ episodios'[k].eventos >= episodios[k].eventos
                      /\ episodios'[k].severidad >= episodios[k].severidad
    OBVIOUS
  <2>1. CASE GuardarEpisodios
    BY <2>1, GuardarNoEncoge
  <2>2. CASE ~ GuardarEpisodios
    <3>1. episodios'[k] = episodios[k]
      <4>1. CASE PurgarEpisodios
        BY <4>1 DEF PurgarEpisodios, Dejar
      <4>2. CASE ~ PurgarEpisodios
        BY <2>2, <4>2
        DEF Next, Mantenimiento, Ingesta, Ingerir, Tic, Novedades, LeerEventos,
            EpisodiosPorAvisar, Enviar, EnviarFalla, MarcarAvisados, SinPurga, PurgarEventos,
            Fallar, Caer, tablas
      <4> QED
        BY <4>1, <4>2
    <3>2. episodios[k] \in Fila
      BY DEF InvTipos, TypeOK
    <3>3. /\ episodios[k].fin \in Nat /\ episodios[k].eventos \in Nat
          /\ episodios[k].severidad \in Nat
      BY <3>2 DEF Fila, Severidad
    <3> QED
      BY <3>1, <3>3
  <2> QED
    BY <2>1, <2>2
<1> QED
  BY <1>1, <1>2, <1>3, PTL DEF Spec, FilasNoEncogen

-----------------------------------------------------------------------------
(* All of it at once, whatever ingestion, the cycle, retention, failing    *)
(* statements and kills of the process do in between: what the run checks  *)
(* of the tables, the cycle's locals and the notices.                      *)
THEOREM LosAtaquesSeTienen == Spec => []Inductivo
<1>1. Init => Inductivo
  BY TiposIniciales, AvisosIniciales
  DEF Init, Inductivo, InvTipos, InvAvisos, VentanaAbarca, LoteCompleto, Cobertura,
      FilasConRespaldo, Ninguno
<1>2. Inductivo /\ [Next]_vars => Inductivo'
  <2> SUFFICES ASSUME Inductivo, [Next]_vars PROVE Inductivo'
    OBVIOUS
  <2>1. InvTipos /\ InvCobertura /\ InvAvisos /\ (AtrasoCorto => FilasConRespaldo)
    BY DEF Inductivo, InvTipos, InvCobertura, InvAvisos
  <2>2. InvTipos' /\ InvCobertura' /\ InvAvisos'
    BY <2>1, TiposSeConservan, CoberturaSeConserva, AvisosSeConservan
  <2>3. AtrasoCorto' => FilasConRespaldo'
    <3>1. AtrasoCorto' <=> AtrasoCorto
      BY DEF AtrasoCorto
    <3> QED
      BY <2>1, <2>2, <3>1, RespaldoSeConserva
  <2> QED
    BY <2>2, <2>3 DEF Inductivo, InvTipos, InvCobertura, InvAvisos
<1> QED
  BY <1>1, <1>2, PTL DEF Spec

=============================================================================
