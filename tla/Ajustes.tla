------------------------------- MODULE Ajustes -------------------------------
(***************************************************************************)
(* The settings (internal/config, web/config.go, web/aviso.go and the      *)
(* wizard cmd/k0pot/configurar.go).  The row of the database is where the  *)
(* panel, the collector and the wizard meet.  Each process keeps a copy in *)
(* memory (Gestor): the collector reads the row again in every cycle, the  *)
(* panel never does.  A save of the panel reads the copy, applies the form *)
(* to it, validates, writes the row, replaces the copy and has the report  *)
(* generator rebuilt: nothing holds the handlers apart in between.         *)
(***************************************************************************)
EXTENDS Naturals, Sequences

CONSTANTS Manejador,      \* handlers of the panel that may run at a time
          Proveedor,     \* providers of language models, "anthropic" among them
          Clave,         \* their keys
          SinClave,      \* the empty key
          Puesto,        \* traps that can be given a port
          PuertoUtil,    \* ports from 1024 up
          Apagado,       \* no port: the trap is off
          Formularios,   \* what the panel may send
          Semilla,       \* PorDefecto with what the environment adds
          Idioma,
          ParDeRed,      \* pairs of addresses the wizard accepts
          Ninguna,       \* no configuration
          MaxGuardados,    \* bound: saves
          MaxParadas      \* bound: restarts

\* Config and ModeloIA.  Beside the list of models there is the single provider
\* of older versions: its kind, its URL, as the provider presetPorURL takes it
\* for, and a key of each kind.
UnModelo == [prov : Proveedor, clave : Clave \cup {SinClave}]
Tipo == {"anthropic", "compatible"}
Configs == [modelos : Seq(UnModelo), usarLLM : BOOLEAN, tipo : Tipo, url : Proveedor,
            sueltas : [Tipo -> Clave \cup {SinClave}],
            puertos : [Puesto -> PuertoUtil \cup {Apagado}],
            idioma : Idioma \cup {Semilla.idioma}, red : ParDeRed \cup {Semilla.red}]

\* What a form brings: of each field a value or none, and the keys to delete.
Formas == [modelos : SUBSET Seq(UnModelo), usarLLM : SUBSET BOOLEAN, tipo : SUBSET Tipo,
           url : SUBSET Proveedor, claves : [Tipo -> Clave \cup {SinClave}],
           borrar : SUBSET Tipo, puertos : SUBSET [Puesto -> Nat]]

VARIABLES
    fila,       \* the row of the table config
    copia,      \* Gestor.actual of each process
    generador,  \* the models the panel's generator was built with
    peticion,   \* the handlers in progress
    asistente,  \* what the wizard read, while it asks
    cruce,      \* history: since the panel started two saves have overlapped
    guardados, caidasAj

varsAjustes == <<fila, copia, generador, peticion, asistente, cruce, guardados, caidasAj>>

-----------------------------------------------------------------------------
\* The list or, when it is empty and the models are in use, the old single
\* provider, if its kind has a key.
Suelto(c) == [prov |-> IF c.tipo = "anthropic" THEN "anthropic" ELSE c.url,
              clave |-> c.sueltas[c.tipo]]
ModelosEfectivos(c) ==
    IF c.modelos # <<>> THEN c.modelos
    ELSE IF c.usarLLM /\ Suelto(c).clave # SinClave THEN <<Suelto(c)>> ELSE <<>>

\* The models the generator is built with: none when they are not in use.
generadorDe(c) == IF c.usarLLM THEN ModelosEfectivos(c) ELSE <<>>

\* The key known for a provider: the last one of the list.
ClaveDe(ms, p) ==
    LET con == {i \in DOMAIN ms : ms[i].prov = p /\ ms[i].clave # SinClave}
    IN  IF con = {} THEN SinClave
        ELSE ms[CHOOSE i \in con : \A j \in con : j <= i].clave

\* A model that comes without key keeps the one its provider had, and one
\* that has none is left out.
Viejas(c, p) == ClaveDe(ModelosEfectivos(c), p)

ConClave(c, m) ==
    IF m.clave = SinClave THEN [m EXCEPT !.clave = Viejas(c, m.prov)] ELSE m

\* "nuevos" after each turn of the loop over the models sent.
Bucle(c, ms) ==
    LET nuevos[n \in 0..Len(ms)] ==
          IF n = 0 THEN <<>>
          ELSE IF ConClave(c, ms[n]).clave = SinClave THEN nuevos[n - 1]
          ELSE Append(nuevos[n - 1], ConClave(c, ms[n]))
    IN  nuevos
ListaNueva(c, ms) == Bucle(c, ms)[Len(ms)]

\* guardarAjustes: only what the form brings (a set with one value or none)
\* changes: first the single provider ...
Toma(enviado, si) == IF enviado = {} THEN si ELSE CHOOSE x \in enviado : TRUE
CambiaSuelto(c, f) ==
    [c EXCEPT !.usarLLM = Toma(f.usarLLM, @), !.tipo = Toma(f.tipo, @), !.url = Toma(f.url, @)]

\* ... then the list, whose old keys are the ones in use by then; and the
\* single keys last: an empty one changes nothing, and is deleted on request.
AplicarFormulario(c, f) ==
    [CambiaSuelto(c, f) EXCEPT
       !.modelos = IF f.modelos = {} THEN @
                   ELSE ListaNueva(CambiaSuelto(c, f), Toma(f.modelos, <<>>)),
       !.puertos = Toma(f.puertos, @),
       !.sueltas = [t \in Tipo |-> IF t \in f.borrar THEN SinClave
                                   ELSE IF f.claves[t] = SinClave THEN c.sueltas[t]
                                   ELSE f.claves[t]]]

\* Validar, as far as the traps are concerned: whatever else is out of range
\* refuses the form as a whole in the same way.
puertoRepetido(ps) ==
    \E s, t \in Puesto : s # t /\ ps[s] = ps[t] /\ ps[s] # Apagado
Validar(c) ==
    /\ \A t \in Puesto : c.puertos[t] \in PuertoUtil \cup {Apagado}
    /\ ~puertoRepetido(c.puertos)

\* Abrir stores what it sows with Guardar, which validates it.
ASSUME AjustesAssumption ==
    /\ "anthropic" \in Proveedor
    /\ Semilla \in Configs /\ Validar(Semilla)
    /\ Formularios \subseteq Formas
    /\ Ninguna \notin Configs /\ Ninguna \notin Formularios

-----------------------------------------------------------------------------
SinPeticion == [fase |-> "libre", leida |-> Ninguna, nueva |-> Ninguna, forma |-> Ninguna]
Programa == {"panel", "collector"}

InitAjustes ==
    /\ fila = Ninguna
    /\ copia = [p \in Programa |-> Ninguna]
    /\ generador = <<>>
    /\ peticion = [q \in Manejador |-> SinPeticion]
    /\ asistente = Ninguna
    /\ cruce = FALSE
    /\ guardados = 0 /\ caidasAj = 0

\* Abrir: the first process ever sows the row.
Abrir(p) ==
    /\ copia[p] = Ninguna
    /\ fila' = IF fila = Ninguna THEN Semilla ELSE fila
    /\ copia' = [copia EXCEPT ![p] = fila']
    /\ generador' = IF p = "panel" THEN generadorDe(fila') ELSE generador
    /\ UNCHANGED <<peticion, asistente, cruce, guardados, caidasAj>>

\* The handler: Actual, the form on top of it, Validar.  What is not valid is
\* answered with an error and changes nothing.
EmpezarAjuste(q, f, c) ==
    /\ copia["panel"] # Ninguna /\ peticion[q] = SinPeticion /\ guardados < MaxGuardados
    /\ Validar(c)
    /\ peticion' = [peticion EXCEPT ![q] =
         [fase |-> "escribir", leida |-> copia["panel"], nueva |-> c, forma |-> f]]
    /\ cruce' = (cruce \/ \E r \in Manejador : peticion[r] # SinPeticion)
    /\ guardados' = guardados + 1
    /\ UNCHANGED <<fila, copia, generador, asistente, caidasAj>>
LeerAjustes(q, f) == EmpezarAjuste(q, f, AplicarFormulario(copia["panel"], f))
fijarIdioma(q, i) ==
    copia["panel"] # Ninguna /\ EmpezarAjuste(q, Ninguna, [copia["panel"] EXCEPT !.idioma = i])

\* Guardar: first the row ...
GuardarConfig(q) ==
    /\ peticion[q].fase = "escribir"
    /\ fila' = peticion[q].nueva
    /\ peticion' = [peticion EXCEPT ![q].fase = "copiar"]
    /\ UNCHANGED <<copia, generador, asistente, cruce, guardados, caidasAj>>

GuardarFalla(q) ==
    /\ peticion[q].fase = "escribir"
    /\ peticion' = [peticion EXCEPT ![q] = SinPeticion]
    /\ UNCHANGED <<fila, copia, generador, asistente, cruce, guardados, caidasAj>>

\* Mutant: the copy is filled with what the handler had read.
CopiarLeida(q) ==
    /\ peticion[q].fase = "copiar"
    /\ copia' = [copia EXCEPT !["panel"] = peticion[q].leida]
    /\ peticion' = IF peticion[q].forma = Ninguna THEN [peticion EXCEPT ![q] = SinPeticion]
                   ELSE [peticion EXCEPT ![q].fase = "avisar"]
    /\ UNCHANGED <<fila, generador, asistente, cruce, guardados, caidasAj>>

\* ... then the copy ...
Copiar(q) ==
    /\ peticion[q].fase = "copiar"
    /\ copia' = [copia EXCEPT !["panel"] = peticion[q].nueva]
    /\ peticion' = IF peticion[q].forma = Ninguna THEN [peticion EXCEPT ![q] = SinPeticion]
                   ELSE [peticion EXCEPT ![q].fase = "avisar"]
    /\ UNCHANGED <<fila, generador, asistente, cruce, guardados, caidasAj>>

\* ... and AlCambiarConfig, which the choice of language does without.
AlCambiarConfig(q) ==
    /\ peticion[q].fase = "avisar"
    /\ generador' = generadorDe(peticion[q].nueva)
    /\ peticion' = [peticion EXCEPT ![q] = SinPeticion]
    /\ UNCHANGED <<fila, copia, asistente, cruce, guardados, caidasAj>>

Recargar ==
    /\ copia["collector"] \notin {Ninguna, fila}
    /\ copia' = [copia EXCEPT !["collector"] = fila]
    /\ UNCHANGED <<fila, generador, peticion, asistente, cruce, guardados, caidasAj>>

\* The wizard is a process of its own: it opens the settings, asks, and saves
\* all of them; the panel, if it runs, is not told.
AbrirAsistente ==
    /\ asistente = Ninguna /\ guardados < MaxGuardados
    /\ fila' = IF fila = Ninguna THEN Semilla ELSE fila
    /\ asistente' = fila'
    /\ UNCHANGED <<copia, generador, peticion, cruce, guardados, caidasAj>>

GuardarAsistente(r) ==
    /\ asistente # Ninguna /\ guardados < MaxGuardados
    /\ fila' = [asistente EXCEPT !.red = r]
    /\ asistente' = Ninguna
    /\ cruce' = (cruce \/ copia["panel"] # Ninguna)
    /\ guardados' = guardados + 1
    /\ UNCHANGED <<copia, generador, peticion, caidasAj>>

\* An address that does not exist, twice the same one, or "no": nothing saved.
CancelarAsistente ==
    /\ asistente # Ninguna
    /\ asistente' = Ninguna
    /\ UNCHANGED <<fila, copia, generador, peticion, cruce, guardados, caidasAj>>

\* A process stops; the panel takes its handlers with it.
CaerProceso(p) ==
    /\ copia[p] # Ninguna /\ caidasAj < MaxParadas
    /\ caidasAj' = caidasAj + 1
    /\ copia' = [copia EXCEPT ![p] = Ninguna]
    /\ IF p = "panel"
       THEN peticion' = [q \in Manejador |-> SinPeticion] /\ cruce' = FALSE
       ELSE UNCHANGED <<peticion, cruce>>
    /\ UNCHANGED <<fila, generador, asistente, guardados>>

NextAjustes ==
    \/ \E p \in Programa : Abrir(p) \/ CaerProceso(p)
    \/ \E q \in Manejador :
         \/ \E f \in Formularios : LeerAjustes(q, f)
         \/ \E i \in Idioma : fijarIdioma(q, i)
         \/ GuardarConfig(q) \/ GuardarFalla(q) \/ Copiar(q) \/ AlCambiarConfig(q)
    \/ Recargar
    \/ AbrirAsistente \/ CancelarAsistente
    \/ \E r \in ParDeRed : GuardarAsistente(r)

SpecAjustes == InitAjustes /\ [][NextAjustes]_varsAjustes

-----------------------------------------------------------------------------
Peticiones == [fase : {"escribir", "copiar", "avisar"}, leida : Configs, nueva : Configs,
               forma : Formularios \cup {Ninguna}]

\* What anybody reads or is about to write is a valid configuration.
TypeOKAjustes ==
    /\ {fila, asistente} \subseteq Configs \cup {Ninguna}
    /\ copia \in [Programa -> Configs \cup {Ninguna}]
    /\ generador \in Seq(UnModelo)
    /\ peticion \in [Manejador -> Peticiones \cup {SinPeticion}]
    /\ cruce \in BOOLEAN /\ guardados \in Nat /\ caidasAj \in Nat
    /\ \A c \in {fila, asistente, copia["panel"], copia["collector"]} : c # Ninguna => Validar(c)
    /\ \A q \in Manejador : peticion[q] # SinPeticion => Validar(peticion[q].nueva)

\* As long as no two saves overlap and the wizard does not save behind the
\* back of a running panel, whatever is stopped or fails: the copy the panel
\* works with is the row, the generator is the one those settings ask for
\* (each until the handler that is changing them gets there), and no save
\* undoes another, because it starts from the row as it is (config.go:422-439,
\* web/config.go:95-235).
PanelAlDia ==
    (~cruce /\ copia["panel"] # Ninguna) =>
      LET en(fases) == \E q \in Manejador : peticion[q].fase \in fases IN
        /\ copia["panel"] = fila \/ en({"copiar"})
        /\ generador = generadorDe(copia["panel"]) \/ en({"avisar"})
        /\ \A q \in Manejador : peticion[q].fase = "escribir" => peticion[q].leida = fila

\* The panel never gets the keys it shows, so it sends its forms back without
\* them: a form that still lists a provider and brings no key for it leaves
\* it the key it had, kept in the list or inherited from the old single
\* provider (web/config.go:151-171).  Of a provider that is listed twice only
\* the last key counts.  The old single provider needs the form to leave it as
\* it was: a form that puts the models out of use, or changes its kind or URL,
\* does so before its key is looked for (web/config.go:139-150, config.go:162).
ComoEstaba(h) ==
    \/ h.leida.modelos # <<>>
    \/ /\ h.nueva.usarLLM = h.leida.usarLLM
       /\ h.nueva.tipo = h.leida.tipo /\ h.nueva.url = h.leida.url
ClavesSeConservan ==
    \A q \in Manejador : LET h == peticion[q] IN
      (h # SinPeticion /\ h.forma # Ninguna /\ ComoEstaba(h)) =>
        LET enviados == Toma(h.forma.modelos, <<>>) IN
        \A p \in {enviados[i].prov : i \in DOMAIN enviados} :
          LET antes == ClaveDe(ModelosEfectivos(h.leida), p) IN
          (antes # SinClave /\ ClaveDe(enviados, p) = SinClave) =>
            ClaveDe(ModelosEfectivos(h.nueva), p) = antes

\* What the panel works with and what its handlers are about to write, at
\* once: neither a save nor a key is lost on the way (web/config.go).
AjustesFieles == PanelAlDia /\ ClavesSeConservan

-----------------------------------------------------------------------------
(* The inductive invariant behind AjustesFieles.                           *)

\* What a handler will write is its form on top of what it read; the choice
\* of language changes no model.
DeLoLeido(h) ==
    IF h.forma = Ninguna
    THEN generadorDe(h.nueva) = generadorDe(h.leida)
    ELSE h.nueva = AplicarFormulario(h.leida, h.forma)
SaleDeLoLeido ==
    \A q \in Manejador : peticion[q] # SinPeticion => DeLoLeido(peticion[q])

\* Who has settings found a row; who is down has no handler.
HayFila ==
    /\ (asistente # Ninguna \/ \E p \in Programa : copia[p] # Ninguna) => fila # Ninguna
    /\ copia["panel"] = Ninguna => \A q \in Manejador : peticion[q] = SinPeticion

\* Where each step of a save leaves the row, the copy and the generator.
EnSuSitio(q) ==
    LET h == peticion[q] IN
    /\ h.fase = "escribir" => copia["panel"] = fila
    /\ h.fase = "copiar" => fila = h.nueva
    /\ h.fase = "avisar" => fila = h.nueva /\ copia["panel"] = h.nueva
    /\ h.fase \in {"escribir", "copiar"} => copia["panel"] = h.leida
    /\ h.fase # "avisar" => generador = generadorDe(copia["panel"])

\* Without overlapping saves one handler at most is at work.
UnoSolo ==
    (~cruce /\ copia["panel"] # Ninguna) =>
      \/ /\ \A q \in Manejador : peticion[q] = SinPeticion
         /\ copia["panel"] = fila /\ generador = generadorDe(copia["panel"])
      \/ \E q \in Manejador :
           /\ peticion[q] # SinPeticion /\ EnSuSitio(q)
           /\ \A r \in Manejador \ {q} : peticion[r] = SinPeticion

InductivoAjustes == TypeOKAjustes /\ SaleDeLoLeido /\ HayFila /\ UnoSolo
=============================================================================
