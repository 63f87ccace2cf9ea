----------------------------- MODULE Narrativas -----------------------------
(***************************************************************************)
(* Narratives: the text the model writes about a whole attack, campaign,   *)
(* artefact or URL.  Opening one never calls the model: it queues it for   *)
(* the panel's sweeper (web/explicar_fondo.go), which reuses what memory   *)
(* has for attacks of the same signature or asks.  A button asks at once   *)
(* (explicarEpisodio and its siblings), and at the first start after the   *)
(* upgrade the memory is seeded from what was already explained.  Room in  *)
(* the daily budget is left open: CuotaLLM models it.                      *)
(***************************************************************************)
EXTENDS Integers, FiniteSets

CONSTANTS Ataque,      \* rows of episodios worth a narrative (Acceso or worse)
          Otro,        \* campaigns, artefacts, URLs: table explicaciones
          Lenguas,     \* languages of the requests and of the configuration
          Explicados,  \* attacks already explained before the memory existed
          ConCebo,     \* attacks whose password was the bait's
          MaxGuion,    \* bound: how much an attack grows
          MaxVeces     \* bound: crashes, and changes of language

ASSUME NarrativasAssumption ==
    /\ Ataque \cap Otro = {} /\ Explicados \subseteq Ataque /\ ConCebo \subseteq Ataque
    /\ MaxGuion \in Nat \ {0} /\ MaxVeces \in Nat

VARIABLES
    guion,        \* how far the script of each attack's row goes
    explicacion,  \* episodios.explicacion and table explicaciones
    memoria,      \* narrativas_aprendidas: (firma, idioma) -> text
    sembradas,    \* the row narrativas_sembradas
    lengua,       \* c.Idioma
    pedidas,      \* explicacionesPedidas, in the panel's memory
    barrido,      \* the sweeper: what it is writing about, or Ocioso
    boton,        \* the explain button: the same
    siembra,      \* rows SembrarNarrativas has read and not yet filed
    deSiembra,    \* history: keys of memoria filed by the seeding
    olvidadas,    \* history: whose last request was refused, failed or went
                  \* with the panel, which nothing remembers
    veces

varsNarrativas == <<guion, explicacion, memoria, sembradas, lengua, pedidas,
                    barrido, boton, siembra, deSiembra, olvidadas, veces>>

Objeto == Ataque \cup Otro
Firma == (1..MaxGuion) \X BOOLEAN
Vacio == [firma |-> <<0, FALSE>>, en |-> "ninguna"]
Ocioso == [de |-> {}, firma |-> <<0, FALSE>>, en |-> "ninguna"]

\* firmaDeAtaque: severity, commands and routes, and the bait when it bit.
\* What is not an attack has none, but its text tells one thing too.
firmaDeAtaque(o) == IF o \in Ataque THEN <<guion[o], o \in ConCebo>> ELSE <<1, FALSE>>
\* The signature of a row of EpisodiosExplicados, which reads no passwords.
firmaSembrada(o) == <<guion[o], FALSE>>
\* Mutant: the row read again when the text is ready.
firmaDeAhora(p) == CHOOSE f \in {firmaDeAtaque(o) : o \in p.de} : TRUE

Texto(f, l) == [firma |-> f, en |-> l]

InitNarrativas ==
    /\ guion = [a \in Ataque |-> 1]
    /\ lengua \in Lenguas
    /\ \E l \in [Explicados -> Lenguas] :
         explicacion = [o \in Objeto |->
             IF o \in Explicados THEN Texto(firmaDeAtaque(o), l[o]) ELSE Vacio]
    /\ memoria = [k \in {} |-> Vacio]
    /\ sembradas = FALSE
    /\ pedidas = {}
    /\ barrido = Ocioso /\ boton = Ocioso
    /\ siembra = {} /\ deSiembra = {} /\ olvidadas = {}
    /\ veces = 0

\* The requests for os end without a text, unless they were made again.
Olvida(os) == olvidadas' = olvidadas \cup {o \in os \ pedidas' : explicacion'[o] = Vacio}

-----------------------------------------------------------------------------
\* GuardarExplicacion(De); the error of the background ones is ignored.
GuardarExplicacion(o, t) ==
    explicacion' \in {[explicacion EXCEPT ![o] = t], explicacion}

\* The upsert of GuardarNarrativaAprendida.
Archivar(f, l, t) ==
    memoria' = [k \in DOMAIN memoria \cup {<<f, l>>} |->
                  IF k = <<f, l>> THEN t ELSE memoria[k]]

\* The cycle regroups the attack with what it did since.
Crece(a) ==
    /\ guion[a] < MaxGuion
    /\ guion' = [guion EXCEPT ![a] = @ + 1]
    /\ UNCHANGED <<explicacion, memoria, sembradas, lengua, pedidas, barrido,
                   boton, siembra, deSiembra, olvidadas, veces>>

CambiaLengua(l) ==
    /\ l # lengua /\ veces < MaxVeces
    /\ veces' = veces + 1
    /\ lengua' = l
    /\ UNCHANGED <<guion, explicacion, memoria, sembradas, pedidas, barrido,
                   boton, siembra, deSiembra, olvidadas>>

\* GET of the detail, in the language of the request.
Abrir(o, l) ==
    /\ explicacion[o] = Vacio
    /\ \/ /\ o \in Ataque /\ <<firmaDeAtaque(o), l>> \in DOMAIN memoria
          /\ GuardarExplicacion(o, memoria[<<firmaDeAtaque(o), l>>])
          /\ UNCHANGED <<pedidas, olvidadas>>
       \/ /\ ~(o \in Ataque /\ <<firmaDeAtaque(o), l>> \in DOMAIN memoria)
          /\ pedidas' = pedidas \cup {o} /\ olvidadas' = olvidadas \ {o}
          /\ UNCHANGED explicacion
    /\ UNCHANGED <<guion, memoria, sembradas, lengua, barrido, boton, siembra,
                   deSiembra, veces>>

-----------------------------------------------------------------------------
(* The sweeper, once per tick.  Range hands it any of the requests, and the *)
(* request is deleted before anything else.                                 *)

\* Mutant: what memory has is found and not saved.
BarrerSinGuardar(o) ==
    /\ barrido = Ocioso /\ o \in pedidas
    /\ pedidas' = pedidas \ {o}
    /\ UNCHANGED <<guion, explicacion, memoria, sembradas, lengua, barrido, boton,
                   siembra, deSiembra, olvidadas, veces>>

\* Nothing to do: explained meanwhile, or memory has its signature, or the
\* campaign is no longer detected, or the budget refuses.
BarrerSinModelo(o) ==
    /\ barrido = Ocioso /\ o \in pedidas
    /\ pedidas' = pedidas \ {o}
    /\ \/ /\ explicacion[o] = Vacio /\ o \in Ataque
          /\ <<firmaDeAtaque(o), lengua>> \in DOMAIN memoria
          /\ GuardarExplicacion(o, memoria[<<firmaDeAtaque(o), lengua>>])
       \/ UNCHANGED explicacion
    /\ Olvida({o})
    /\ UNCHANGED <<guion, memoria, sembradas, lengua, barrido, boton, siembra,
                   deSiembra, veces>>

\* The row, its signature and the language are read here, before the call.
BarrerConModelo(o) ==
    /\ barrido = Ocioso /\ o \in pedidas /\ explicacion[o] = Vacio
    /\ ~(o \in Ataque /\ <<firmaDeAtaque(o), lengua>> \in DOMAIN memoria)
    /\ pedidas' = pedidas \ {o}
    /\ barrido' = [de |-> {o}, firma |-> firmaDeAtaque(o), en |-> lengua]
    /\ UNCHANGED <<guion, explicacion, memoria, sembradas, lengua, boton,
                   siembra, deSiembra, olvidadas, veces>>

FirmaPara(p) == p.firma

\* guardar(texto): by its key and, when it is an attack, by its signature.
Escribir ==
    /\ barrido # Ocioso
    /\ LET t == Texto(barrido.firma, barrido.en) IN
         \E o \in barrido.de :
           /\ explicacion' = [explicacion EXCEPT ![o] = t]
           /\ IF o \in Ataque
              THEN /\ Archivar(FirmaPara(barrido), barrido.en, t)
                   /\ deSiembra' = deSiembra \ {<<FirmaPara(barrido), barrido.en>>}
              ELSE UNCHANGED <<memoria, deSiembra>>
    /\ barrido' = Ocioso
    /\ UNCHANGED <<guion, sembradas, lengua, pedidas, boton, siembra, olvidadas, veces>>

\* ... two statements whose errors are ignored: one of them may fail.
EscribirAMedias ==
    /\ barrido # Ocioso
    /\ LET t == Texto(barrido.firma, barrido.en) IN
         \E o \in barrido.de \cap Ataque :
           \/ explicacion' = [explicacion EXCEPT ![o] = t] /\ UNCHANGED <<memoria, deSiembra>>
           \/ /\ Archivar(FirmaPara(barrido), barrido.en, t)
              /\ deSiembra' = deSiembra \ {<<FirmaPara(barrido), barrido.en>>}
              /\ UNCHANGED explicacion
    /\ barrido' = Ocioso
    /\ UNCHANGED <<guion, sembradas, lengua, pedidas, boton, siembra, veces>>
    /\ Olvida(barrido.de)

\* The call failed, or every save did: the request is not put back.
NoEscribir ==
    /\ barrido # Ocioso
    /\ barrido' = Ocioso
    /\ UNCHANGED <<guion, explicacion, memoria, sembradas, lengua, pedidas,
                   boton, siembra, deSiembra, veces>>
    /\ Olvida(barrido.de)

-----------------------------------------------------------------------------
(* The button: always the model, in the language of the request; saved by   *)
(* its key alone, over whatever is there.                                   *)
Pulsar(o, l) ==
    /\ boton = Ocioso
    /\ boton' = [de |-> {o}, firma |-> firmaDeAtaque(o), en |-> l]
    /\ UNCHANGED <<guion, explicacion, memoria, sembradas, lengua, pedidas,
                   barrido, siembra, deSiembra, olvidadas, veces>>

Atender ==
    /\ boton # Ocioso
    /\ \E o \in boton.de : GuardarExplicacion(o, Texto(boton.firma, boton.en))
    /\ boton' = Ocioso
    /\ UNCHANGED <<guion, memoria, sembradas, lengua, pedidas, barrido, siembra,
                   deSiembra, olvidadas, veces>>

-----------------------------------------------------------------------------
(* SembrarNarrativas, a goroutine of the start: everything explained so far *)
(* is read at once and filed one by one under the configured language.      *)
LeerExplicados ==
    /\ ~sembradas /\ siembra = {}
    /\ siembra' = {<<firmaSembrada(a), lengua, explicacion[a]>> :
                     a \in {b \in Ataque : explicacion[b] # Vacio}}
    /\ sembradas' = (siembra' = {})
    /\ UNCHANGED <<guion, explicacion, memoria, lengua, pedidas, barrido, boton,
                   deSiembra, olvidadas, veces>>

Sembrar(e) ==
    /\ e \in siembra
    /\ LET k == <<e[1], e[2]>> IN
         IF k \in DOMAIN memoria
         THEN UNCHANGED <<memoria, deSiembra>>
         ELSE Archivar(e[1], e[2], e[3]) /\ deSiembra' = deSiembra \cup {k}
    /\ siembra' = siembra \ {e}
    /\ sembradas' = (siembra' = {})
    /\ UNCHANGED <<guion, explicacion, lengua, pedidas, barrido, boton, olvidadas, veces>>

\* The panel restarts: queue, calls and seeding go with it.
CaePanel ==
    /\ veces < MaxVeces
    /\ veces' = veces + 1
    /\ pedidas' = {} /\ barrido' = Ocioso /\ boton' = Ocioso /\ siembra' = {}
    /\ UNCHANGED <<guion, explicacion, memoria, sembradas, lengua, deSiembra>>
    /\ Olvida(pedidas \cup barrido.de)

NextNarrativas ==
    \/ \E a \in Ataque : Crece(a)
    \/ \E l \in Lenguas : CambiaLengua(l)
    \/ \E o \in Objeto, l \in Lenguas : Abrir(o, l)
    \/ \E o \in Objeto : BarrerSinModelo(o) \/ BarrerConModelo(o)
    \/ Escribir \/ EscribirAMedias \/ NoEscribir
    \/ \E o \in Objeto, l \in Lenguas : Pulsar(o, l)
    \/ Atender
    \/ LeerExplicados
    \/ \E e \in siembra : Sembrar(e)
    \/ CaePanel

SpecNarrativas == InitNarrativas /\ [][NextNarrativas]_varsNarrativas

\* The ticker goes on, and of the requests that reach the model again and
\* again some are answered and saved.  Nobody has to open anything.
Barrer == \E o \in Objeto : \/ BarrerConModelo(o)
                            \/ BarrerSinModelo(o) /\ explicacion' # explicacion
JustoNarrativas == SF_varsNarrativas(Barrer) /\ SF_varsNarrativas(Escribir)

-----------------------------------------------------------------------------
Textos == [firma : Firma, en : Lenguas]
Encargos == {Ocioso} \cup [de : SUBSET Objeto, firma : Firma, en : Lenguas]

\* The types of the tables and of the locals of the loops.
TypeOKNarrativas ==
    /\ guion \in [Ataque -> 1..MaxGuion]
    /\ explicacion \in [Objeto -> {Vacio} \cup Textos]
    /\ DOMAIN memoria \subseteq Firma \X Lenguas
    /\ \A k \in DOMAIN memoria : memoria[k] \in Textos
    /\ sembradas \in BOOLEAN /\ lengua \in Lenguas
    /\ pedidas \subseteq Objeto /\ olvidadas \subseteq Objeto \ pedidas
    /\ deSiembra \subseteq DOMAIN memoria
    /\ barrido \in Encargos /\ boton \in Encargos
    /\ siembra \subseteq Firma \X Lenguas \X Textos
    /\ veces \in 0..MaxVeces

\* What memory files under a signature and a language is a text about an
\* attack of that signature in that language, whatever the attack did and
\* whoever explained it while the sweeper waited for the model; except what
\* the seeding filed.  And a text never tells of an attack more than it did,
\* nor something another one did (explicar_fondo.go, firmaDeAtaque).
MemoriaFiel ==
    /\ \A k \in DOMAIN memoria \ deSiembra : memoria[k] = Texto(k[1], k[2])
    /\ \A a \in Ataque : explicacion[a] # Vacio => explicacion[a].firma[1] <= guion[a]

\* What is on its way to a row or to the memory tells of nothing the attack
\* has not done: what is filed, what the seeding carries, what is being asked.
NadaDeMas ==
    /\ \A k \in DOMAIN memoria : memoria[k].firma[1] <= k[1][1]
    /\ \A e \in siembra : e[3].firma[1] <= e[1][1]
    /\ \A a \in barrido.de \cap Ataque : barrido.firma[1] <= guion[a]
    /\ \A a \in boton.de \cap Ataque : boton.firma[1] <= guion[a]

InductivoNarrativas == TypeOKNarrativas /\ MemoriaFiel /\ NadaDeMas

\* No request is lost in silence between the queue, the memory and the two
\* statements: it ends in a text, unless the budget refused it, the call or
\* the save failed, or the panel stopped; the request is deleted first and
\* nothing puts it back then (explicar_fondo.go:142-146, 226-240), although
\* the page goes on waiting for it.  And what is asked for again and again
\* has its text in the end, however often it was forgotten.
TodoLoPedidoSeResuelve ==
    \A o \in Objeto :
      /\ (o \in pedidas) ~> (explicacion[o] # Vacio \/ o \in olvidadas)
      /\ []<>(o \in pedidas) => <>(explicacion[o] # Vacio)
=============================================================================
