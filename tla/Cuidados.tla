------------------------------ MODULE Cuidados ------------------------------
(***************************************************************************)
(* What the maintenance loop of the collector does for the installation    *)
(* itself (cmd/k0pot/main.go): the periodic summary, the health notices    *)
(* and the daily backup with its rotation.  All of it hangs on when the    *)
(* last time was; what is remembered in the database survives a restart    *)
(* and what is a variable of the loop does not.                            *)
(***************************************************************************)
EXTENDS Integers, Sequences

CONSTANTS Problema,     \* health checks: the disk, the capture
          Hora, Dia,    \* ticks
          Cadencia,     \* ticks between summaries, its hour of grace taken off
          Conservar,    \* copies the rotation keeps
          MaxFallos,    \* bound: copies and summaries that fail, restarts
          MaxVaivenes    \* bound: changes of the channel and of the problems

ASSUME CuidadosAssumption ==
    /\ Hora \in Nat /\ Dia \in Nat \ {0} /\ Cadencia \in Nat \ {0} /\ Conservar \in Nat \ {0}
    /\ MaxFallos \in Nat /\ MaxVaivenes \in Nat

VARIABLES
    turno,     \* what the loop is about to do
    edad,       \* ticks since: salud, respaldo (memory); resumen, copia (database)
    marcas,      \* ticks since each notice was noted in the database
    problemas,  \* what is wrong
    canal,      \* the channel: not chosen, ill configured, failing, working
    avisado,    \* history: notices that went out since their problem began
    copias,     \* files of data/backups by name, which is by date: whole or not
    cambiosCu, fallosCu

varsCuidados == <<turno, edad, marcas, problemas, canal, avisado, copias, cambiosCu, fallosCu>>
bucle == <<edad, marcas, avisado, copias>>
entorno == <<problemas, canal, cambiosCu>>

Canales == {"sin_elegir", "mal_puesto", "falla", "va"}

InitCuidados ==
    /\ turno = "resumen"
    /\ edad = [salud |-> Hora + 1, respaldo |-> Dia, resumen |-> Cadencia, copia |-> Dia]
    /\ marcas = [p \in Problema |-> Dia]
    /\ problemas = {} /\ canal = "sin_elegir" /\ avisado = {}
    /\ copias = <<>>
    /\ cambiosCu = 0 /\ fallosCu = 0

-----------------------------------------------------------------------------
\* enviarResumen: sent, then noted; what fails is tried again at the next turn.
enviarResumen ==
    /\ turno = "resumen"
    /\ turno' = "salud"
    /\ edad' = IF edad.resumen = Cadencia /\ canal = "va"
               THEN [edad EXCEPT !.resumen = 0] ELSE edad
    /\ UNCHANGED <<marcas, avisado, copias, entorno, fallosCu>>

\* A statement fails before it is sent, or the one that notes it afterwards.
resumenFalla ==
    /\ turno = "resumen" /\ edad.resumen = Cadencia /\ canal = "va" /\ fallosCu < MaxFallos
    /\ fallosCu' = fallosCu + 1
    /\ turno' = "salud"
    /\ UNCHANGED <<bucle, entorno>>

\* debeAvisarSalud: the notice is noted as given before it is sent.
Tocan == {p \in problemas : marcas[p] = Dia}
\* Mutant: a notice that does not go out is noted as well.
MarcarSiempre == [p \in Problema |-> IF p \in problemas THEN 0 ELSE marcas[p]]

Marcar == [p \in Problema |-> IF p \in Tocan THEN 0 ELSE marcas[p]]

\* chequearSalud, once an hour: without a channel nothing is noted; with one
\* that is ill configured or fails, the notice is lost until the next day.
chequearSalud ==
    /\ turno = "salud"
    /\ turno' = "respaldo"
    /\ IF edad.salud <= Hora THEN UNCHANGED bucle
       ELSE /\ edad' = [edad EXCEPT !.salud = 0]
            /\ marcas' = IF canal = "sin_elegir" THEN marcas ELSE Marcar
            /\ avisado' = IF canal = "va" THEN avisado \cup Tocan ELSE avisado
            /\ UNCHANGED copias
    /\ UNCHANGED <<entorno, fallosCu>>

\* rotarRespaldos: the last by name stay, complete or not.
rotarRespaldos(cs) ==
    IF Len(cs) <= Conservar THEN cs ELSE SubSeq(cs, Len(cs) - Conservar + 1, Len(cs))

SinRespaldo ==
    /\ turno = "respaldo" /\ edad.respaldo < Dia
    /\ turno' = "resumen"
    /\ UNCHANGED <<bucle, entorno, fallosCu>>

\* respaldarBD; noting the time in the database may fail without notice.
respaldarBD ==
    /\ turno = "respaldo" /\ edad.respaldo = Dia
    /\ copias' = rotarRespaldos(Append(copias, "entera"))
    /\ \E anotada \in BOOLEAN :
         edad' = [edad EXCEPT !.respaldo = 0, !.copia = IF anotada THEN 0 ELSE @]
    /\ turno' = "resumen"
    /\ UNCHANGED <<marcas, avisado, entorno, fallosCu>>

\* Mutant: the rotation runs whatever became of the copy.
respaldarFallaYRota ==
    /\ turno = "respaldo" /\ edad.respaldo = Dia /\ fallosCu < MaxFallos
    /\ fallosCu' = fallosCu + 1
    /\ copias' \in {rotarRespaldos(copias), rotarRespaldos(Append(copias, "a_medias"))}
    /\ turno' = "resumen"
    /\ UNCHANGED <<edad, marcas, avisado, entorno>>

\* VACUUM INTO fails, and may leave a file: nothing is rotated, and the next
\* turn tries again.
respaldarFalla ==
    /\ turno = "respaldo" /\ edad.respaldo = Dia /\ fallosCu < MaxFallos
    /\ fallosCu' = fallosCu + 1
    /\ copias' \in {copias, Append(copias, "a_medias")}
    /\ turno' = "resumen"
    /\ UNCHANGED <<edad, marcas, avisado, entorno>>

\* The collector stops wherever it is, also in the middle of a copy: what it
\* had noted decides what it does when it starts again.
Reinicio ==
    /\ fallosCu < MaxFallos
    /\ fallosCu' = fallosCu + 1
    /\ turno' = "resumen"
    /\ edad' = [edad EXCEPT !.salud = Hora + 1, !.respaldo = edad.copia]
    /\ \/ UNCHANGED copias
       \/ /\ turno = "respaldo" /\ edad.respaldo = Dia
          /\ copias' \in {Append(copias, "a_medias"), Append(copias, "entera")}
    /\ UNCHANGED <<marcas, avisado, entorno>>

Mas(n, max) == IF n < max THEN n + 1 ELSE n

PasarTiempo ==
    /\ edad' = [salud |-> Mas(edad.salud, Hora + 1), respaldo |-> Mas(edad.respaldo, Dia),
                resumen |-> Mas(edad.resumen, Cadencia), copia |-> Mas(edad.copia, Dia)]
    /\ marcas' = [p \in Problema |-> Mas(marcas[p], Dia)]
    /\ <<edad', marcas'>> # <<edad, marcas>>
    /\ UNCHANGED <<turno, avisado, copias, entorno, fallosCu>>

\* The disk fills up or is emptied, the capture stops or comes back.
CambiarProblema(p) ==
    /\ cambiosCu < MaxVaivenes
    /\ cambiosCu' = cambiosCu + 1
    /\ problemas' = IF p \in problemas THEN problemas \ {p} ELSE problemas \cup {p}
    /\ avisado' = avisado \ {p}
    /\ UNCHANGED <<turno, edad, marcas, copias, canal, fallosCu>>

CambiarCanal(c) ==
    /\ cambiosCu < MaxVaivenes /\ c # canal
    /\ cambiosCu' = cambiosCu + 1
    /\ canal' = c
    /\ UNCHANGED <<turno, bucle, problemas, fallosCu>>

Vuelta == enviarResumen \/ chequearSalud \/ SinRespaldo \/ respaldarBD

NextCuidados ==
    \/ Vuelta \/ resumenFalla \/ respaldarFalla \/ Reinicio \/ PasarTiempo
    \/ \E p \in Problema : CambiarProblema(p)
    \/ \E c \in Canales : CambiarCanal(c)

SpecCuidados == InitCuidados /\ [][NextCuidados]_varsCuidados

\* The loop goes round and its ticker ticks.
JustoCuidados == WF_varsCuidados(Vuelta) /\ WF_varsCuidados(PasarTiempo)

-----------------------------------------------------------------------------
\* The loop's turn, its clocks, the files and the notices have their types, no
\* notice outlives its problem, and only what failed goes over the rotation.
TypeOKCuidados ==
    /\ turno \in {"resumen", "salud", "respaldo"}
    /\ edad \in [salud : 0..Hora + 1, respaldo : 0..Dia, resumen : 0..Cadencia, copia : 0..Dia]
    /\ marcas \in [Problema -> 0..Dia]
    /\ copias \in Seq({"entera", "a_medias"}) /\ fallosCu \in 0..MaxFallos
    /\ Len(copias) <= Conservar + fallosCu
    /\ problemas \subseteq Problema /\ avisado \subseteq problemas
    /\ canal \in Canales /\ cambiosCu \in 0..MaxVaivenes

\* Once there is a whole copy there always is one: incomplete ones
\* count for the rotation, so it runs only after a good one, whatever fails
\* and wherever the collector is stopped; and a copy that was noted in the
\* database is there to be found (main.go:381-389, 685-712).
HayEntera(cs) == \E i \in DOMAIN cs : cs[i] = "entera"
QuedaLaBuena ==
    [][ /\ HayEntera(copias) => HayEntera(copias')
        /\ (edad'.copia = 0 /\ edad.copia # 0) => copias'[Len(copias')] = "entera" ]_varsCuidados

\* While the channel works and the problem lasts the notice goes out in the
\* end, although one that failed was noted as given; and so does the summary
\* (main.go:476-530, 773-807).
TodoSeCuenta ==
    /\ \A p \in Problema :
         (p \in problemas /\ canal = "va") ~> (p \in avisado \/ p \notin problemas \/ canal # "va")
    /\ (edad.resumen = Cadencia /\ canal = "va") ~> (edad.resumen = 0 \/ canal # "va")
=============================================================================
