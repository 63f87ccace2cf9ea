------------------------------ MODULE Seguidor ------------------------------
(***************************************************************************)
(* Seguidor.Seguir (internal/collector/tail.go): the collector follows     *)
(* Cowrie's log while somebody else writes it, rotates it every day and    *)
(* may truncate it.                                                        *)
(*                                                                         *)
(* A line is two cells, its first bytes and the rest with the newline, and *)
(* a file a sequence of cells: the writer leaves a line by halves and the  *)
(* reader may meet any half at the end of the file.  The signature of a    *)
(* file (huella, its first 64 bytes) is abstracted to the header its first *)
(* line has: two lines may share it, as two connections of one address do. *)
(* An inode is not used again while it is open, so each file is a new one. *)
(***************************************************************************)
EXTENDS Naturals, Sequences, FiniteSets

CONSTANTS
  Cabecera,       \* headers a first line may have
  Vacia,          \* the signature of an empty file
  Bufer,          \* cells bufio.Reader reads at once
  MaxLineas, MaxFicheros, MaxTruncados, MaxCaidas   \* bounds

ASSUME SeguidorAssumption ==
  /\ Vacia \notin Cabecera
  /\ Bufer \in Nat /\ Bufer >= 2
  /\ MaxLineas \in Nat /\ MaxFicheros \in Nat \ {0}
  /\ MaxTruncados \in Nat /\ MaxCaidas \in Nat

VARIABLES
  ruta,       \* the file s.Ruta names; 0: there is none
  ficheros,   \* files created so far
  contenido,  \* file -> its cells
  firma,      \* file -> header of its first line, or Vacia
  epoca,      \* file -> times it was truncated
  escritas,   \* lines begun so far, in all files
  pc,         \* where Seguir is; "parado": the process is down
  abierto,    \* f, the file being followed
  pos,        \* the offset of f
  lector,     \* what the bufio.Reader holds
  pendiente,  \* the line still without its end
  leidos,     \* cells taken from f
  huella,     \* the signature of f
  entregadas, \* lines given to alLeer, in any order
  epocaVista, \* history: epoch of f when it was opened
  ciego,      \* history: read on through a truncation that left no trace
  caidas

disco == <<ruta, ficheros, contenido, firma, epoca, escritas>>
seguir == <<abierto, pos, lector, pendiente, leidos, huella, epocaVista>>
varsSeguidor == <<disco, seguir, pc, entregadas, ciego, caidas>>

Fichero == 1..MaxFicheros
Celda == (1..MaxLineas) \X {1, 2}
Linea(n) == << <<n, 1>>, <<n, 2>> >>
EsFin(c) == c[2] = 2
Fase == {"parado", "leer", "revisar", "firmar", "drenar", "abrir"}

InitSeguidor ==
  /\ ruta = 1 /\ ficheros = 1
  /\ contenido = [f \in Fichero |-> <<>>]
  /\ firma = [f \in Fichero |-> Vacia]
  /\ epoca = [f \in Fichero |-> 0]
  /\ escritas = 0
  /\ pc = "parado"
  /\ abierto = 1 /\ pos = 0 /\ leidos = 0 /\ huella = Vacia /\ epocaVista = 0
  /\ lector = <<>> /\ pendiente = <<>>
  /\ entregadas = {} /\ ciego = FALSE /\ caidas = 0

-----------------------------------------------------------------------------
(* The writer: Cowrie, and whoever rotates or truncates its log.  Both do  *)
(* it between lines.                                                       *)

AMedias ==
  /\ contenido[ruta] # <<>>
  /\ ~ EsFin(contenido[ruta][Len(contenido[ruta])])

EmpezarLinea(cabecera) ==
  /\ ruta # 0 /\ ~ AMedias
  /\ escritas < MaxLineas
  /\ escritas' = escritas + 1
  /\ contenido' = [contenido EXCEPT ![ruta] = Append(@, <<escritas + 1, 1>>)]
  /\ firma' = [firma EXCEPT ![ruta] = IF @ = Vacia THEN cabecera ELSE @]
  /\ UNCHANGED <<ruta, ficheros, epoca, seguir, pc, entregadas, ciego, caidas>>

AcabarLinea ==
  /\ ruta # 0 /\ AMedias
  /\ contenido' = [contenido EXCEPT ![ruta] = Append(@, <<escritas, 2>>)]
  /\ UNCHANGED <<ruta, ficheros, firma, epoca, escritas, seguir, pc, entregadas, ciego, caidas>>

(* The file is renamed, and the new one comes a moment later. *)
Renombrar ==
  /\ ruta # 0 /\ ~ AMedias
  /\ ficheros < MaxFicheros
  /\ ruta' = 0
  /\ UNCHANGED <<ficheros, contenido, firma, epoca, escritas, seguir, pc, entregadas,
                 ciego, caidas>>

CrearFichero ==
  /\ ruta = 0
  /\ ruta' = ficheros + 1 /\ ficheros' = ficheros + 1
  /\ UNCHANGED <<contenido, firma, epoca, escritas, seguir, pc, entregadas, ciego, caidas>>

Truncar ==
  /\ ruta # 0 /\ contenido[ruta] # <<>> /\ ~ AMedias
  /\ epoca[ruta] < MaxTruncados
  /\ contenido' = [contenido EXCEPT ![ruta] = <<>>]
  /\ firma' = [firma EXCEPT ![ruta] = Vacia]
  /\ epoca' = [epoca EXCEPT ![ruta] = @ + 1]
  /\ UNCHANGED <<ruta, ficheros, escritas, seguir, pc, entregadas, ciego, caidas>>

Escritor ==
  \/ \E c \in Cabecera : EmpezarLinea(c)
  \/ AcabarLinea \/ Renombrar \/ CrearFichero \/ Truncar

-----------------------------------------------------------------------------
(* Seguir.  ReadBytes: up to the first newline of the buffer, which is     *)
(* filled again when it holds none; without one, all there is.             *)

HayLinea == \E i \in 1..Len(lector) : EsFin(lector[i])
FinDeLinea == CHOOSE i \in 1..Len(lector) :
                EsFin(lector[i]) /\ \A j \in 1..(i - 1) : ~ EsFin(lector[j])
Resto == SubSeq(contenido[abierto], pos + 1, Len(contenido[abierto]))
AlFinal == pos >= Len(contenido[abierto])

(* Open from the beginning: Seguir's first lines, and its reopening. *)
Desde(f) ==
  /\ abierto' = f /\ pos' = 0 /\ leidos' = 0
  /\ lector' = <<>>
  /\ huella' = firma[f] /\ epocaVista' = epoca[f]
  /\ pc' = "leer"

ArrancarSeguidor ==
  /\ pc = "parado"
  /\ ruta # 0
  /\ Desde(ruta) /\ pendiente' = <<>>
  /\ UNCHANGED <<disco, entregadas, ciego, caidas>>

(* A read from a file that was truncated since it was opened takes bytes   *)
(* of the new content.                                                     *)
Llenar ==
  /\ pc \in {"leer", "drenar"}
  /\ ~ HayLinea /\ ~ AlFinal
  /\ LET libres == Bufer - Len(lector)
         n == IF Len(Resto) < libres THEN Len(Resto) ELSE libres
     IN  lector' = lector \o SubSeq(Resto, 1, n) /\ pos' = pos + n
  /\ ciego' = (ciego \/ epocaVista # epoca[abierto])
  /\ UNCHANGED <<disco, abierto, pendiente, leidos, huella, epocaVista, pc, entregadas, caidas>>

(* A whole line goes to alLeer.  Seguir counts what it reads; drenar, which *)
(* is about to leave the file, does not.                                    *)
Entregar ==
  /\ pc \in {"leer", "drenar"}
  /\ HayLinea
  /\ entregadas' = entregadas \cup {pendiente \o SubSeq(lector, 1, FinDeLinea)}
  /\ lector' = SubSeq(lector, FinDeLinea + 1, Len(lector))
  /\ pendiente' = <<>>
  /\ leidos' = IF pc = "leer" THEN leidos + FinDeLinea ELSE leidos
  /\ UNCHANGED <<disco, abierto, pos, huella, epocaVista, pc, ciego, caidas>>

(* Mutant: the half line at the end of the file is not counted. *)
EsperarSinContar ==
  /\ pc = "leer"
  /\ ~ HayLinea /\ AlFinal
  /\ pendiente' = pendiente \o lector /\ lector' = <<>>
  /\ pc' = "revisar"
  /\ UNCHANGED <<disco, abierto, pos, leidos, huella, epocaVista, entregadas, ciego, caidas>>

(* End of file: the half line is kept, and after a while the file is       *)
(* looked at.                                                              *)
Esperar ==
  /\ pc = "leer"
  /\ ~ HayLinea /\ AlFinal
  /\ pendiente' = pendiente \o lector /\ lector' = <<>>
  /\ leidos' = leidos + Len(lector)
  /\ pc' = "revisar"
  /\ UNCHANGED <<disco, abierto, pos, huella, epocaVista, entregadas, ciego, caidas>>

(* Mutant: what is left in a renamed file is not read. *)
RevisarSinDrenar ==
  /\ pc = "revisar"
  /\ \/ ruta = 0 /\ pc' = "leer" /\ UNCHANGED pendiente
     \/ ruta # 0 /\ ruta # abierto /\ pc' = "abrir" /\ pendiente' = <<>>
     \/ ruta = abierto /\ Len(contenido[ruta]) < leidos /\ pc' = "abrir" /\ pendiente' = <<>>
     \/ ruta = abierto /\ Len(contenido[ruta]) >= leidos /\ pc' = "firmar" /\ UNCHANGED pendiente
  /\ UNCHANGED <<disco, abierto, pos, lector, leidos, huella, epocaVista, entregadas,
                 ciego, caidas>>

(* Mutant: the path is known by its size alone, not by its inode. *)
RevisarSoloTamano ==
  /\ pc = "revisar"
  /\ \/ ruta = 0 /\ pc' = "leer" /\ UNCHANGED pendiente
     \/ ruta # 0 /\ Len(contenido[ruta]) < leidos /\ pc' = "abrir" /\ pendiente' = <<>>
     \/ ruta # 0 /\ Len(contenido[ruta]) >= leidos /\ pc' = "firmar" /\ UNCHANGED pendiente
  /\ UNCHANGED <<disco, abierto, pos, lector, leidos, huella, epocaVista, entregadas,
                 ciego, caidas>>

(* revisar asks the path first ... *)
Revisar ==
  /\ pc = "revisar"
  /\ \/ ruta = 0 /\ pc' = "leer" /\ UNCHANGED pendiente
     \/ ruta # 0 /\ ruta # abierto /\ pc' = "drenar" /\ UNCHANGED pendiente
     \/ ruta = abierto /\ Len(contenido[ruta]) < leidos /\ pc' = "abrir" /\ pendiente' = <<>>
     \/ ruta = abierto /\ Len(contenido[ruta]) >= leidos /\ pc' = "firmar" /\ UNCHANGED pendiente
  /\ UNCHANGED <<disco, abierto, pos, lector, leidos, huella, epocaVista, entregadas,
                 ciego, caidas>>

(* Mutant: the half line is kept when the file turns out to be another. *)
FirmarSinOlvidar ==
  /\ pc = "firmar"
  /\ IF huella # Vacia /\ firma[abierto] # huella
       THEN pc' = "abrir" /\ UNCHANGED huella
       ELSE pc' = "leer" /\ huella' = firma[abierto]
  /\ ciego' = (ciego \/ (pc' = "leer" /\ epocaVista # epoca[abierto]))
  /\ UNCHANGED <<disco, abierto, pos, lector, pendiente, leidos, epocaVista, entregadas, caidas>>

(* ... and then reads the signature of the file it has open. *)
Firmar ==
  /\ pc = "firmar"
  /\ IF huella # Vacia /\ firma[abierto] # huella
       THEN pc' = "abrir" /\ pendiente' = <<>> /\ UNCHANGED huella
       ELSE pc' = "leer" /\ huella' = firma[abierto] /\ UNCHANGED pendiente
  /\ ciego' = (ciego \/ (pc' = "leer" /\ epocaVista # epoca[abierto]))
  /\ UNCHANGED <<disco, abierto, pos, lector, leidos, epocaVista, entregadas, caidas>>

(* drenar ends at the end of the old file; half a line is thrown away. *)
DrenarAcaba ==
  /\ pc = "drenar"
  /\ ~ HayLinea /\ AlFinal
  /\ pc' = "abrir"
  /\ pendiente' = <<>> /\ lector' = <<>>
  /\ UNCHANGED <<disco, abierto, pos, leidos, huella, epocaVista, entregadas, ciego, caidas>>

Reabrir ==
  /\ pc = "abrir"
  /\ ruta # 0
  /\ Desde(ruta)
  /\ UNCHANGED <<disco, pendiente, entregadas, ciego, caidas>>

(* The path is between two files: on with the one it has. *)
ReabrirFalla ==
  /\ pc = "abrir"
  /\ ruta = 0
  /\ pc' = "leer"
  /\ UNCHANGED <<disco, seguir, entregadas, ciego, caidas>>

(* Any error, of the file or of alLeer, ends Seguir and with it the        *)
(* process, which is started again.                                        *)
Caer ==
  /\ pc # "parado"
  /\ caidas < MaxCaidas
  /\ caidas' = caidas + 1
  /\ pc' = "parado"
  /\ UNCHANGED <<disco, seguir, entregadas, ciego>>

Seguir ==
  \/ ArrancarSeguidor \/ Llenar \/ Entregar \/ Esperar \/ Revisar \/ Firmar
  \/ DrenarAcaba \/ Reabrir \/ ReabrirFalla

NextSeguidor == Escritor \/ Seguir \/ Caer

SpecSeguidor == InitSeguidor /\ [][NextSeguidor]_varsSeguidor

(* The goroutine is scheduled, and who renames the log makes a new one. *)
JustoSeguidor == WF_varsSeguidor(Seguir) /\ WF_varsSeguidor(CrearFichero)

-----------------------------------------------------------------------------
TypeOKSeguidor ==
  /\ ruta \in 0..MaxFicheros /\ ficheros \in Fichero /\ abierto \in Fichero
  /\ contenido \in [Fichero -> Seq(Celda)]
  /\ firma \in [Fichero -> Cabecera \cup {Vacia}] /\ huella \in Cabecera \cup {Vacia}
  /\ epoca \in [Fichero -> 0..MaxTruncados] /\ epocaVista \in 0..MaxTruncados
  /\ escritas \in 0..MaxLineas
  /\ pc \in Fase
  /\ pos \in Nat /\ leidos \in Nat
  /\ lector \in Seq(Celda) /\ pendiente \in Seq(Celda)
  /\ \A l \in entregadas : l \in Seq(Celda)
  /\ ciego \in BOOLEAN /\ caidas \in 0..MaxCaidas

EnFichero(f, n) == f # 0 /\ \E i \in 1..Len(contenido[f]) : contenido[f][i] = <<n, 2>>
EnVista == pc # "parado" /\ epocaVista = epoca[abierto]

(* "nunca se entrega JSON truncado": what alLeer is given is always one    *)
(* whole line of the log, never halves of two, however writing, rotating   *)
(* and restarting interleave with the reading; a truncation may only break *)
(* it when the file had grown again, past where the reader was, before it  *)
(* looked or behind the same header.                                       *)
SinMezclas == ~ ciego => \A l \in entregadas : \E n \in 1..MaxLineas : l = Linea(n)

(* A file is not left for another while it holds a line nobody was given:  *)
(* what was written between the last read and the renaming is rescued      *)
(* (drenar).                                                               *)
NadaSeDeja ==
  [][(pc = "abrir" /\ abierto' # abierto /\ EnVista) =>
       \A n \in 1..MaxLineas : EnFichero(abierto, n) => Linea(n) \in entregadas]_varsSeguidor

(* Every line of the log is given to alLeer in the end, unless it is       *)
(* truncated away or its file is renamed twice, or once with the process   *)
(* down, before the reader comes to it.                                    *)
TodaLineaLlega ==
  \A n \in 1..MaxLineas :
    EnFichero(ruta, n) ~>
      \/ Linea(n) \in entregadas
      \/ \A f \in {ruta, abierto} : ~ EnFichero(f, n)
      \/ ciego

-----------------------------------------------------------------------------
(* Lines are written one after another, each in its two halves; a file is  *)
(* left, renamed or truncated, between lines.                              *)
Parejas(s) ==
  \A i \in 1..Len(s) :
    IF EsFin(s[i]) THEN i > 1 /\ s[i - 1] = <<s[i][1], 1>>
                   ELSE i > 1 => EsFin(s[i - 1])
Entero(s) == s # <<>> => EsFin(s[Len(s)])

LineasSeguidas ==
  /\ ruta <= ficheros /\ abierto <= ficheros
  /\ ruta = 0 => ficheros < MaxFicheros
  /\ \A f \in Fichero : Parejas(contenido[f]) /\ (f # ruta => Entero(contenido[f]))
  /\ (ruta # 0 /\ AMedias) => contenido[ruta][Len(contenido[ruta])] = <<escritas, 1>>

(* What has been read and not given is made of whole lines, but for its    *)
(* last half, as long as no truncation was read through.                   *)
EnMano == pendiente \o lector
Inicio == pos - Len(EnMano)

LectorBien ==
  /\ \A i \in 1..Len(pendiente) : ~ EsFin(pendiente[i])
  /\ Len(lector) <= Bufer
  /\ pc \in {"revisar", "firmar", "abrir"} => lector = <<>>
  /\ pc = "abrir" => pendiente = <<>>
  /\ epocaVista <= epoca[abierto]
  /\ (EnVista \/ ~ ciego) => Parejas(EnMano)

(* The loop of Seguir: what is in hand is exactly the stretch of the file  *)
(* before the offset, back to the end of a line, and all the lines before  *)
(* it were given.  A file is only left when it is whole and read whole.    *)
TramoLeido ==
  EnVista =>
    /\ Len(EnMano) <= pos /\ pos <= Len(contenido[abierto])
    /\ \A i \in 1..Len(EnMano) : EnMano[i] = contenido[abierto][Inicio + i]
    /\ Inicio > 0 => EsFin(contenido[abierto][Inicio])
    /\ \A i \in 1..Inicio : EsFin(contenido[abierto][i]) =>
         Linea(contenido[abierto][i][1]) \in entregadas
    /\ (abierto = ruta /\ pc \in {"leer", "revisar", "firmar"}) => leidos = pos - Len(lector)
    /\ huella \in {Vacia, firma[abierto]}
    /\ pc \in {"drenar", "abrir"} => abierto # ruta
    /\ pc = "abrir" => pos = Len(contenido[abierto])

InductivoSeguidor ==
  TypeOKSeguidor /\ LineasSeguidas /\ LectorBien /\ TramoLeido /\ SinMezclas

=============================================================================
