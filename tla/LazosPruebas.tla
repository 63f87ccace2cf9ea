---------------------------- MODULE LazosPruebas ----------------------------
(***************************************************************************)
(* Proofs about the loops that run without anybody asking: the learner's   *)
(* mark, the memory of narratives, the caches of the panel and the         *)
(* maintenance loop with its copies; and of the four at once, as MCLazos   *)
(* puts them together.                                                     *)
(***************************************************************************)
EXTENDS MCLazos, FiniteSetTheorems, SequenceTheorems, WellFoundedInduction, TLAPS

-----------------------------------------------------------------------------
(* The learner.                                                            *)

\* The idle round of either loop is a round.
LEMMA ElReposo ==
    ASSUME TypeOKAprendiz
    PROVE  /\ Reposo \in Vueltas({"reposo"}) /\ Reposo.hasta = 0
           /\ Reposo.fase = "reposo"
<1>1. (CHOOSE l \in Idiomas : TRUE) \in Idiomas
  BY DEF TypeOKAprendiz
<1>2. 0 \in 0..MaxId
  BY AprendizAssumption
<1> QED
  BY <1>1, <1>2 DEF Reposo, Vueltas

\* Any set of identifiers is finite, and an event that is counted counts.
LEMMA SeCuenta ==
    ASSUME TypeOKAprendiz, NEW f \in Forma, NEW i \in DOMAIN eventos,
           i > marca, i <= vuelta.hasta, eventos[i] = f
    PROVE  Veces(f) > 0
<1> DEFINE S == {j \in DOMAIN eventos : j > marca /\ j <= vuelta.hasta /\ eventos[j] = f}
<1>1. IsFiniteSet(1..ultimoId) /\ S \subseteq 1..ultimoId
  BY FS_Interval DEF TypeOKAprendiz
<1>2. IsFiniteSet(S) /\ i \in S
  BY <1>1, FS_Subset
<1>3. Cardinality(S) \in Nat /\ Cardinality(S) # 0
  BY <1>2, FS_CardinalityType, FS_EmptySet
<1>4. Cardinality(S) > 0
  BY <1>3
<1> QED
  BY <1>4 DEF Veces

\* COALESCE(MAX(id), desdeID) is an identifier, or the mark there was.
LEMMA ElTecho ==
    ASSUME TypeOKAprendiz
    PROVE  Mayor(DOMAIN eventos, marca) \in 0..ultimoId
<1>1. CASE DOMAIN eventos = {}
  BY <1>1 DEF Mayor, TypeOKAprendiz
<1>2. CASE DOMAIN eventos # {}
  <2> DEFINE D == DOMAIN eventos
             T == {ultimoId - n : n \in D}
  <2>1. ultimoId \in Nat /\ \A n \in D : n \in 1..ultimoId
    BY AprendizAssumption DEF TypeOKAprendiz
  <2>2. T \subseteq Nat /\ T # {}
    BY <2>1, <1>2
  <2>3. PICK t \in T : \A s \in T : ~ (<<s, t>> \in OpToRel(<, Nat))
    BY <2>2, NatLessThanWellFounded, WFMin, Zenon
  <2>4. \A s \in T : ~ (s < t)
    BY <2>3, <2>2 DEF OpToRel
  <2>5. PICK n \in D : t = ultimoId - n
    BY <2>3
  <2>6. \A m \in D : m <= n
    BY <2>1, <2>4, <2>5
  <2>7. Mayor(D, marca) \in D
    BY <2>6, <1>2 DEF Mayor
  <2> QED
    BY <2>7, <2>1
<1> QED
  BY <1>1, <1>2

\* Nothing has arrived, nothing is known and the mark is at the start.
LEMMA InicioAprendiz == InitAprendiz => InductivoAprendiz
<1> SUFFICES ASSUME InitAprendiz PROVE InductivoAprendiz
  OBVIOUS
<1> USE AprendizAssumption DEF InitAprendiz
<1>1. (CHOOSE l \in Idiomas : TRUE) \in Idiomas
  OBVIOUS
<1>2. Reposo \in Vueltas({"reposo", "techo", "llamando"}) /\ Reposo \in Vueltas({"reposo", "llamando"})
      /\ Reposo.hasta = 0 /\ Reposo.fase = "reposo"
  BY <1>1 DEF Reposo, Vueltas
<1>3. TypeOKAprendiz
  BY <1>2 DEF TypeOKAprendiz
<1>4. MarcaSoloLoVisto /\ LoteCompleto
  BY <1>2 DEF MarcaSoloLoVisto, LoteCompleto
<1> QED
  BY <1>3, <1>4 DEF InductivoAprendiz

\* What is known or was asked about stays so.
LEMMA LoSabidoQueda ==
    ASSUME glosas \subseteq glosas', intentadas \subseteq intentadas', NEW f,
           SabidaOPreguntada(f)
    PROVE  SabidaOPreguntada(f)'
BY DEF SabidaOPreguntada

\* Nothing about the events, the marks and what is known gets worse, and the
\* round is the same or is over.
LEMMA NoEmpeora ==
    ASSUME MarcaSoloLoVisto, LoteCompleto,
           glosas \subseteq glosas', intentadas \subseteq intentadas',
           \A i \in DOMAIN eventos' : i \in DOMAIN eventos /\ eventos'[i] = eventos[i],
           marca' \in {marca, marcaDB}, marcaDB' = marcaDB,
           vuelta' = vuelta \/ vuelta'.fase # "llamando"
    PROVE  MarcaSoloLoVisto' /\ LoteCompleto'
<1>1. MarcaSoloLoVisto'
  BY LoSabidoQueda DEF MarcaSoloLoVisto
<1>2. LoteCompleto'
  BY LoSabidoQueda DEF LoteCompleto
<1> QED
  BY <1>1, <1>2

\* An event that arrives is over the mark and over the ceiling of the round.
LEMMA LlegaBien ==
    ASSUME InductivoAprendiz, NEW f \in Forma \cup {Nada}, Llega(f)
    PROVE  InductivoAprendiz'
<1> USE AprendizAssumption DEF InductivoAprendiz
<1>1. /\ ultimoId \in 0..MaxId /\ ultimoId' = ultimoId + 1 /\ ultimoId' \in 0..MaxId
      /\ DOMAIN eventos \subseteq 1..ultimoId /\ marca \in 0..ultimoId /\ marcaDB \in 0..ultimoId
      /\ vuelta.hasta <= ultimoId /\ vuelta.hasta \in 0..MaxId
  BY DEF Llega, TypeOKAprendiz, Vueltas
<1>2. /\ DOMAIN eventos' = DOMAIN eventos \cup {ultimoId + 1}
      /\ eventos'[ultimoId + 1] = f
      /\ \A i \in DOMAIN eventos : eventos'[i] = eventos[i]
  BY <1>1 DEF Llega
<1>3. TypeOKAprendiz'
  BY <1>1, <1>2 DEF Llega, TypeOKAprendiz
<1>4. MarcaSoloLoVisto'
  BY <1>1, <1>2 DEF Llega, MarcaSoloLoVisto, SabidaOPreguntada
<1>5. LoteCompleto'
  BY <1>1, <1>2 DEF Llega, LoteCompleto, SabidaOPreguntada
<1> QED
  BY <1>3, <1>4, <1>5

\* The grouping moves the mark when all is known, or asks for a batch.
LEMMA AgruparBien ==
    ASSUME InductivoAprendiz, Agrupar
    PROVE  InductivoAprendiz'
<1> USE AprendizAssumption DEF InductivoAprendiz
<1>1. /\ ultimoId \in 0..MaxId /\ DOMAIN eventos \subseteq 1..ultimoId
      /\ marca \in 0..ultimoId /\ marcaDB \in 0..ultimoId
      /\ vuelta.hasta <= ultimoId /\ vuelta.hasta \in 0..MaxId /\ vuelta.en \in Idiomas
      /\ UNCHANGED <<eventos, ultimoId, glosas, idioma, peticion, intentadas>>
  BY DEF Agrupar, TypeOKAprendiz, Vueltas
<1>2. CASE Nuevas(vuelta.en) = {} /\ Avanzar(MarcaTras(TRUE)) /\ vuelta' = Reposo
  <2>1. marca' = vuelta.hasta /\ marcaDB' \in {vuelta.hasta, marcaDB}
    BY <1>2 DEF Avanzar, MarcaTras
  <2>2. ASSUME NEW i \in DOMAIN eventos, eventos[i] \in Forma, i <= vuelta.hasta
        PROVE  SabidaOPreguntada(eventos[i])
    <3>1. CASE i <= marca
      BY <2>2, <3>1 DEF MarcaSoloLoVisto
    <3>2. CASE i > marca
      <4>1. Veces(eventos[i]) > 0
        BY <2>2, <3>2, SeCuenta
      <4>2. <<eventos[i], vuelta.en>> \in glosas
        BY <4>1, <2>2, <1>2 DEF Nuevas
      <4> QED
        BY <4>2, <1>1 DEF SabidaOPreguntada
    <3> QED
      BY <3>1, <3>2, <1>1
  <2>3. TypeOKAprendiz'
    BY <2>1, <1>1, <1>2, ElReposo DEF TypeOKAprendiz, Vueltas
  <2>4. MarcaSoloLoVisto'
    BY <2>1, <2>2, <1>1 DEF MarcaSoloLoVisto, SabidaOPreguntada
  <2>5. LoteCompleto'
    BY <1>2, ElReposo DEF LoteCompleto
  <2> QED
    BY <2>3, <2>4, <2>5
<1>3. ASSUME NEW L \in Lotes(Nuevas(vuelta.en), Tanda), UNCHANGED <<marca, marcaDB>>,
             vuelta' = [vuelta EXCEPT !.fase = "llamando", !.lote = L,
                                      !.resto = L # Nuevas(vuelta.en)]
      PROVE  InductivoAprendiz'
  <2>1. L \subseteq Nuevas(vuelta.en) /\ Nuevas(vuelta.en) \subseteq Forma
    BY <1>3 DEF Lotes, Nuevas
  <2>2. (L # Nuevas(vuelta.en)) \in BOOLEAN
    OBVIOUS
  <2>3. /\ vuelta' \in Vueltas({"reposo", "techo", "llamando"})
        /\ vuelta'.hasta = vuelta.hasta /\ vuelta'.lote = L
        /\ ~vuelta'.resto => L = Nuevas(vuelta.en)
    BY <2>1, <2>2, <1>3 DEF TypeOKAprendiz, Vueltas
  <2>4. TypeOKAprendiz'
    BY <2>3, <1>1, <1>3 DEF TypeOKAprendiz
  <2>5. MarcaSoloLoVisto'
    BY <1>1, <1>3 DEF MarcaSoloLoVisto, SabidaOPreguntada
  <2>6. ASSUME NEW i \in DOMAIN eventos, eventos[i] \in Forma, i <= vuelta.hasta,
               ~vuelta'.resto
        PROVE  eventos[i] \in L \/ SabidaOPreguntada(eventos[i])
    <3>1. CASE i <= marca
      BY <2>6, <3>1 DEF MarcaSoloLoVisto
    <3>2. CASE i > marca
      <4>1. Veces(eventos[i]) > 0
        BY <2>6, <3>2, SeCuenta
      <4>2. CASE <<eventos[i], vuelta.en>> \in glosas
        BY <4>2, <1>1 DEF SabidaOPreguntada
      <4>3. CASE <<eventos[i], vuelta.en>> \notin glosas
        BY <4>1, <4>3, <2>3, <2>6 DEF Nuevas
      <4> QED
        BY <4>2, <4>3
    <3> QED
      BY <3>1, <3>2, <1>1
  <2>7. LoteCompleto'
    BY <2>6, <2>3, <1>1 DEF LoteCompleto, SabidaOPreguntada
  <2> QED
    BY <2>4, <2>5, <2>7
<1> QED
  BY <1>2, <1>3 DEF Agrupar

\* The answer is stored, and the mark moves if the batch held all there was.
LEMMA GlosarBien ==
    ASSUME InductivoAprendiz, NEW dichas \in SUBSET vuelta.lote, Glosar(dichas)
    PROVE  InductivoAprendiz'
<1> USE AprendizAssumption DEF InductivoAprendiz
<1>1. /\ ultimoId \in 0..MaxId /\ DOMAIN eventos \subseteq 1..ultimoId
      /\ marca \in 0..ultimoId /\ marcaDB \in 0..ultimoId /\ vuelta.fase = "llamando"
      /\ vuelta.hasta <= ultimoId /\ vuelta.hasta \in 0..MaxId /\ vuelta.en \in Idiomas
      /\ vuelta.lote \subseteq Forma /\ vuelta.resto \in BOOLEAN
      /\ UNCHANGED <<eventos, ultimoId, idioma, peticion>> /\ vuelta' = Reposo
  BY DEF Glosar, TypeOKAprendiz, Vueltas
<1>2. /\ glosas \subseteq glosas' /\ glosas' \subseteq Forma \X Idiomas
      /\ intentadas' = intentadas \cup vuelta.lote /\ intentadas' \subseteq Forma
  BY <1>1 DEF Glosar, TypeOKAprendiz
<1>3. /\ marca' \in {marca, vuelta.hasta} /\ marcaDB' \in {marca', marcaDB}
      /\ vuelta.resto => marca' = marca /\ marcaDB' = marcaDB
  BY <1>1 DEF Glosar, Avanzar, MarcaTras
<1>4. TypeOKAprendiz'
  BY <1>1, <1>2, <1>3, ElReposo DEF TypeOKAprendiz, Vueltas
<1>5. LoteCompleto'
  BY <1>1, ElReposo DEF LoteCompleto
<1>6. ASSUME NEW i \in DOMAIN eventos, eventos[i] \in Forma, i <= marca' \/ i <= marcaDB'
      PROVE  SabidaOPreguntada(eventos[i])'
  <2>1. CASE i <= marca \/ i <= marcaDB
    <3>1. SabidaOPreguntada(eventos[i])
      BY <2>1, <1>6 DEF MarcaSoloLoVisto
    <3> QED
      BY <3>1, <1>1, <1>2 DEF SabidaOPreguntada
  <2>2. CASE ~vuelta.resto /\ i <= vuelta.hasta
    <3>1. eventos[i] \in vuelta.lote \/ SabidaOPreguntada(eventos[i])
      BY <2>2, <1>6, <1>1 DEF LoteCompleto
    <3> QED
      BY <3>1, <1>1, <1>2, LoSabidoQueda DEF SabidaOPreguntada
  <2> QED
    BY <2>1, <2>2, <1>6, <1>3, <1>1
<1>7. MarcaSoloLoVisto'
  BY <1>6, <1>1 DEF MarcaSoloLoVisto, SabidaOPreguntada
<1> QED
  BY <1>4, <1>5, <1>7

\* Every step of the learner, of the panel's glosses and of what is around them.
LEMMA PasoAprendiz ==
    InductivoAprendiz /\ [NextAprendiz]_varsAprendiz => InductivoAprendiz'
<1> SUFFICES ASSUME InductivoAprendiz, [NextAprendiz]_varsAprendiz
             PROVE  InductivoAprendiz'
  OBVIOUS
<1> USE AprendizAssumption DEF InductivoAprendiz
<1>1. ASSUME NEW i \in DOMAIN eventos, PurgaEvento(i) PROVE InductivoAprendiz'
  <2>1. \A j \in DOMAIN eventos' : j \in DOMAIN eventos /\ eventos'[j] = eventos[j]
    BY <1>1 DEF PurgaEvento
  <2>2. TypeOKAprendiz'
    BY <1>1, <2>1 DEF PurgaEvento, TypeOKAprendiz
  <2>3. MarcaSoloLoVisto' /\ LoteCompleto'
    BY <2>1, <1>1, NoEmpeora DEF PurgaEvento
  <2> QED
    BY <2>2, <2>3
<1>2. ASSUME NEW l \in Idiomas, CambiaIdioma(l) PROVE InductivoAprendiz'
  <2>1. TypeOKAprendiz'
    BY <1>2 DEF CambiaIdioma, TypeOKAprendiz
  <2>2. MarcaSoloLoVisto' /\ LoteCompleto'
    BY <1>2, NoEmpeora DEF CambiaIdioma
  <2> QED
    BY <2>1, <2>2
<1>3. CASE FijarTecho
  <2>1. idioma \in Idiomas /\ Mayor(DOMAIN eventos, marca) \in 0..ultimoId /\ ultimoId \in 0..MaxId
    BY ElTecho DEF TypeOKAprendiz
  <2>2. /\ vuelta' \in Vueltas({"reposo", "techo", "llamando"})
        /\ vuelta'.hasta <= ultimoId /\ vuelta'.fase # "llamando"
    <3> DEFINE m == Mayor(DOMAIN eventos, marca)
    <3>1. m \in 0..MaxId /\ m <= ultimoId
      BY <2>1
    <3>2. vuelta' = [Reposo EXCEPT !.fase = "techo", !.en = idioma, !.hasta = m]
      BY <1>3 DEF FijarTecho
    <3>3. Reposo \in Vueltas({"reposo"})
      BY ElReposo
    <3> HIDE DEF m
    <3> QED
      BY <3>1, <3>2, <3>3, <2>1 DEF Vueltas
  <2>3. TypeOKAprendiz'
    BY <1>3, <2>2 DEF FijarTecho, TypeOKAprendiz
  <2>4. MarcaSoloLoVisto' /\ LoteCompleto'
    BY <1>3, <2>2, NoEmpeora DEF FijarTecho
  <2> QED
    BY <2>3, <2>4
<1>4. CASE Abandonar
  <2>1. TypeOKAprendiz'
    BY <1>4, ElReposo DEF Abandonar, TypeOKAprendiz, Vueltas
  <2>2. MarcaSoloLoVisto' /\ LoteCompleto'
    BY <1>4, NoEmpeora, ElReposo DEF Abandonar
  <2> QED
    BY <2>1, <2>2
<1>5. CASE ReiniciaAprendiz
  <2>1. TypeOKAprendiz'
    BY <1>5, ElReposo DEF ReiniciaAprendiz, TypeOKAprendiz, Vueltas
  <2>2. MarcaSoloLoVisto' /\ LoteCompleto'
    BY <1>5, NoEmpeora, ElReposo DEF ReiniciaAprendiz
  <2> QED
    BY <2>1, <2>2
<1>6. ASSUME NEW S \in SUBSET Forma, NEW l \in Idiomas, PedirGlosa(S, l)
      PROVE  InductivoAprendiz'
  <2>1. peticion' \in Vueltas({"reposo", "llamando"})
    BY <1>6, ElReposo DEF PedirGlosa, Vueltas
  <2>2. TypeOKAprendiz'
    BY <1>6, <2>1 DEF PedirGlosa, TypeOKAprendiz
  <2>3. MarcaSoloLoVisto' /\ LoteCompleto'
    BY <1>6, NoEmpeora DEF PedirGlosa
  <2> QED
    BY <2>2, <2>3
<1>7. ASSUME NEW dichas \in SUBSET peticion.lote, AcabarGlosa(dichas)
      PROVE  InductivoAprendiz'
  <2>1. peticion.lote \subseteq Forma /\ peticion.en \in Idiomas
    BY DEF TypeOKAprendiz, Vueltas
  <2>2. glosas \subseteq glosas' /\ glosas' \subseteq Forma \X Idiomas
    BY <1>7, <2>1 DEF AcabarGlosa, TypeOKAprendiz
  <2>3. TypeOKAprendiz'
    BY <1>7, <2>2, ElReposo DEF AcabarGlosa, TypeOKAprendiz, Vueltas
  <2>4. MarcaSoloLoVisto' /\ LoteCompleto'
    BY <1>7, <2>2, NoEmpeora DEF AcabarGlosa
  <2> QED
    BY <2>3, <2>4
<1>8. CASE UNCHANGED varsAprendiz
  <2>1. TypeOKAprendiz'
    BY <1>8 DEF varsAprendiz, TypeOKAprendiz
  <2>2. MarcaSoloLoVisto' /\ LoteCompleto'
    BY <1>8, NoEmpeora DEF varsAprendiz
  <2> QED
    BY <2>1, <2>2
<1> QED
  BY <1>1, <1>2, <1>3, <1>4, <1>5, <1>6, <1>7, <1>8,
     LlegaBien, AgruparBien, GlosarBien DEF NextAprendiz

\* MarcaSoloLoVisto, in every execution: an event leaves the learner's window
\* (ComandosNuevosAgrupados, aprenderComandos) only known, asked about or purged.
THEOREM NadaSeSalta == SpecAprendiz => []MarcaSoloLoVisto
<1>1. InitAprendiz => InductivoAprendiz
  BY InicioAprendiz
<1>2. InductivoAprendiz /\ [NextAprendiz]_varsAprendiz => InductivoAprendiz'
  BY PasoAprendiz
<1>3. InductivoAprendiz => MarcaSoloLoVisto
  BY DEF InductivoAprendiz
<1> QED
  BY <1>1, <1>2, <1>3, PTL DEF SpecAprendiz

-----------------------------------------------------------------------------
(* The narratives.                                                         *)

\* The signature of an attack's row is one, with or without its passwords, and
\* says how far its script goes.
LEMMA LasFirmas ==
    ASSUME TypeOKNarrativas
    PROVE  /\ \A o \in Objeto : firmaDeAtaque(o) \in Firma
           /\ \A a \in Ataque : /\ firmaDeAtaque(a)[1] = guion[a]
                                /\ firmaSembrada(a) \in Firma /\ firmaSembrada(a)[1] = guion[a]
<1>1. \A a \in Ataque : guion[a] \in 1..MaxGuion
  BY DEF TypeOKNarrativas
<1>2. \A a \in Ataque : (a \in ConCebo) \in BOOLEAN
  OBVIOUS
<1>3. 1 \in 1..MaxGuion
  BY NarrativasAssumption
<1>4. \A a \in Ataque : <<guion[a], a \in ConCebo>> \in Firma /\ <<guion[a], FALSE>> \in Firma
  BY <1>1, <1>2 DEF Firma
<1>5. <<1, FALSE>> \in Firma
  BY <1>3 DEF Firma
<1> QED
  BY <1>4, <1>5 DEF firmaDeAtaque, firmaSembrada

\* What a text tells is a natural number, and the empty one tells nothing.
LEMMA ElTexto ==
    /\ \A f \in Firma, l \in Lenguas : /\ Texto(f, l) \in Textos
                                       /\ Texto(f, l).firma = f /\ f[1] \in Nat
    /\ \A t \in Textos : t.firma[1] \in Nat
<1>1. \A f \in Firma : f[1] \in Nat
  BY NarrativasAssumption DEF Firma
<1> QED
  BY <1>1 DEF Texto, Textos

\* Memory is empty, and what is explained tells what its attack did.
LEMMA InicioNarrativas == InitNarrativas => InductivoNarrativas
<1> SUFFICES ASSUME InitNarrativas PROVE InductivoNarrativas
  OBVIOUS
<1> USE NarrativasAssumption DEF InitNarrativas
<1>1. PICK l \in [Explicados -> Lenguas] :
         explicacion = [o \in Objeto |->
             IF o \in Explicados THEN Texto(firmaDeAtaque(o), l[o]) ELSE Vacio]
  OBVIOUS
<1>2. /\ guion \in [Ataque -> 1..MaxGuion] /\ \A a \in Ataque : guion[a] = 1
      /\ memoria = [k \in {} |-> Vacio] /\ DOMAIN memoria = {}
      /\ Ocioso \in Encargos /\ Ocioso.de = {} /\ 0 \in 0..MaxVeces
  BY DEF Encargos, Ocioso
<1>3. \A a \in Ataque : firmaDeAtaque(a) \in Firma /\ firmaDeAtaque(a)[1] = guion[a]
  <2>1. \A a \in Ataque : (a \in ConCebo) \in BOOLEAN
    OBVIOUS
  <2>2. \A a \in Ataque : <<guion[a], a \in ConCebo>> \in Firma
    BY <2>1, <1>2 DEF Firma
  <2> QED
    BY <2>2 DEF firmaDeAtaque
<1>4. \A a \in Explicados : explicacion[a] \in Textos /\ explicacion[a].firma[1] = guion[a]
  BY <1>1, <1>3, ElTexto DEF Objeto
<1>5. explicacion \in [Objeto -> {Vacio} \cup Textos]
  BY <1>1, <1>4
<1>6. TypeOKNarrativas
  BY <1>2, <1>5 DEF TypeOKNarrativas
<1>7. \A a \in Ataque : explicacion[a] # Vacio => explicacion[a].firma[1] <= guion[a]
  <2>1. \A a \in Ataque : a \notin Explicados => explicacion[a] = Vacio
    BY <1>1 DEF Objeto
  <2>2. 1 <= 1
    OBVIOUS
  <2> QED
    BY <2>1, <2>2, <1>2, <1>4
<1>8. MemoriaFiel /\ NadaDeMas
  BY <1>2, <1>7 DEF MemoriaFiel, NadaDeMas
<1> QED
  BY <1>6, <1>8 DEF InductivoNarrativas

\* A row is explained, or the save failed: its text tells of no more than it did.
LEMMA ExplicarBien ==
    ASSUME TypeOKNarrativas, MemoriaFiel, NEW o \in Objeto, NEW t \in Textos,
           o \in Ataque => t.firma[1] <= guion[o],
           explicacion' \in {[explicacion EXCEPT ![o] = t], explicacion}
    PROVE  /\ explicacion' \in [Objeto -> {Vacio} \cup Textos]
           /\ \A a \in Ataque : explicacion'[a] # Vacio => explicacion'[a].firma[1] <= guion[a]
<1>1. explicacion \in [Objeto -> {Vacio} \cup Textos]
  BY DEF TypeOKNarrativas
<1>2. \A a \in Ataque : explicacion[a] # Vacio => explicacion[a].firma[1] <= guion[a]
  BY DEF MemoriaFiel
<1>3. CASE explicacion' = [explicacion EXCEPT ![o] = t]
  <2>1. explicacion' \in [Objeto -> {Vacio} \cup Textos]
    BY <1>1, <1>3
  <2>2. \A a \in Ataque : explicacion'[a] = IF a = o THEN t ELSE explicacion[a]
    BY <1>1, <1>3 DEF Objeto
  <2> QED
    BY <2>1, <2>2, <1>2
<1> QED
  BY <1>1, <1>2, <1>3

\* A text is filed under a signature it does not go beyond.
LEMMA ArchivarBien ==
    ASSUME TypeOKNarrativas, NadaDeMas, NEW f \in Firma, NEW l \in Lenguas, NEW t \in Textos,
           t.firma[1] <= f[1], Archivar(f, l, t)
    PROVE  /\ DOMAIN memoria' = DOMAIN memoria \cup {<<f, l>>}
           /\ DOMAIN memoria' \subseteq Firma \X Lenguas
           /\ memoria'[<<f, l>>] = t
           /\ \A k \in DOMAIN memoria : k # <<f, l>> => memoria'[k] = memoria[k]
           /\ \A k \in DOMAIN memoria' : memoria'[k] \in Textos
           /\ \A k \in DOMAIN memoria' : memoria'[k].firma[1] <= k[1][1]
<1>1. /\ DOMAIN memoria \subseteq Firma \X Lenguas /\ \A k \in DOMAIN memoria : memoria[k] \in Textos
      /\ \A k \in DOMAIN memoria : memoria[k].firma[1] <= k[1][1]
  BY DEF TypeOKNarrativas, NadaDeMas
<1>2. /\ DOMAIN memoria' = DOMAIN memoria \cup {<<f, l>>}
      /\ \A k \in DOMAIN memoria \cup {<<f, l>>} : memoria'[k] = IF k = <<f, l>> THEN t ELSE memoria[k]
  BY DEF Archivar
<1>3. <<f, l>>[1][1] = f[1] /\ <<f, l>> \in Firma \X Lenguas
  OBVIOUS
<1> QED
  BY <1>1, <1>2, <1>3

\* What memory has for an attack of the same signature is copied to its row, on
\* opening it or by the sweeper.
LEMMA AbrirBien ==
    ASSUME InductivoNarrativas, olvidadas' \subseteq Objeto \ pedidas',
           NEW o \in Objeto, NEW l \in Lenguas,
           o \in Ataque, <<firmaDeAtaque(o), l>> \in DOMAIN memoria,
           GuardarExplicacion(o, memoria[<<firmaDeAtaque(o), l>>]),
           pedidas' \subseteq pedidas,
           UNCHANGED <<guion, memoria, sembradas, lengua, barrido, boton, siembra,
                       deSiembra, veces>>
    PROVE  InductivoNarrativas'
<1> USE DEF InductivoNarrativas
<1> DEFINE t == memoria[<<firmaDeAtaque(o), l>>]
<1>1. t \in Textos
  BY DEF TypeOKNarrativas
<1>2. t.firma[1] <= guion[o]
  BY LasFirmas DEF NadaDeMas
<1>3. explicacion' \in {[explicacion EXCEPT ![o] = t], explicacion}
  BY DEF GuardarExplicacion
<1> HIDE DEF t
<1>4. /\ explicacion' \in [Objeto -> {Vacio} \cup Textos]
      /\ \A a \in Ataque : explicacion'[a] # Vacio => explicacion'[a].firma[1] <= guion[a]
  BY <1>1, <1>2, <1>3, ExplicarBien
<1>5. TypeOKNarrativas'
  BY <1>4 DEF TypeOKNarrativas
<1>6. MemoriaFiel'
  BY <1>4 DEF MemoriaFiel
<1>7. NadaDeMas'
  BY DEF NadaDeMas
<1> QED
  BY <1>5, <1>6, <1>7

\* What a request carries while it waits for the model.
LEMMA ElEncargo ==
    ASSUME TypeOKNarrativas, NEW p \in Encargos, p # Ocioso
    PROVE  p.de \subseteq Objeto /\ p.firma \in Firma /\ p.en \in Lenguas
BY DEF Encargos

\* Who waits for nothing asks about nobody.
LEMMA ElEncargoOcioso == Ocioso \in Encargos /\ Ocioso.de = {}
BY DEF Ocioso, Encargos

\* The model answered the sweeper, and both saves or one of them went through.
LEMMA EscribirBien ==
    ASSUME InductivoNarrativas, olvidadas' \subseteq Objeto \ pedidas',
           Escribir \/ EscribirAMedias
    PROVE  InductivoNarrativas'
<1> USE DEF InductivoNarrativas
<1> DEFINE f == barrido.firma
           l == barrido.en
           t == Texto(f, l)
<1>1. /\ barrido # Ocioso /\ barrido' = Ocioso /\ barrido'.de = {}
      /\ UNCHANGED <<guion, sembradas, lengua, pedidas, boton, siembra, veces>>
  BY ElEncargoOcioso DEF Escribir, EscribirAMedias
<1>2. barrido.de \subseteq Objeto /\ f \in Firma /\ l \in Lenguas
  BY <1>1, ElEncargo DEF TypeOKNarrativas
<1>3. t \in Textos /\ t.firma = f
  BY <1>2, ElTexto
<1>4. t.firma[1] <= f[1]
  BY <1>2, <1>3, ElTexto
<1>5. PICK o \in barrido.de :
        /\ explicacion' \in {[explicacion EXCEPT ![o] = t], explicacion}
        /\ \/ UNCHANGED <<memoria, deSiembra>>
           \/ Archivar(f, l, t) /\ deSiembra' = deSiembra \ {<<f, l>>}
  <2>1. CASE Escribir
    BY <2>1 DEF Escribir, FirmaPara
  <2>2. CASE EscribirAMedias
    BY <2>2 DEF EscribirAMedias, FirmaPara
  <2> QED
    BY <2>1, <2>2
<1>6. o \in Objeto /\ (o \in Ataque => t.firma[1] <= guion[o])
  BY <1>2, <1>3 DEF NadaDeMas
<1> HIDE DEF t
<1>7. /\ explicacion' \in [Objeto -> {Vacio} \cup Textos]
      /\ \A a \in Ataque : explicacion'[a] # Vacio => explicacion'[a].firma[1] <= guion[a]
  BY <1>3, <1>5, <1>6, ExplicarBien
<1>8. Ocioso \in Encargos
  BY ElEncargoOcioso
<1>9. CASE UNCHANGED <<memoria, deSiembra>>
  <2>1. TypeOKNarrativas'
    BY <1>1, <1>7, <1>8, <1>9 DEF TypeOKNarrativas
  <2>2. MemoriaFiel'
    BY <1>1, <1>7, <1>9 DEF MemoriaFiel
  <2>3. NadaDeMas'
    BY <1>1, <1>9 DEF NadaDeMas
  <2> QED
    BY <2>1, <2>2, <2>3
<1>10. CASE Archivar(f, l, t) /\ deSiembra' = deSiembra \ {<<f, l>>}
  <2> HIDE DEF f, l
  <2>1. /\ DOMAIN memoria' = DOMAIN memoria \cup {<<f, l>>}
        /\ DOMAIN memoria' \subseteq Firma \X Lenguas
        /\ memoria'[<<f, l>>] = t
        /\ \A k \in DOMAIN memoria : k # <<f, l>> => memoria'[k] = memoria[k]
        /\ \A k \in DOMAIN memoria' : memoria'[k] \in Textos
        /\ \A k \in DOMAIN memoria' : memoria'[k].firma[1] <= k[1][1]
    BY <1>2, <1>3, <1>4, <1>10, ArchivarBien
  <2>2. TypeOKNarrativas'
    BY <1>1, <1>7, <1>8, <1>10, <2>1 DEF TypeOKNarrativas
  <2>3. \A k \in DOMAIN memoria' \ deSiembra' : memoria'[k] = Texto(k[1], k[2])
    <3> TAKE k \in DOMAIN memoria' \ deSiembra'
    <3>1. CASE k = <<f, l>>
      BY <3>1, <2>1 DEF t
    <3>2. CASE k # <<f, l>>
      BY <3>2, <2>1, <1>10 DEF MemoriaFiel
    <3> QED
      BY <3>1, <3>2
  <2>4. MemoriaFiel'
    BY <1>1, <1>7, <2>3 DEF MemoriaFiel
  <2>5. NadaDeMas'
    BY <1>1, <2>1 DEF NadaDeMas
  <2> QED
    BY <2>2, <2>4, <2>5
<1> QED
  BY <1>5, <1>9, <1>10

\* A request takes its signature from the row it is about.
LEMMA PedirBien ==
    ASSUME TypeOKNarrativas, NEW o \in Objeto, NEW l \in Lenguas
    PROVE  LET p == [de |-> {o}, firma |-> firmaDeAtaque(o), en |-> l]
           IN  p \in Encargos /\ \A a \in p.de \cap Ataque : p.firma[1] <= guion[a]
<1>1. firmaDeAtaque(o) \in Firma
  BY LasFirmas
<1>2. o \in Ataque => firmaDeAtaque(o)[1] = guion[o] /\ guion[o] \in 1..MaxGuion
  BY LasFirmas DEF TypeOKNarrativas
<1>3. o \in Ataque => firmaDeAtaque(o)[1] <= guion[o]
  BY <1>2
<1> QED
  BY <1>1, <1>3 DEF Encargos

\* The model answered the button: the row's text, and nothing in memory.
LEMMA AtenderBien ==
    ASSUME InductivoNarrativas, olvidadas' \subseteq Objeto \ pedidas',
           Atender
    PROVE  InductivoNarrativas'
<1> USE DEF InductivoNarrativas
<1> DEFINE t == Texto(boton.firma, boton.en)
<1>1. boton.de \subseteq Objeto /\ boton.firma \in Firma /\ boton.en \in Lenguas
  BY ElEncargo DEF TypeOKNarrativas, Atender
<1>2. t \in Textos /\ t.firma = boton.firma
  BY <1>1, ElTexto
<1>3. PICK o \in boton.de : explicacion' \in {[explicacion EXCEPT ![o] = t], explicacion}
  BY DEF Atender, GuardarExplicacion
<1>4. o \in Objeto /\ (o \in Ataque => t.firma[1] <= guion[o])
  BY <1>1, <1>2 DEF NadaDeMas
<1> HIDE DEF t
<1>5. /\ explicacion' \in [Objeto -> {Vacio} \cup Textos]
      /\ \A a \in Ataque : explicacion'[a] # Vacio => explicacion'[a].firma[1] <= guion[a]
  BY <1>2, <1>3, <1>4, ExplicarBien
<1>6. /\ boton' = Ocioso /\ boton'.de = {} /\ boton' \in Encargos
      /\ UNCHANGED <<guion, memoria, sembradas, lengua, pedidas, barrido, siembra,
                     deSiembra, veces>>
  BY ElEncargoOcioso DEF Atender
<1>7. TypeOKNarrativas'
  BY <1>5, <1>6 DEF TypeOKNarrativas
<1>8. MemoriaFiel'
  BY <1>5, <1>6 DEF MemoriaFiel
<1>9. NadaDeMas'
  BY <1>6 DEF NadaDeMas
<1> QED
  BY <1>7, <1>8, <1>9

\* The seeding reads what was explained so far (SembrarNarrativas).
LEMMA LeerExplicadosBien ==
    ASSUME InductivoNarrativas, olvidadas' \subseteq Objeto \ pedidas',
           LeerExplicados
    PROVE  InductivoNarrativas'
<1> USE DEF InductivoNarrativas
<1>1. /\ siembra' = {<<firmaSembrada(a), lengua, explicacion[a]>> :
                       a \in {b \in Ataque : explicacion[b] # Vacio}}
      /\ sembradas' = (siembra' = {})
      /\ UNCHANGED <<guion, explicacion, memoria, lengua, pedidas, barrido, boton,
                     deSiembra, veces>>
  BY DEF LeerExplicados
<1>2. \A a \in Ataque : /\ firmaSembrada(a) \in Firma /\ firmaSembrada(a)[1] = guion[a]
                        /\ explicacion[a] # Vacio => explicacion[a] \in Textos
  BY LasFirmas DEF TypeOKNarrativas, Objeto
<1>3. ASSUME NEW e \in siembra'
      PROVE  e \in Firma \X Lenguas \X Textos /\ e[3].firma[1] <= e[1][1]
  <2>1. PICK a \in Ataque : explicacion[a] # Vacio /\ e = <<firmaSembrada(a), lengua, explicacion[a]>>
    BY <1>1, <1>3
  <2>2. explicacion[a].firma[1] <= guion[a] /\ lengua \in Lenguas
    BY <2>1 DEF MemoriaFiel, TypeOKNarrativas
  <2> QED
    BY <2>1, <2>2, <1>2
<1>4. (siembra' = {}) \in BOOLEAN
  OBVIOUS
<1>5. TypeOKNarrativas'
  BY <1>1, <1>3, <1>4 DEF TypeOKNarrativas
<1>6. MemoriaFiel'
  BY <1>1 DEF MemoriaFiel
<1>7. NadaDeMas'
  BY <1>1, <1>3 DEF NadaDeMas
<1> QED
  BY <1>5, <1>6, <1>7

\* ... and files it, unless that signature is taken.
LEMMA SembrarBien ==
    ASSUME InductivoNarrativas, olvidadas' \subseteq Objeto \ pedidas',
           NEW e \in siembra, Sembrar(e)
    PROVE  InductivoNarrativas'
<1> USE DEF InductivoNarrativas
<1> DEFINE k == <<e[1], e[2]>>
<1>1. /\ e[1] \in Firma /\ e[2] \in Lenguas /\ e[3] \in Textos /\ e[3].firma[1] <= e[1][1]
  BY DEF TypeOKNarrativas, NadaDeMas
<1>2. /\ siembra' = siembra \ {e} /\ sembradas' = (siembra' = {})
      /\ UNCHANGED <<guion, explicacion, lengua, pedidas, barrido, boton, veces>>
  BY DEF Sembrar
<1>3. (siembra' = {}) \in BOOLEAN
  OBVIOUS
<1>4. CASE UNCHANGED <<memoria, deSiembra>>
  <2>1. TypeOKNarrativas'
    BY <1>2, <1>3, <1>4 DEF TypeOKNarrativas
  <2>2. MemoriaFiel'
    BY <1>2, <1>4 DEF MemoriaFiel
  <2>3. NadaDeMas'
    BY <1>2, <1>4 DEF NadaDeMas
  <2> QED
    BY <2>1, <2>2, <2>3
<1>5. CASE k \notin DOMAIN memoria /\ Archivar(e[1], e[2], e[3]) /\ deSiembra' = deSiembra \cup {k}
  <2>1. /\ DOMAIN memoria' = DOMAIN memoria \cup {k}
        /\ DOMAIN memoria' \subseteq Firma \X Lenguas
        /\ \A j \in DOMAIN memoria : j # k => memoria'[j] = memoria[j]
        /\ \A j \in DOMAIN memoria' : memoria'[j] \in Textos
        /\ \A j \in DOMAIN memoria' : memoria'[j].firma[1] <= j[1][1]
    BY <1>1, <1>5, ArchivarBien
  <2> HIDE DEF k
  <2>2. TypeOKNarrativas'
    BY <1>2, <1>3, <1>5, <2>1 DEF TypeOKNarrativas
  <2>3. MemoriaFiel'
    BY <1>2, <1>5, <2>1 DEF MemoriaFiel
  <2>4. NadaDeMas'
    BY <1>2, <2>1 DEF NadaDeMas
  <2> QED
    BY <2>2, <2>3, <2>4
<1> QED
  BY <1>4, <1>5 DEF Sembrar

\* The attack grows: what was said of it tells of no more than it did.
LEMMA CreceBien ==
    ASSUME InductivoNarrativas, olvidadas' \subseteq Objeto \ pedidas',
           NEW a \in Ataque, Crece(a)
    PROVE  InductivoNarrativas'
<1> USE DEF InductivoNarrativas
<1>1. guion \in [Ataque -> 1..MaxGuion] /\ guion[a] < MaxGuion
      /\ guion' = [guion EXCEPT ![a] = @ + 1]
      /\ UNCHANGED <<explicacion, memoria, sembradas, lengua, pedidas, barrido,
                     boton, siembra, deSiembra, veces>>
  BY DEF Crece, TypeOKNarrativas
<1>2. guion' \in [Ataque -> 1..MaxGuion] /\ \A b \in Ataque : guion[b] \in Nat /\ guion'[b] \in Nat /\ guion[b] <= guion'[b]
  BY <1>1, NarrativasAssumption
<1>3. TypeOKNarrativas'
  BY <1>1, <1>2 DEF TypeOKNarrativas
<1>4. \A b \in Ataque : explicacion[b] # Vacio =>
         explicacion[b].firma[1] \in Nat /\ explicacion[b].firma[1] <= guion[b]
  BY ElTexto DEF MemoriaFiel, TypeOKNarrativas, Objeto
<1>5. MemoriaFiel'
  BY <1>1, <1>2, <1>4 DEF MemoriaFiel
<1>6. \A p \in {barrido, boton} : p.de # {} => p.firma[1] \in Nat
  BY ElEncargo, ElEncargoOcioso, ElTexto DEF TypeOKNarrativas
<1>7. NadaDeMas'
  BY <1>1, <1>2, <1>6 DEF NadaDeMas
<1> QED
  BY <1>3, <1>5, <1>7

\* Who is forgotten has no request: making it again takes it off, and only
\* requests that are not in the queue any more are forgotten.
LEMMA PasoOlvidadas ==
    ASSUME TypeOKNarrativas, [NextNarrativas]_varsNarrativas
    PROVE  olvidadas' \subseteq Objeto \ pedidas'
<1>1. pedidas \subseteq Objeto /\ olvidadas \subseteq Objeto \ pedidas
  BY DEF TypeOKNarrativas
<1>2. ASSUME UNCHANGED olvidadas, pedidas' \subseteq pedidas
      PROVE  olvidadas' \subseteq Objeto \ pedidas'
  BY <1>1, <1>2
<1>3. ASSUME NEW os, os \subseteq Objeto, Olvida(os), pedidas' \subseteq pedidas
      PROVE  olvidadas' \subseteq Objeto \ pedidas'
  BY <1>1, <1>3 DEF Olvida
<1>4. ASSUME NEW o \in Objeto, NEW l \in Lenguas, Abrir(o, l)
      PROVE  olvidadas' \subseteq Objeto \ pedidas'
  <2>1. CASE pedidas' = pedidas \cup {o} /\ olvidadas' = olvidadas \ {o}
    BY <1>1, <2>1
  <2> QED
    BY <1>2, <1>4, <2>1 DEF Abrir
<1>5. ASSUME NEW o \in Objeto, BarrerSinModelo(o) PROVE olvidadas' \subseteq Objeto \ pedidas'
  <2>1. {o} \subseteq Objeto /\ Olvida({o}) /\ pedidas' \subseteq pedidas
    BY <1>5 DEF BarrerSinModelo
  <2> QED
    BY <1>3, <2>1
<1>6. barrido.de \subseteq Objeto
  BY ElEncargo, ElEncargoOcioso DEF TypeOKNarrativas
<1>7. CASE EscribirAMedias \/ NoEscribir
  <2>1. Olvida(barrido.de) /\ pedidas' \subseteq pedidas
    BY <1>7 DEF EscribirAMedias, NoEscribir
  <2> QED
    BY <1>3, <1>6, <2>1
<1>8. CASE CaePanel
  <2>1. Olvida(pedidas \cup barrido.de) /\ pedidas' \subseteq pedidas
    BY <1>8 DEF CaePanel
  <2> QED
    BY <1>1, <1>3, <1>6, <2>1
<1> QED
  BY <1>2, <1>4, <1>5, <1>7, <1>8
  DEF NextNarrativas, Crece, CambiaLengua, BarrerConModelo, Escribir, Pulsar, Atender,
      LeerExplicados, Sembrar, varsNarrativas

\* Every step of the panel's narratives.
LEMMA PasoNarrativas ==
    InductivoNarrativas /\ [NextNarrativas]_varsNarrativas => InductivoNarrativas'
<1> SUFFICES ASSUME InductivoNarrativas, [NextNarrativas]_varsNarrativas,
                    olvidadas' \subseteq Objeto \ pedidas'
             PROVE  InductivoNarrativas'
  BY PasoOlvidadas DEF InductivoNarrativas
<1> USE DEF InductivoNarrativas
<1>1. ASSUME NEW l \in Lenguas, CambiaLengua(l) PROVE InductivoNarrativas'
  <2>1. TypeOKNarrativas'
    BY <1>1, NarrativasAssumption DEF CambiaLengua, TypeOKNarrativas
  <2>2. MemoriaFiel' /\ NadaDeMas'
    BY <1>1 DEF CambiaLengua, MemoriaFiel, NadaDeMas
  <2> QED
    BY <2>1, <2>2
<1>2. ASSUME NEW o \in Objeto, NEW l \in Lenguas, Abrir(o, l) PROVE InductivoNarrativas'
  <2>1. CASE pedidas' = pedidas \cup {o} /\ UNCHANGED explicacion
    <3>1. TypeOKNarrativas'
      BY <1>2, <2>1 DEF Abrir, TypeOKNarrativas
    <3>2. MemoriaFiel' /\ NadaDeMas'
      BY <1>2, <2>1 DEF Abrir, MemoriaFiel, NadaDeMas
    <3> QED
      BY <3>1, <3>2
  <2>2. CASE /\ o \in Ataque /\ <<firmaDeAtaque(o), l>> \in DOMAIN memoria
             /\ GuardarExplicacion(o, memoria[<<firmaDeAtaque(o), l>>])
             /\ UNCHANGED pedidas
    BY <1>2, <2>2, AbrirBien DEF Abrir
  <2> QED
    BY <1>2, <2>1, <2>2 DEF Abrir
<1>3. ASSUME NEW o \in Objeto, BarrerSinModelo(o) PROVE InductivoNarrativas'
  <2>1. CASE UNCHANGED explicacion
    <3>1. TypeOKNarrativas'
      BY <1>3, <2>1 DEF BarrerSinModelo, TypeOKNarrativas
    <3>2. MemoriaFiel' /\ NadaDeMas'
      BY <1>3, <2>1 DEF BarrerSinModelo, MemoriaFiel, NadaDeMas
    <3> QED
      BY <3>1, <3>2
  <2>2. CASE /\ o \in Ataque /\ <<firmaDeAtaque(o), lengua>> \in DOMAIN memoria
             /\ GuardarExplicacion(o, memoria[<<firmaDeAtaque(o), lengua>>])
    <3>1. lengua \in Lenguas
      BY DEF TypeOKNarrativas
    <3> QED
      BY <1>3, <2>2, <3>1, AbrirBien DEF BarrerSinModelo
  <2> QED
    BY <1>3, <2>1, <2>2 DEF BarrerSinModelo
<1>4. ASSUME NEW o \in Objeto, BarrerConModelo(o) PROVE InductivoNarrativas'
  <2>1. lengua \in Lenguas
    BY DEF TypeOKNarrativas
  <2>2. barrido' \in Encargos /\ \A a \in barrido'.de \cap Ataque : barrido'.firma[1] <= guion[a]
    BY <1>4, <2>1, PedirBien DEF BarrerConModelo
  <2>3. TypeOKNarrativas'
    BY <1>4, <2>2 DEF BarrerConModelo, TypeOKNarrativas
  <2>4. MemoriaFiel' /\ NadaDeMas'
    BY <1>4, <2>2 DEF BarrerConModelo, MemoriaFiel, NadaDeMas
  <2> QED
    BY <2>3, <2>4
<1>5. CASE NoEscribir
  <2>1. barrido' \in Encargos /\ barrido'.de = {}
    BY <1>5, ElEncargoOcioso DEF NoEscribir
  <2>2. TypeOKNarrativas'
    BY <1>5, <2>1 DEF NoEscribir, TypeOKNarrativas
  <2>3. MemoriaFiel' /\ NadaDeMas'
    BY <1>5, <2>1 DEF NoEscribir, MemoriaFiel, NadaDeMas
  <2> QED
    BY <2>2, <2>3
<1>6. ASSUME NEW o \in Objeto, NEW l \in Lenguas, Pulsar(o, l) PROVE InductivoNarrativas'
  <2>1. boton' \in Encargos /\ \A a \in boton'.de \cap Ataque : boton'.firma[1] <= guion[a]
    BY <1>6, PedirBien DEF Pulsar
  <2>2. TypeOKNarrativas'
    BY <1>6, <2>1 DEF Pulsar, TypeOKNarrativas
  <2>3. MemoriaFiel' /\ NadaDeMas'
    BY <1>6, <2>1 DEF Pulsar, MemoriaFiel, NadaDeMas
  <2> QED
    BY <2>2, <2>3
<1>7. CASE CaePanel
  <2>1. /\ barrido' = Ocioso /\ boton' = Ocioso /\ siembra' = {} /\ pedidas' = {}
        /\ Ocioso \in Encargos /\ Ocioso.de = {} /\ veces' = veces + 1 /\ veces < MaxVeces
        /\ UNCHANGED <<guion, explicacion, memoria, sembradas, lengua, deSiembra>>
    BY <1>7, ElEncargoOcioso DEF CaePanel
  <2>2. veces' \in 0..MaxVeces
    BY <2>1, NarrativasAssumption DEF TypeOKNarrativas
  <2>3. TypeOKNarrativas'
    BY <2>1, <2>2 DEF TypeOKNarrativas
  <2>4. MemoriaFiel' /\ NadaDeMas'
    BY <2>1 DEF MemoriaFiel, NadaDeMas
  <2> QED
    BY <2>3, <2>4
<1>8. CASE UNCHANGED varsNarrativas
  <2>1. TypeOKNarrativas'
    BY <1>8 DEF varsNarrativas, TypeOKNarrativas
  <2>2. MemoriaFiel' /\ NadaDeMas'
    BY <1>8 DEF varsNarrativas, MemoriaFiel, NadaDeMas
  <2> QED
    BY <2>1, <2>2
<1> QED
  BY <1>1, <1>2, <1>3, <1>4, <1>5, <1>6, <1>7, <1>8, CreceBien, EscribirBien,
     AtenderBien, LeerExplicadosBien, SembrarBien DEF NextNarrativas

\* MemoriaFiel, in every execution: whatever an attack did while the sweeper
\* waited for the model, the memory does not file its text under what it became
\* (explicar_fondo.go), and no attack is told something it has not done.
THEOREM LoRecordadoEsCierto == SpecNarrativas => []MemoriaFiel
<1>1. InitNarrativas => InductivoNarrativas
  BY InicioNarrativas
<1>2. InductivoNarrativas /\ [NextNarrativas]_varsNarrativas => InductivoNarrativas'
  BY PasoNarrativas
<1>3. InductivoNarrativas => MemoriaFiel
  BY DEF InductivoNarrativas
<1> QED
  BY <1>1, <1>2, <1>3, PTL DEF SpecNarrativas

-----------------------------------------------------------------------------
(* The caches of the panel.                                                *)

\* Both caches begin empty, before any change of the database is known.
LEMMA InicioEstado == InitEstado => TypeOKEstado
<1> SUFFICES ASSUME InitEstado PROVE TypeOKEstado
  OBVIOUS
<1> USE EstadoAssumption DEF InitEstado
<1>1. /\ 1 \in 1..MaxDatos /\ 0 \in 0..1 /\ 0 \in 0..(Frescura + 1) /\ 0 \in 0..MaxErrores
  OBVIOUS
<1>2. datos \in 1..MaxDatos /\ intel \in 0..datos /\ precalentar \subseteq Rango /\ errores \in 0..MaxErrores
  BY <1>1
<1>3. Ninguno \in [hay : BOOLEAN, con : 0..datos, edad : 0..(Frescura + 1), refrescando : BOOLEAN]
  BY <1>1 DEF Ninguno
<1> QED
  BY <1>2, <1>3 DEF TypeOKEstado

\* What a computation carries, and what it stores when it ends.
LEMMA ElCalculo ==
    ASSUME TypeOKEstado, NEW k \in Calculo, calculo[k] # Parado
    PROVE  /\ calculo[k].rango \in Rango /\ calculo[k].con \in 0..datos
           /\ Entrada(calculo[k].con) \in [hay : BOOLEAN, con : 0..datos,
                                           edad : 0..(Frescura + 1), refrescando : BOOLEAN]
<1>1. calculo[k] \in [de : {"visita", "fondo", "arranque"}, rango : Rango, con : 1..datos]
  BY DEF TypeOKEstado
<1>2. calculo[k].rango \in Rango /\ calculo[k].con \in 1..datos
  BY <1>1
<1>3. calculo[k].con \in 0..datos /\ 0 \in 0..(Frescura + 1)
  BY <1>2, EstadoAssumption DEF TypeOKEstado
<1> QED
  BY <1>2, <1>3 DEF Entrada

\* A step of the visitors, the warm-up, the computations and the database
\* keeps the types: nothing is shown that the database has not seen.
LEMMA PasoEstado == TypeOKEstado /\ [NextEstado]_varsEstado => TypeOKEstado'
<1> SUFFICES ASSUME TypeOKEstado, [NextEstado]_varsEstado
             PROVE  TypeOKEstado'
  OBVIOUS
<1> DEFINE Entradas == [hay : BOOLEAN, con : 0..datos, edad : 0..(Frescura + 1), refrescando : BOOLEAN]
           EnMarcha == [de : {"visita", "fondo", "arranque"}, rango : Rango, con : 1..datos]
<1>1. /\ datos \in 1..MaxDatos /\ intel \in 0..datos /\ precalentar \subseteq Rango
      /\ porRango \in [Rango -> Entradas] /\ calculo \in [Calculo -> {Parado} \cup EnMarcha]
      /\ errores \in 0..MaxErrores
      /\ Frescura \in Nat /\ MaxDatos \in Nat \ {0} /\ MaxErrores \in Nat
  BY EstadoAssumption DEF TypeOKEstado
<1>2. datos \in 1..datos /\ 0 \in 0..datos
  BY <1>1
<1>3. CASE Cambiar
  <2>1. datos' \in 1..MaxDatos /\ 0..datos \subseteq 0..datos' /\ 1..datos \subseteq 1..datos'
    BY <1>1, <1>3 DEF Cambiar
  <2>2. porRango' \in [Rango -> [hay : BOOLEAN, con : 0..datos', edad : 0..(Frescura + 1),
                                 refrescando : BOOLEAN]]
    BY <2>1, <1>1, <1>3 DEF Cambiar
  <2>3. calculo' \in [Calculo -> {Parado} \cup
                        [de : {"visita", "fondo", "arranque"}, rango : Rango, con : 1..datos']]
    BY <2>1, <1>1, <1>3 DEF Cambiar
  <2> QED
    BY <2>1, <2>2, <2>3, <1>1, <1>3 DEF Cambiar, TypeOKEstado
<1>4. CASE Envejecer
  <2>1. \A d \in Rango : porRango[d].edad <= Frescura => porRango[d].edad + 1 \in 0..(Frescura + 1)
    BY <1>1
  <2>2. ASSUME NEW d \in Rango
        PROVE  (IF porRango[d].hay /\ porRango[d].edad <= Frescura
                THEN [porRango[d] EXCEPT !.edad = @ + 1] ELSE porRango[d]) \in Entradas
    BY <2>1, <1>1
  <2>3. porRango' \in [Rango -> Entradas]
    BY <2>2, <1>4 DEF Envejecer
  <2> QED
    BY <2>3, <1>1, <1>4 DEF Envejecer, TypeOKEstado
<1>5. CASE RecalcularIntel
  <2>1. intel' \in 0..datos
    BY <1>1, <1>5 DEF RecalcularIntel
  <2> QED
    BY <2>1, <1>1, <1>5 DEF RecalcularIntel, TypeOKEstado
<1>6. CASE IntelVacia
  <2>1. intel' \in 0..datos /\ errores' \in 0..MaxErrores
    BY <1>1, <1>6 DEF IntelVacia
  <2> QED
    BY <2>1, <1>1, <1>6 DEF IntelVacia, TypeOKEstado
<1>7. ASSUME NEW k \in Calculo, NEW d \in Rango, PedirEnFrio(k, d) PROVE TypeOKEstado'
  <2>1. calculo' \in [Calculo -> {Parado} \cup EnMarcha]
    BY <1>1, <1>2, <1>7 DEF PedirEnFrio
  <2> QED
    BY <2>1, <1>1, <1>7 DEF PedirEnFrio, TypeOKEstado
<1>8. ASSUME NEW k \in Calculo, NEW d \in Rango, PedirPasado(k, d) PROVE TypeOKEstado'
  <2>1. calculo' \in [Calculo -> {Parado} \cup EnMarcha]
    BY <1>1, <1>2, <1>8 DEF PedirPasado
  <2>2. porRango' \in [Rango -> Entradas]
    BY <1>1, <1>8, ZenonT(40) DEF PedirPasado
  <2> QED
    BY <2>1, <2>2, <1>1, <1>8 DEF PedirPasado, TypeOKEstado
<1>9. ASSUME NEW k \in Calculo, NEW d \in Rango, Precalentar(k, d) PROVE TypeOKEstado'
  <2>1. calculo' \in [Calculo -> {Parado} \cup EnMarcha]
    BY <1>1, <1>2, <1>9 DEF Precalentar
  <2>2. precalentar' \subseteq Rango
    BY <1>1, <1>9 DEF Precalentar
  <2> QED
    BY <2>1, <2>2, <1>1, <1>9 DEF Precalentar, TypeOKEstado
<1>10. ASSUME NEW k \in Calculo, Acierto(k) PROVE TypeOKEstado'
  <2>1. porRango' \in [Rango -> Entradas]
    BY <1>1, <1>10, ElCalculo DEF Acierto
  <2>2. calculo' \in [Calculo -> {Parado} \cup EnMarcha]
    BY <1>1, <1>10 DEF Acierto
  <2> QED
    BY <2>1, <2>2, <1>1, <1>10 DEF Acierto, TypeOKEstado
<1>11. ASSUME NEW k \in Calculo, Fallo(k) PROVE TypeOKEstado'
  <2>1. porRango' \in [Rango -> Entradas]
    <3>1. CASE porRango' = porRango
      BY <3>1, <1>1
    <3>2. CASE porRango' = [porRango EXCEPT ![calculo[k].rango].refrescando = FALSE]
      <4>1. calculo[k].rango \in Rango
        BY <1>11, ElCalculo DEF Fallo
      <4> QED
        BY <3>2, <4>1, <1>1, ZenonT(40)
    <3> QED
      BY <3>1, <3>2, <1>11 DEF Fallo
  <2>2. calculo' \in [Calculo -> {Parado} \cup EnMarcha]
    BY <1>1, <1>11 DEF Fallo
  <2>3. errores' \in 0..MaxErrores
    BY <1>1, <1>11 DEF Fallo
  <2> QED
    BY <2>1, <2>2, <2>3, <1>1, <1>11 DEF Fallo, TypeOKEstado
<1>12. CASE UNCHANGED varsEstado
  BY <1>12 DEF varsEstado, TypeOKEstado
<1> QED
  BY <1>3, <1>4, <1>5, <1>6, <1>7, <1>8, <1>9, <1>10, <1>11, <1>12 DEF NextEstado

-----------------------------------------------------------------------------
(* The care of the installation.                                           *)

\* One copy more at the end of the list.
LEMMA OtraCopia ==
    ASSUME NEW S, NEW cs \in Seq(S), NEW c \in S
    PROVE  /\ Append(cs, c) \in Seq(S) /\ Len(cs) \in Nat /\ Len(Append(cs, c)) = Len(cs) + 1
           /\ \A i \in 1..Len(cs) : Append(cs, c)[i] = cs[i]
           /\ Append(cs, c)[Len(cs) + 1] = c
           /\ DOMAIN cs = 1..Len(cs) /\ DOMAIN Append(cs, c) = 1..(Len(cs) + 1)
OBVIOUS

\* rotarRespaldos keeps the last ones by name: never more than Conservar, no
\* more than there were, and the newest is among them.
LEMMA LaRotacion ==
    ASSUME NEW S, NEW cs \in Seq(S), Len(cs) > 0
    PROVE  /\ rotarRespaldos(cs) \in Seq(S)
           /\ Len(rotarRespaldos(cs)) <= Conservar /\ Len(rotarRespaldos(cs)) > 0
           /\ Len(rotarRespaldos(cs)) \in Nat
           /\ rotarRespaldos(cs)[Len(rotarRespaldos(cs))] = cs[Len(cs)]
<1>1. Conservar \in Nat \ {0} /\ Len(cs) \in Nat
  BY CuidadosAssumption
<1>2. CASE Len(cs) <= Conservar
  BY <1>1, <1>2 DEF rotarRespaldos
<1>3. CASE Len(cs) > Conservar
  <2> DEFINE a == Len(cs) - Conservar + 1
             r == SubSeq(cs, a, Len(cs))
  <2>1. a \in 1..(Len(cs) + 1) /\ a >= 1 /\ a <= Len(cs) /\ Len(cs) - a + 1 = Conservar
    BY <1>1, <1>3
  <2>2. /\ r \in Seq(S) /\ Len(r) = Len(cs) - a + 1
        /\ \A i \in 1..(Len(cs) - a + 1) : r[i] = cs[a + i - 1]
    BY <2>1, <1>1, SubSeqProperties
  <2> HIDE DEF r
  <2>3. Len(r) = Conservar /\ Conservar \in 1..(Len(cs) - a + 1) /\ a + Conservar - 1 = Len(cs)
    <3>1. Conservar \in 1..Conservar /\ a + Conservar - 1 = Len(cs)
      BY <1>1
    <3> HIDE DEF a
    <3> QED
      BY <3>1, <2>1, <2>2
  <2>4. r[Conservar] = cs[Len(cs)]
    BY <2>2, <2>3
  <2>5. rotarRespaldos(cs) = r
    BY <1>1, <1>3 DEF rotarRespaldos, r
  <2> QED
    BY <2>2, <2>3, <2>4, <2>5, <1>1
<1> QED
  BY <1>1, <1>2, <1>3

\* A clock that stops at its bound.
LEMMA ElReloj ==
    ASSUME NEW m \in Nat, NEW n \in 0..m
    PROVE  Mas(n, m) \in 0..m /\ (Mas(n, m) = 0 => n = 0)
BY DEF Mas

\* Nothing has been done yet: there are no copies and no notices.
LEMMA InicioCuidados == InitCuidados => TypeOKCuidados
<1> SUFFICES ASSUME InitCuidados PROVE TypeOKCuidados
  OBVIOUS
<1> USE CuidadosAssumption DEF InitCuidados
<1>1. /\ Hora + 1 \in 0..(Hora + 1) /\ Dia \in 0..Dia /\ Cadencia \in 0..Cadencia
      /\ 0 \in 0..MaxFallos /\ 0 \in 0..MaxVaivenes
  OBVIOUS
<1>2. copias \in Seq({"entera", "a_medias"}) /\ Len(copias) = 0
  OBVIOUS
<1>3. Len(copias) <= Conservar + fallosCu
  BY <1>2
<1>4. canal \in Canales
  BY DEF Canales
<1> QED
  BY <1>1, <1>2, <1>3, <1>4 DEF TypeOKCuidados

\* The copies there are, one more at the end if the call that failed left a
\* file, or if the collector was stopped while it wrote one.
LEMMA UnaMas ==
    ASSUME TypeOKCuidados, fallosCu < MaxFallos, fallosCu' = fallosCu + 1,
           copias' = copias \/ \E c \in {"entera", "a_medias"} : copias' = Append(copias, c)
    PROVE  /\ copias' \in Seq({"entera", "a_medias"}) /\ fallosCu' \in 0..MaxFallos
           /\ Len(copias') <= Conservar + fallosCu'
           /\ HayEntera(copias) => HayEntera(copias')
<1>1. /\ copias \in Seq({"entera", "a_medias"}) /\ fallosCu \in 0..MaxFallos
      /\ Len(copias) <= Conservar + fallosCu /\ Len(copias) \in Nat
      /\ Conservar \in Nat /\ MaxFallos \in Nat
  BY CuidadosAssumption DEF TypeOKCuidados
<1>2. CASE copias' = copias
  <2>1. fallosCu' \in 0..MaxFallos /\ Len(copias) <= Conservar + fallosCu'
    BY <1>1
  <2> QED
    BY <2>1, <1>1, <1>2 DEF HayEntera
<1>3. ASSUME NEW c \in {"entera", "a_medias"}, copias' = Append(copias, c)
      PROVE  /\ copias' \in Seq({"entera", "a_medias"}) /\ Len(copias') = Len(copias) + 1
             /\ HayEntera(copias) => HayEntera(copias')
  <2>1. /\ copias' \in Seq({"entera", "a_medias"}) /\ Len(copias') = Len(copias) + 1
        /\ \A i \in 1..Len(copias) : copias'[i] = copias[i]
        /\ DOMAIN copias = 1..Len(copias) /\ DOMAIN copias' = 1..(Len(copias) + 1)
    BY <1>1, <1>3, OtraCopia
  <2>2. 1..Len(copias) \subseteq 1..(Len(copias) + 1)
    BY <1>1
  <2>3. HayEntera(copias) => HayEntera(copias')
    BY <2>1, <2>2 DEF HayEntera
  <2> QED
    BY <2>1, <2>3
<1>4. fallosCu' \in 0..MaxFallos /\ Len(copias) + 1 <= Conservar + fallosCu'
  BY <1>1
<1> QED
  BY <1>2, <1>3, <1>4

\* A good copy is made and then the old ones go: it is the last of those left.
LEMMA RespaldarBien ==
    ASSUME TypeOKCuidados, respaldarBD
    PROVE  /\ copias' \in Seq({"entera", "a_medias"})
           /\ Len(copias') <= Conservar /\ Len(copias') \in Nat
           /\ HayEntera(copias') /\ copias'[Len(copias')] = "entera"
<1> DEFINE S == {"entera", "a_medias"}
           cs == Append(copias, "entera")
<1>1. /\ cs \in Seq(S) /\ Len(cs) = Len(copias) + 1 /\ Len(copias) \in Nat
      /\ cs[Len(copias) + 1] = "entera"
  BY OtraCopia DEF TypeOKCuidados
<1>2. Len(cs) > 0 /\ cs[Len(cs)] = "entera"
  BY <1>1
<1>3. copias' = rotarRespaldos(cs)
  BY DEF respaldarBD
<1> HIDE DEF cs
<1>4. /\ copias' \in Seq(S) /\ Len(copias') <= Conservar /\ Len(copias') > 0
      /\ Len(copias') \in Nat /\ copias'[Len(copias')] = "entera"
  BY <1>1, <1>2, <1>3, LaRotacion
<1>5. Len(copias') \in DOMAIN copias'
  BY <1>4
<1> QED
  BY <1>4, <1>5 DEF HayEntera

\* The loop, its failures, its restarts and what happens around it keep the types.
LEMMA PasoCuidados == TypeOKCuidados /\ [NextCuidados]_varsCuidados => TypeOKCuidados'
<1> SUFFICES ASSUME TypeOKCuidados, [NextCuidados]_varsCuidados
             PROVE  TypeOKCuidados'
  OBVIOUS
<1> DEFINE Edades == [salud : 0..Hora + 1, respaldo : 0..Dia, resumen : 0..Cadencia, copia : 0..Dia]
           Turnos == {"resumen", "salud", "respaldo"}
<1>1. /\ turno \in Turnos /\ edad \in Edades /\ marcas \in [Problema -> 0..Dia]
      /\ copias \in Seq({"entera", "a_medias"}) /\ fallosCu \in 0..MaxFallos
      /\ Len(copias) <= Conservar + fallosCu /\ Len(copias) \in Nat
      /\ problemas \subseteq Problema /\ avisado \subseteq problemas
      /\ canal \in Canales /\ cambiosCu \in 0..MaxVaivenes
  BY DEF TypeOKCuidados
<1>2. /\ Hora \in Nat /\ Dia \in Nat /\ Cadencia \in Nat /\ Conservar \in Nat
      /\ MaxFallos \in Nat /\ MaxVaivenes \in Nat
      /\ 0 \in 0..(Hora + 1) /\ 0 \in 0..Dia /\ 0 \in 0..Cadencia /\ Hora + 1 \in 0..(Hora + 1)
  BY CuidadosAssumption
<1>3. CASE enviarResumen
  <2>1. edad' \in Edades
    BY <1>1, <1>2, <1>3 DEF enviarResumen
  <2> QED
    BY <2>1, <1>1, <1>3 DEF enviarResumen, entorno, TypeOKCuidados
<1>4. CASE resumenFalla
  <2>1. fallosCu' \in 0..MaxFallos /\ Len(copias) <= Conservar + fallosCu'
    BY <1>1, <1>2, <1>4 DEF resumenFalla
  <2> QED
    BY <2>1, <1>1, <1>4 DEF resumenFalla, bucle, entorno, TypeOKCuidados
<1>5. CASE chequearSalud
  <2>1. edad' \in Edades /\ marcas' \in [Problema -> 0..Dia] /\ avisado' \subseteq problemas
    <3>1. CASE UNCHANGED bucle
      BY <3>1, <1>1 DEF bucle
    <3>2. CASE edad.salud > Hora
      <4>1. Marcar \in [Problema -> 0..Dia] /\ Tocan \subseteq problemas
        BY <1>1, <1>2 DEF Marcar, Tocan
      <4>2. edad' = [edad EXCEPT !.salud = 0] /\ marcas' \in {marcas, Marcar}
            /\ avisado' \in {avisado, avisado \cup Tocan}
        BY <1>1, <1>2, <1>5, <3>2, SMTT(40) DEF chequearSalud
      <4> QED
        <5>1. edad' \in Edades
          BY <4>2, <1>1, <1>2
        <5> QED
          BY <5>1, <4>1, <4>2, <1>1
    <3>3. edad.salud \in 0..(Hora + 1)
      BY <1>1
    <3>4. edad.salud <= Hora \/ edad.salud > Hora
      BY <3>3, <1>2
    <3>5. edad.salud <= Hora => UNCHANGED bucle
      BY <1>5 DEF chequearSalud
    <3> QED
      BY <3>1, <3>2, <3>4, <3>5
  <2>2. UNCHANGED copias
    BY <1>5 DEF chequearSalud, bucle
  <2> QED
    BY <2>1, <2>2, <1>1, <1>5 DEF chequearSalud, entorno, TypeOKCuidados
<1>6. CASE SinRespaldo
  BY <1>1, <1>6 DEF SinRespaldo, bucle, entorno, TypeOKCuidados
<1>7. CASE respaldarBD
  <2>1. /\ copias' \in Seq({"entera", "a_medias"}) /\ Len(copias') <= Conservar
        /\ Len(copias') \in Nat
    BY <1>7, RespaldarBien
  <2>2. Len(copias') <= Conservar + fallosCu
    BY <2>1, <1>1, <1>2
  <2>3. edad' \in Edades
    BY <1>1, <1>2, <1>7 DEF respaldarBD
  <2> QED
    BY <2>1, <2>2, <2>3, <1>1, <1>7 DEF respaldarBD, entorno, TypeOKCuidados
<1>8. CASE respaldarFalla
  <2>1. /\ copias' \in Seq({"entera", "a_medias"}) /\ fallosCu' \in 0..MaxFallos
        /\ Len(copias') <= Conservar + fallosCu'
    BY <1>8, UnaMas DEF respaldarFalla
  <2> QED
    BY <2>1, <1>1, <1>8 DEF respaldarFalla, entorno, TypeOKCuidados
<1>9. CASE Reinicio
  <2>1. /\ copias' \in Seq({"entera", "a_medias"}) /\ fallosCu' \in 0..MaxFallos
        /\ Len(copias') <= Conservar + fallosCu'
    BY <1>9, UnaMas DEF Reinicio
  <2>2. edad' \in Edades
    BY <1>1, <1>2, <1>9 DEF Reinicio
  <2> QED
    BY <2>1, <2>2, <1>1, <1>9 DEF Reinicio, entorno, TypeOKCuidados
<1>10. CASE PasarTiempo
  <2>1. edad' \in Edades
    BY <1>1, <1>2, <1>10, ElReloj DEF PasarTiempo
  <2>2. marcas' \in [Problema -> 0..Dia]
    BY <1>1, <1>2, <1>10, ElReloj DEF PasarTiempo
  <2> QED
    BY <2>1, <2>2, <1>1, <1>10 DEF PasarTiempo, entorno, TypeOKCuidados
<1>11. ASSUME NEW p \in Problema, CambiarProblema(p) PROVE TypeOKCuidados'
  <2>1. problemas' \subseteq Problema /\ avisado' \subseteq problemas'
    BY <1>1, <1>11 DEF CambiarProblema
  <2>2. cambiosCu' \in 0..MaxVaivenes
    BY <1>1, <1>2, <1>11 DEF CambiarProblema
  <2> QED
    BY <2>1, <2>2, <1>1, <1>11 DEF CambiarProblema, TypeOKCuidados
<1>12. ASSUME NEW c \in Canales, CambiarCanal(c) PROVE TypeOKCuidados'
  <2>1. cambiosCu' \in 0..MaxVaivenes
    BY <1>1, <1>2, <1>12 DEF CambiarCanal
  <2> QED
    BY <2>1, <1>1, <1>12 DEF CambiarCanal, bucle, TypeOKCuidados
<1>13. CASE UNCHANGED varsCuidados
  BY <1>1, <1>13 DEF varsCuidados, TypeOKCuidados
<1> QED
  BY <1>3, <1>4, <1>5, <1>6, <1>7, <1>8, <1>9, <1>10, <1>11, <1>12, <1>13
     DEF NextCuidados, Vuelta

\* What QuedaLaBuena says of one step.
BuenPaso ==
    /\ HayEntera(copias) => HayEntera(copias')
    /\ (edad'.copia = 0 /\ edad.copia # 0) => copias'[Len(copias')] = "entera"

\* Each step, whatever it fails at, leaves a whole copy if there was one, and
\* notes a copy only when the last one is whole.
LEMMA PasoConCopia == TypeOKCuidados /\ [NextCuidados]_varsCuidados => [BuenPaso]_varsCuidados
<1> SUFFICES ASSUME TypeOKCuidados, NextCuidados
             PROVE  BuenPaso
  BY DEF BuenPaso
<1>1. /\ edad \in [salud : 0..Hora + 1, respaldo : 0..Dia, resumen : 0..Cadencia, copia : 0..Dia]
      /\ Dia \in Nat
  BY CuidadosAssumption DEF TypeOKCuidados
<1>2. ASSUME UNCHANGED copias, edad'.copia = edad.copia PROVE BuenPaso
  BY <1>2 DEF BuenPaso
<1>3. CASE enviarResumen
  <2>1. UNCHANGED copias /\ edad'.copia = edad.copia
    BY <1>1, <1>3 DEF enviarResumen
  <2> QED
    BY <2>1, <1>2
<1>4. CASE resumenFalla \/ SinRespaldo
  BY <1>4, <1>2 DEF resumenFalla, SinRespaldo, bucle
<1>5. CASE chequearSalud
  <2>1. UNCHANGED copias /\ edad'.copia = edad.copia
    BY <1>1, <1>5 DEF chequearSalud, bucle
  <2> QED
    BY <2>1, <1>2
<1>6. CASE respaldarBD
  BY <1>6, RespaldarBien DEF BuenPaso
<1>7. CASE respaldarFalla
  <2>1. HayEntera(copias) => HayEntera(copias')
    BY <1>7, UnaMas DEF respaldarFalla
  <2> QED
    BY <2>1, <1>7 DEF respaldarFalla, BuenPaso
<1>8. CASE Reinicio
  <2>1. HayEntera(copias) => HayEntera(copias')
    BY <1>8, UnaMas DEF Reinicio
  <2>2. edad'.copia = edad.copia
    BY <1>1, <1>8 DEF Reinicio
  <2> QED
    BY <2>1, <2>2 DEF BuenPaso
<1>9. CASE PasarTiempo
  <2>1. edad'.copia = Mas(edad.copia, Dia) /\ UNCHANGED copias
    BY <1>9 DEF PasarTiempo
  <2>2. edad'.copia = 0 => edad.copia = 0
    BY <2>1, <1>1, ElReloj
  <2> QED
    BY <2>1, <2>2 DEF BuenPaso
<1>10. ASSUME NEW p \in Problema, CambiarProblema(p) PROVE BuenPaso
  BY <1>10, <1>2 DEF CambiarProblema
<1>11. ASSUME NEW c \in Canales, CambiarCanal(c) PROVE BuenPaso
  BY <1>11, <1>2 DEF CambiarCanal, bucle
<1> QED
  BY <1>3, <1>4, <1>5, <1>6, <1>7, <1>8, <1>9, <1>10, <1>11 DEF NextCuidados, Vuelta

\* QuedaLaBuena, in every execution: no failure of VACUUM INTO, no rotation and
\* no restart takes the last whole copy away, and the time noted in the
\* database is that of a copy that is there (respaldarBD, rotarRespaldos).
THEOREM SiempreQuedaUna == SpecCuidados => QuedaLaBuena
<1>1. InitCuidados => TypeOKCuidados
  BY InicioCuidados
<1>2. TypeOKCuidados /\ [NextCuidados]_varsCuidados => TypeOKCuidados'
  BY PasoCuidados
<1>3. TypeOKCuidados /\ [NextCuidados]_varsCuidados => [BuenPaso]_varsCuidados
  BY PasoConCopia
<1>4. QuedaLaBuena <=> [][BuenPaso]_varsCuidados
  BY DEF QuedaLaBuena, BuenPaso
<1> QED
  BY <1>1, <1>2, <1>3, <1>4, PTL DEF SpecCuidados

-----------------------------------------------------------------------------
(* The four together.                                                      *)

\* A step of MCLazos is a step of one of the loops and none of the others.
LEMMA PasoDeUnLazo ==
    ASSUME [NextLazos]_varsLazos
    PROVE  /\ [NextAprendiz]_varsAprendiz /\ [NextNarrativas]_varsNarrativas
           /\ [NextEstado]_varsEstado /\ [NextCuidados]_varsCuidados
<1>1. CASE UNCHANGED varsLazos
  BY <1>1 DEF varsLazos
<1>2. CASE parte = "aprendiz" /\ NextAprendiz /\ Quietas
  BY <1>2 DEF Quietas
<1>3. CASE parte = "narrativas" /\ NextNarrativas /\ Quietas
  BY <1>3 DEF Quietas
<1>4. CASE parte = "estado" /\ NextEstado /\ Quietas
  BY <1>4 DEF Quietas
<1>5. CASE parte = "cuidados" /\ NextCuidados /\ Quietas
  BY <1>5 DEF Quietas
<1> QED
  BY <1>1, <1>2, <1>3, <1>4, <1>5 DEF NextLazos

\* TiposDeLosLazos, in every execution: the inductive invariants of the learner
\* and the narratives and the types of the caches and of the maintenance loop.
THEOREM LosLazosSeTienen == SpecLazos => []TiposDeLosLazos
<1>1. InitLazos => TiposDeLosLazos
  BY InicioAprendiz, InicioNarrativas, InicioEstado, InicioCuidados
     DEF InitLazos, TiposDeLosLazos
<1>2. TiposDeLosLazos /\ [NextLazos]_varsLazos => TiposDeLosLazos'
  BY PasoDeUnLazo, PasoAprendiz, PasoNarrativas, PasoEstado, PasoCuidados
     DEF TiposDeLosLazos
<1> QED
  BY <1>1, <1>2, PTL DEF SpecLazos
=============================================================================
