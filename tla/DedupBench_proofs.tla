-------------------------- MODULE DedupBench_proofs --------------------------
(***************************************************************************)
(* Theorems about DedupBench, for any versions, chunkers and number of      *)
(* starts.                                                                  *)
(*                                                                         *)
(* The preparation: the file names are all that a later start knows of an   *)
(* earlier one, so what a statement may take for granted is what the ones   *)
(* before it checked in the same start (StepsOK).                           *)
(*                                                                         *)
(* The analysis: between its mark and the next one the references of a file *)
(* name unique chunks that cover it exactly as far as the scan has come     *)
(* (AInv).  What the folds of the model compute is proved by induction on   *)
(* the prefixes of the sequence (FoldIsDefined, PrefixInduction).           *)
(*                                                                         *)
(* The savings: a file is cut where its bytes say, so the chunks of a file  *)
(* met before are known when it is met again (BInv).                        *)
(***************************************************************************)
EXTENDS DedupBench, FiniteSetTheorems, SequenceTheorems, WellFoundedInduction, TLAPS

Labels == {"parado", "baixar_somas", "somas", "baixar", "baixando", "conferir", "arv", "tar",
           "empacotando", "apagar", "manifesto", "escrevendo"}
Partes == {"none", "part", "whole"}

\* The variables of the preparation keep their types.
PrepTypeOK ==
    /\ disco \in [Vers -> [dl : Partes, arv : BOOLEAN, tar : Partes, man : Partes]]
    /\ prep \in [ver : Vers, at : Labels] \cup {Parado}
    /\ prep.at = "parado" => prep = Parado

Conferido == {"arv", "tar", "empacotando", "apagar", "manifesto", "escrevendo"}
Fechado == {"apagar", "manifesto", "escrevendo"}

\* Behind the comparison of the sums the archive is the expected one, and behind the
\* closing of the tar the tar is whole.
StepsOK ==
    /\ prep.at \in Conferido => disco[prep.ver].dl = "whole"
    /\ prep.at \in Fechado => disco[prep.ver].tar = "whole"

IInv == PrepTypeOK /\ StepsOK /\ PreparedIsGenuine

----------------------------------------------------------------------------
LEMMA InitIInv == Init => IInv
BY DEF Init, IInv, PrepTypeOK, StepsOK, PreparedIsGenuine, Novo, Parado, Partes, Labels, Vers,
       Conferido, Fechado

\* A statement of preparar_versao that leaves the files alone.
LEMMA GoKeeps ==
    ASSUME IInv, UNCHANGED disco,
           \/ prep' = Parado
           \/ prep' \in [ver : Vers, at : Labels \ (Conferido \cup {"parado"})]
    PROVE  IInv'
<1>1. PrepTypeOK'
  BY DEF IInv, PrepTypeOK, Parado
<1>2. StepsOK'
  BY DEF StepsOK, Parado, Conferido, Fechado
<1>3. PreparedIsGenuine'
  BY DEF IInv, PreparedIsGenuine
<1> QED
  BY <1>1, <1>2, <1>3 DEF IInv

\* Each start and each statement keeps the invariant.
LEMMA PrepareKeeps ==
    ASSUME IInv, fase_preparar
    PROVE  IInv'
<1> USE DEF Em, Vai, Poe, Erro, Rest, Labels, Partes, Conferido, Fechado
<1>1. CASE Iniciar \/ BaixarSomas \/ SomasChegam \/ Somas \/ Interrompe
  <2>1. UNCHANGED disco
    BY <1>1 DEF Iniciar, BaixarSomas, SomasChegam, Somas, Interrompe
  <2>2. \/ prep' = Parado
        \/ prep' \in [ver : Vers, at : Labels \ (Conferido \cup {"parado"})]
        \/ prep' = prep
    <3>1. CASE Iniciar
      BY <3>1 DEF Iniciar, Vers
    <3>2. CASE SomasChegam \/ Somas
      <4>1. prep \in [ver : Vers, at : Labels]
        BY <3>2 DEF IInv, PrepTypeOK, Parado, SomasChegam, Somas
      <4> QED
        BY <3>2, <4>1 DEF SomasChegam, Somas
    <3> QED
      BY <1>1, <3>1, <3>2 DEF BaixarSomas, Interrompe
  <2>3. CASE prep' = prep
    BY <2>1, <2>3 DEF IInv, PrepTypeOK, StepsOK, PreparedIsGenuine
  <2> QED
    BY <2>1, <2>2, <2>3, GoKeeps
<1>2. CASE Baixar \/ Baixado \/ Conferir \/ Extrair \/ Empacotar \/ Empacotado \/ Apagar \/ Manifesto
           \/ Escrito
  <2>1. prep \in [ver : Vers, at : Labels] /\ prep.ver \in Vers
    BY <1>2 DEF IInv, PrepTypeOK, Parado, Baixar, Baixado, Conferir, Extrair, Empacotar, Empacotado,
                Apagar, Manifesto, Escrito
  <2>2. PrepTypeOK'
    <3>1. \A campo \in {"dl", "tar", "man"}, x \in Partes : Poe(campo, x) =>
              disco' \in [Vers -> [dl : Partes, arv : BOOLEAN, tar : Partes, man : Partes]]
      BY <2>1 DEF IInv, PrepTypeOK
    <3>2. \A x \in BOOLEAN : Poe("arv", x) =>
              disco' \in [Vers -> [dl : Partes, arv : BOOLEAN, tar : Partes, man : Partes]]
      BY <2>1 DEF IInv, PrepTypeOK
    <3>3. disco' \in [Vers -> [dl : Partes, arv : BOOLEAN, tar : Partes, man : Partes]]
      <4> HIDE DEF Poe
      <4>1. CASE Baixar \/ Baixado \/ Conferir
        BY <4>1, <3>1 DEF IInv, PrepTypeOK, Baixar, Baixado, Conferir
      <4>2. CASE Extrair \/ Apagar
        BY <4>2, <3>2 DEF IInv, PrepTypeOK, Extrair, Apagar
      <4>3. CASE Empacotar \/ Empacotado \/ Manifesto \/ Escrito
        BY <4>3, <3>1 DEF IInv, PrepTypeOK, Empacotar, Empacotado, Manifesto, Escrito
      <4> QED
        BY <1>2, <4>1, <4>2, <4>3
    <3>4. \/ prep' = Parado
          \/ prep' \in [ver : Vers, at : Labels \ {"parado"}]
      <4>1. CASE Escrito
        BY <4>1, <2>1 DEF Escrito, Vers
      <4>2. CASE Baixar \/ Baixado \/ Conferir \/ Extrair
        BY <4>2, <2>1 DEF Baixar, Baixado, Conferir, Extrair
      <4>3. CASE Empacotar \/ Empacotado \/ Apagar \/ Manifesto
        BY <4>3, <2>1 DEF Empacotar, Empacotado, Apagar, Manifesto
      <4> QED
        BY <1>2, <4>1, <4>2, <4>3
    <3> QED
      BY <3>3, <3>4 DEF PrepTypeOK, Parado
  <2>3. StepsOK'
    BY <1>2, <2>1 DEF IInv, PrepTypeOK, StepsOK, Parado, Baixar, Baixado, Conferir, Extrair,
                      Empacotar, Empacotado, Apagar, Manifesto, Escrito
  <2>4. PreparedIsGenuine'
    BY <1>2, <2>1 DEF IInv, PrepTypeOK, StepsOK, PreparedIsGenuine, Baixar, Baixado, Conferir,
                      Extrair, Empacotar, Empacotado, Apagar, Manifesto, Escrito
  <2> QED
    BY <2>2, <2>3, <2>4 DEF IInv
<1> QED
  BY <1>1, <1>2 DEF fase_preparar

LEMMA StepIInv == IInv /\ [Next]_vars => IInv'
<1> SUFFICES ASSUME IInv, [Next]_vars PROVE IInv'
  OBVIOUS
<1>1. CASE UNCHANGED <<disco, prep>>
  BY <1>1 DEF IInv, PrepTypeOK, StepsOK, PreparedIsGenuine
<1>2. CASE varrer_chunks
  BY <1>1, <1>2 DEF varrer_chunks, AbrirItem, Chunk, ProximoItem, ProximaVersao, Reconstruir
<1>3. ASSUME NEW tipo \in {"arvore", "tar"}, NEW cfg \in Chunkers, Analisar(tipo, cfg) PROVE IInv'
  BY <1>1, <1>3 DEF Analisar
<1> QED
  BY <1>1, <1>2, <1>3, PrepareKeeps DEF Next, vars

\* What the analysis reads was made from a whole, checked archive, however often the
\* preparation was killed and started again (dedup.py: preparar_versao).
THEOREM PreparedVersionsAreGenuine == Spec => []PreparedIsGenuine
<1>1. IInv => PreparedIsGenuine
  BY DEF IInv
<1> QED
  BY <1>1, InitIInv, StepIInv, PTL DEF Spec

\* The statements find the files of the disk in one of the states they test for.
THEOREM PreparationTypes == Spec => []PrepTypeOK
<1>1. IInv => PrepTypeOK
  BY DEF IInv
<1> QED
  BY <1>1, InitIInv, StepIInv, PTL DEF Spec

----------------------------------------------------------------------------
(***************************************************************************)
(* Induction. The library's theorems of induction take an operator; a set   *)
(* of numbers says the same, and a set can be a parameter of a lemma.       *)
(***************************************************************************)
\* A set of naturals has a least one.
LEMMA LeastNatural ==
    ASSUME NEW T, T \subseteq Nat, T # {}
    PROVE  \E x \in T : \A y \in T : x <= y
<1> DEFINE R == {p \in Nat \X Nat : p[1] < p[2]}
<1>1. IsWellFoundedOn(R, Nat)
  BY NatLessThanWellFounded DEF OpToRel
<1> HIDE DEF R
<1>2. PICK x \in T : \A y \in T : ~ (<<y, x>> \in R)
  BY <1>1, WFMin
<1>3. \A y \in T : x \in Nat /\ y \in Nat /\ (y < x => <<y, x>> \in R)
  BY DEF R
<1>4. \A y \in T : ~(y < x) /\ x \in Nat /\ y \in Nat
  BY <1>2, <1>3
<1> QED
  BY <1>4

LEMMA SetInduction ==
    ASSUME NEW S, 0 \in S, \A n \in Nat : n \in S => n + 1 \in S
    PROVE  Nat \subseteq S
<1> SUFFICES ASSUME Nat \ S # {} PROVE FALSE
  OBVIOUS
<1>1. PICK x \in Nat \ S : \A y \in Nat \ S : x <= y
  BY LeastNatural
<1>2. x # 0 /\ x - 1 \in Nat /\ ~(x <= x - 1) /\ (x - 1) + 1 = x
  BY <1>1
<1> QED
  BY <1>1, <1>2

LEMMA MaxOf ==
    ASSUME NEW n \in Nat, NEW ss \in SUBSET (1..n), ss # {}
    PROVE  /\ Max(ss) \in ss
           /\ \A m \in ss : (\A y \in ss : y <= m) => Max(ss) = m
<1>1. \E x \in ss : \A y \in ss : x >= y
  <2> DEFINE T == {k \in Nat : \A y \in ss : y <= k}
  <2>1. n \in T
    OBVIOUS
  <2>2. PICK k \in T : \A y \in T : k <= y
    <3> HIDE DEF T
    <3>1. T \subseteq Nat /\ T # {}
      BY <2>1 DEF T
    <3> QED
      BY <3>1, LeastNatural
  <2>3. k \in ss
    <3> SUFFICES ASSUME k \notin ss PROVE FALSE
      OBVIOUS
    <3>0. PICK z \in ss : TRUE
      OBVIOUS
    <3>1. k # 0 /\ k \in Nat
      <4>1. z \in Nat /\ z >= 1 /\ z <= k /\ k \in Nat
        BY <2>2, <3>0
      <4> QED
        BY <4>1
    <3>2. k - 1 \in Nat /\ \A y \in ss : y <= k - 1
      BY <2>2, <3>1
    <3> QED
      BY <2>2, <3>1, <3>2
  <2> QED
    BY <2>2, <2>3
<1>2. Max(ss) \in ss /\ \A y \in ss : Max(ss) >= y
  BY <1>1 DEF Max
<1>3. ASSUME NEW m \in ss, \A y \in ss : y <= m PROVE Max(ss) = m
  <2>0. m \in 1..n /\ Max(ss) \in 1..n
    BY <1>2
  <2>1. Max(ss) <= m /\ Max(ss) >= m
    BY <1>2, <1>3
  <2> QED
    BY <2>0, <2>1
<1> QED
  BY <1>2, <1>3

LEMMA MaxOfPrefix ==
    ASSUME NEW m \in Nat
    PROVE  Max(1..(m + 1)) = m + 1 /\ (1..(m + 1)) \ {m + 1} = 1..m /\ 1..0 = {} /\ 1..(m + 1) # {}
<1>1. m + 1 \in 1..(m + 1) /\ \A y \in 1..(m + 1) : y <= m + 1
  OBVIOUS
<1>2. Max(1..(m + 1)) = m + 1
  <2>1. m + 1 \in Nat /\ 1..(m + 1) # {}
    BY <1>1
  <2> QED
    BY <1>1, <2>1, MaxOf
<1> QED
  BY <1>1, <1>2

\* Op[<<a, i>>]: the value a, after element i.
Passos(g, b, Op, n) ==
    g = [ss \in SUBSET (1..n) |-> IF ss = {} THEN b ELSE Op[<<g[ss \ {Max(ss)}], Max(ss)>>]]

LEMMA FoldIsDefined ==
    ASSUME NEW A, NEW b \in A, NEW n \in Nat, NEW Op \in [A \X (1..n) -> A]
    PROVE  \E g \in [SUBSET (1..n) -> A] : Passos(g, b, Op, n)
<1> DEFINE P(k) == k <= n => \E g \in [SUBSET (1..k) -> A] : Passos(g, b, Op, k)
           S == {k \in Nat : P(k)}
<1>1. P(0)
  <2> DEFINE g == [ss \in SUBSET (1..0) |-> b]
  <2>1. SUBSET (1..0) = {{}}
    OBVIOUS
  <2>2. g \in [SUBSET (1..0) -> A] /\ Passos(g, b, Op, 0)
    BY <2>1 DEF Passos
  <2> QED
    BY <2>2
<1>2. ASSUME NEW k \in Nat, P(k) PROVE P(k + 1)
  <2> SUFFICES ASSUME k + 1 <= n
               PROVE  \E h \in [SUBSET (1..(k + 1)) -> A] : Passos(h, b, Op, k + 1)
    OBVIOUS
  <2>0. k <= n
    OBVIOUS
  <2>1. PICK g \in [SUBSET (1..k) -> A] : Passos(g, b, Op, k)
    BY <1>2, <2>0, Zenon
  <2> DEFINE D == SUBSET (1..(k + 1))
             h == [ss \in D |-> IF k + 1 \in ss THEN Op[<<g[ss \ {k + 1}], k + 1>>] ELSE g[ss]]
  <2>2. \A ss \in D : /\ k + 1 \in ss => ss \ {k + 1} \in SUBSET (1..k) /\ Max(ss) = k + 1
                      /\ k + 1 \notin ss => ss \in SUBSET (1..k)
    <3> SUFFICES ASSUME NEW ss \in D
                 PROVE  /\ k + 1 \in ss => ss \ {k + 1} \in SUBSET (1..k) /\ Max(ss) = k + 1
                        /\ k + 1 \notin ss => ss \in SUBSET (1..k)
      OBVIOUS
    <3>1. k + 1 \in ss => Max(ss) = k + 1
      <4>1. \A y \in ss : y <= k + 1
        OBVIOUS
      <4>2. k + 1 \in Nat
        OBVIOUS
      <4> QED
        BY <4>1, <4>2, MaxOf
    <3>2. ss \subseteq (1..k) \cup {k + 1}
      OBVIOUS
    <3> QED
      BY <3>1, <3>2
  <2>3. \A a \in A : <<a, k + 1>> \in A \X (1..n)
    OBVIOUS
  <2>4. h \in [D -> A]
    BY <2>1, <2>2, <2>3
  <2>5. ASSUME NEW ss \in D
        PROVE  h[ss] = IF ss = {} THEN b ELSE Op[<<h[ss \ {Max(ss)}], Max(ss)>>]
    <3>1. CASE k + 1 \in ss
      <4>1. ss \ {k + 1} \in D /\ k + 1 \notin ss \ {k + 1} /\ ss # {} /\ Max(ss) = k + 1
        BY <2>2, <3>1
      <4>2. h[ss \ {k + 1}] = g[ss \ {k + 1}]
        BY <4>1
      <4> QED
        BY <3>1, <4>1, <4>2
    <3>2. CASE k + 1 \notin ss
      <4>1. ss \in SUBSET (1..k)
        BY <2>2, <3>2
      <4>2. g[ss] = IF ss = {} THEN b ELSE Op[<<g[ss \ {Max(ss)}], Max(ss)>>]
        BY <2>1, <4>1 DEF Passos
      <4>3. h[ss] = g[ss] /\ h[ss \ {Max(ss)}] = g[ss \ {Max(ss)}]
        <5>1. ss \ {Max(ss)} \in D /\ k + 1 \notin ss \ {Max(ss)}
          BY <3>2
        <5> QED
          BY <3>2, <5>1
      <4> QED
        BY <4>2, <4>3
    <3> QED
      BY <3>1, <3>2
  <2> HIDE DEF h
  <2>6. Passos(h, b, Op, k + 1)
    BY <2>4, <2>5 DEF Passos
  <2> QED
    BY <2>4, <2>6
<1> HIDE DEF P
<1>3. n \in S
  <2>1. 0 \in S /\ \A k \in Nat : k \in S => k + 1 \in S
    BY <1>1, <1>2
  <2> HIDE DEF S
  <2> QED
    BY <2>1, SetInduction
<1> QED
  <2>1. P(n) /\ n <= n
    BY <1>3
  <2> QED
    BY <2>1, Zenon DEF P

\* What a fold of op computes, when op is Op on A.
LEMMA FoldSteps ==
    ASSUME NEW A, NEW b \in A, NEW n \in Nat, NEW Op \in [A \X (1..n) -> A],
           NEW g, Passos(g, b, Op, n)
    PROVE  /\ g[1..0] = b
           /\ \A m \in 0..(n - 1) : g[1..(m + 1)] = Op[<<g[1..m], m + 1>>]
<1>1. g[1..0] = b
  <2>1. 1..0 = {} /\ {} \in SUBSET (1..n)
    OBVIOUS
  <2> QED
    BY <2>1 DEF Passos
<1>2. ASSUME NEW m \in 0..(n - 1) PROVE g[1..(m + 1)] = Op[<<g[1..m], m + 1>>]
  <2>1. 1..(m + 1) \in SUBSET (1..n) /\ m \in Nat
    OBVIOUS
  <2>2. Max(1..(m + 1)) = m + 1 /\ (1..(m + 1)) \ {m + 1} = 1..m /\ 1..(m + 1) # {}
    BY <2>1, MaxOfPrefix
  <2> QED
    BY <2>1, <2>2 DEF Passos
<1> QED
  BY <1>1, <1>2

LEMMA PrefixInduction ==
    ASSUME NEW n \in Nat, NEW S, 0 \in S, \A m \in 0..(n - 1) : m \in S => m + 1 \in S
    PROVE  0..n \subseteq S
<1> DEFINE T == {k \in Nat : k <= n => k \in S}
<1>1. 0 \in T
  OBVIOUS
<1>2. \A k \in Nat : k \in T => k + 1 \in T
  OBVIOUS
<1> HIDE DEF T
<1>3. Nat \subseteq T
  BY <1>1, <1>2, SetInduction
<1> QED
  BY <1>3 DEF T

----------------------------------------------------------------------------
(***************************************************************************)
(* Files and the sizes of chunks.                                          *)
(***************************************************************************)
LEMMA FilesFold ==
    ASSUME NEW f \in Seq(Arquivo)
    PROVE  Cheios(f) \in Seq(Arquivo)
<1> DEFINE n == Len(f)
           T(g) == [ss \in SUBSET DOMAIN f |->
                     IF ss = {} THEN <<>>
                     ELSE IF f[Max(ss)].s = <<>> THEN g[ss \ {Max(ss)}]
                          ELSE Append(g[ss \ {Max(ss)}], f[Max(ss)])]
           g == CHOOSE g : g = T(g)
           Op == [p \in Seq(Arquivo) \X (1..n) |->
                     IF f[p[2]].s = <<>> THEN p[1] ELSE Append(p[1], f[p[2]])]
<1>0. n \in Nat /\ DOMAIN f = 1..n /\ (\A i \in 1..n : f[i] \in Arquivo) /\ <<>> \in Seq(Arquivo)
  OBVIOUS
<1>1. Op \in [Seq(Arquivo) \X (1..n) -> Seq(Arquivo)]
  BY <1>0
<1>2. PICK h \in [SUBSET (1..n) -> Seq(Arquivo)] : Passos(h, <<>>, Op, n)
  <2> HIDE DEF Op
  <2> QED
    BY <1>0, <1>1, FoldIsDefined
<1>3. h = T(h)
  <2>1. ASSUME NEW ss \in SUBSET (1..n), ss # {}
        PROVE  Op[<<h[ss \ {Max(ss)}], Max(ss)>>]
                 = IF f[Max(ss)].s = <<>> THEN h[ss \ {Max(ss)}]
                   ELSE Append(h[ss \ {Max(ss)}], f[Max(ss)])
    <3>1. Max(ss) \in 1..n
      BY <1>0, <2>1, MaxOf
    <3>2. h[ss \ {Max(ss)}] \in Seq(Arquivo)
      OBVIOUS
    <3> QED
      BY <3>1, <3>2
  <2>2. h = [ss \in SUBSET (1..n) |-> IF ss = {} THEN <<>> ELSE Op[<<h[ss \ {Max(ss)}], Max(ss)>>]]
    BY <1>2, Zenon DEF Passos
  <2> HIDE DEF Op, n
  <2> QED
    BY <1>0, <2>1, <2>2
<1>4. Cheios(f) = g[DOMAIN f]
  BY Zenon DEF Cheios, FoldLeft, MapThenFoldSet
<1>5. g = T(g)
  <2>1. \E y : y = T(y)
    BY <1>3
  <2> HIDE DEF T
  <2> QED
    BY <2>1
<1> HIDE DEF g, n
<1> DEFINE S == {m \in 0..n : g[1..m] \in Seq(Arquivo)}
<1>6. 0 \in S
  <2>1. 1..0 = {} /\ {} \in SUBSET (1..n)
    OBVIOUS
  <2>2. g[1..0] = <<>>
    BY <1>0, <1>5, <2>1
  <2>3. 0 \in 0..n
    BY <1>0
  <2> QED
    BY <1>0, <2>2, <2>3, Zenon
<1>7. ASSUME NEW m \in 0..(n - 1), m \in S PROVE m + 1 \in S
  <2>1. 1..(m + 1) \in SUBSET (1..n) /\ m \in Nat /\ m + 1 \in 1..n /\ m + 1 \in 0..n
    BY <1>0
  <2>2. Max(1..(m + 1)) = m + 1 /\ (1..(m + 1)) \ {m + 1} = 1..m /\ 1..(m + 1) # {}
    BY <2>1, MaxOfPrefix
  <2>3. g[1..(m + 1)] = IF f[m + 1].s = <<>> THEN g[1..m] ELSE Append(g[1..m], f[m + 1])
    BY <1>0, <1>5, <2>1, <2>2
  <2>4. f[m + 1] \in Arquivo /\ g[1..m] \in Seq(Arquivo)
    BY <1>0, <1>7, <2>1
  <2>5. g[1..(m + 1)] \in Seq(Arquivo)
    BY <2>3, <2>4
  <2> QED
    BY <2>1, <2>5
<1>8. n \in S
  <2> HIDE DEF S
  <2>1. 0..n \subseteq S
    BY <1>0, <1>6, <1>7, PrefixInduction
  <2> QED
    BY <1>0, <2>1
<1> QED
  BY <1>0, <1>4, <1>8

LEMMA TarFold ==
    ASSUME NEW f \in Seq(Arquivo)
    PROVE  (LET junta(acc, x) == acc \o <<x.c>> \o x.s
            IN  FoldLeft(junta, <<>>, f)) \in Seq(Nat)
<1> DEFINE n == Len(f)
           T(g) == [ss \in SUBSET DOMAIN f |->
                     IF ss = {} THEN <<>>
                     ELSE g[ss \ {Max(ss)}] \o <<f[Max(ss)].c>> \o f[Max(ss)].s]
           g == CHOOSE g : g = T(g)
           Op == [p \in Seq(Nat) \X (1..n) |-> p[1] \o <<f[p[2]].c>> \o f[p[2]].s]
<1>0. /\ n \in Nat /\ DOMAIN f = 1..n /\ <<>> \in Seq(Nat)
      /\ \A i \in 1..n : f[i].c \in Nat /\ f[i].s \in Seq(Nat)
  <2>1. \A i \in 1..Len(f) : f[i] \in Arquivo
    OBVIOUS
  <2> QED
    BY <2>1 DEF Arquivo
<1>1. Op \in [Seq(Nat) \X (1..n) -> Seq(Nat)]
  BY <1>0
<1>2. PICK h \in [SUBSET (1..n) -> Seq(Nat)] : Passos(h, <<>>, Op, n)
  <2> HIDE DEF Op
  <2> QED
    BY <1>0, <1>1, FoldIsDefined
<1>3. h = T(h)
  <2>1. ASSUME NEW ss \in SUBSET (1..n), ss # {}
        PROVE  Op[<<h[ss \ {Max(ss)}], Max(ss)>>]
                 = h[ss \ {Max(ss)}] \o <<f[Max(ss)].c>> \o f[Max(ss)].s
    <3>1. Max(ss) \in 1..n
      BY <1>0, <2>1, MaxOf
    <3>2. h[ss \ {Max(ss)}] \in Seq(Nat)
      OBVIOUS
    <3> QED
      BY <3>1, <3>2
  <2>2. h = [ss \in SUBSET (1..n) |-> IF ss = {} THEN <<>> ELSE Op[<<h[ss \ {Max(ss)}], Max(ss)>>]]
    BY <1>2, Zenon DEF Passos
  <2> HIDE DEF Op, n
  <2> QED
    BY <1>0, <2>1, <2>2
<1>4. (LET junta(acc, x) == acc \o <<x.c>> \o x.s IN FoldLeft(junta, <<>>, f)) = g[DOMAIN f]
  BY Zenon DEF FoldLeft, MapThenFoldSet
<1>5. g = T(g)
  <2>1. \E y : y = T(y)
    BY <1>3
  <2> HIDE DEF T
  <2> QED
    BY <2>1
<1> HIDE DEF g, n
<1> DEFINE S == {m \in 0..n : g[1..m] \in Seq(Nat)}
<1>6. 0 \in S
  <2>1. 1..0 = {} /\ {} \in SUBSET (1..n)
    OBVIOUS
  <2>2. g[1..0] = <<>>
    BY <1>0, <1>5, <2>1
  <2>3. 0 \in 0..n
    BY <1>0
  <2> QED
    BY <1>0, <2>2, <2>3, Zenon
<1>7. ASSUME NEW m \in 0..(n - 1), m \in S PROVE m + 1 \in S
  <2>1. 1..(m + 1) \in SUBSET (1..n) /\ m \in Nat /\ m + 1 \in 1..n /\ m + 1 \in 0..n
    BY <1>0
  <2>2. Max(1..(m + 1)) = m + 1 /\ (1..(m + 1)) \ {m + 1} = 1..m /\ 1..(m + 1) # {}
    BY <2>1, MaxOfPrefix
  <2>3. g[1..(m + 1)] = g[1..m] \o <<f[m + 1].c>> \o f[m + 1].s
    BY <1>0, <1>5, <2>1, <2>2
  <2>4. <<f[m + 1].c>> \in Seq(Nat) /\ f[m + 1].s \in Seq(Nat) /\ g[1..m] \in Seq(Nat)
    BY <1>0, <1>7, <2>1
  <2>5. g[1..(m + 1)] \in Seq(Nat)
    BY <2>3, <2>4
  <2> QED
    BY <2>1, <2>5
<1>8. n \in S
  <2> HIDE DEF S
  <2>1. 0..n \subseteq S
    BY <1>0, <1>6, <1>7, PrefixInduction
  <2> QED
    BY <1>0, <2>1
<1> QED
  BY <1>0, <1>4, <1>8

LEMMA FilesOfPair ==
    ASSUME NEW p \in Pares, NEW v \in Vers
    PROVE  Cheios(p[v]) \in Seq(Arquivo) /\ Pacote(p[v]) \in Seq(Arquivo)
<1>1. p[v] \in Seq(Arquivo)
  BY PairsAssumption DEF PairsAssumption
<1>2. Cheios(p[v]) \in Seq(Arquivo)
  BY <1>1, FilesFold
<1>3. Pacote(p[v]) \in Seq(Arquivo)
  <2> DEFINE s == LET junta(acc, x) == acc \o <<x.c>> \o x.s IN FoldLeft(junta, <<>>, p[v])
  <2>1. s \in Seq(Nat)
    BY <1>1, TarFold
  <2> HIDE DEF s
  <2>2. <<[c |-> 0, s |-> s]>> \in Seq(Arquivo)
    BY <2>1 DEF Arquivo
  <2> QED
    BY <2>2 DEF Pacote, s
<1> QED
  BY <1>2, <1>3

LEMMA ItemsAreFiles ==
    ASSUME par \in Pares, NEW v \in Vers
    PROVE  itens(v) \in Seq(Arquivo)
BY FilesOfPair DEF itens, Fonte

LEMMA LeastChunk ==
    ASSUME NEW cfg \in Chunkers
    PROVE  /\ minimo_de(cfg) \in Nat \ {0} /\ cfg.alvo \in Nat \ {0}
           /\ minimo_de(cfg) <= cfg.alvo * Fator /\ cfg.alvo * Fator \in Nat
<1> DEFINE a == cfg.alvo
           q == a \div Divisor
<1>1. a \in Nat /\ a >= Divisor /\ Divisor \in Nat \ {0} /\ Fator \in Nat \ {0}
  BY SizesAssumption DEF SizesAssumption
<1> HIDE DEF a
<1>2. q \in Int /\ a % Divisor \in 0..(Divisor - 1) /\ a = Divisor * q + (a % Divisor)
  BY <1>1
<1> HIDE DEF q
<1>3. q >= 1
  <2> SUFFICES ASSUME q <= 0 PROVE FALSE
    BY <1>2
  <2>1. Divisor * q <= 0
    BY <1>1, <1>2
  <2> QED
    BY <1>1, <1>2, <2>1
<1>4. q <= a
  <2>1. Divisor * q >= q
    BY <1>1, <1>2, <1>3
  <2> QED
    BY <1>1, <1>2, <2>1
<1>5. a * Fator >= a /\ a * Fator \in Nat
  BY <1>1
<1>6. q \in Nat \ {0} /\ a \in Nat \ {0} /\ q <= a * Fator
  BY <1>1, <1>2, <1>3, <1>4, <1>5
<1> QED
  BY <1>5, <1>6 DEF minimo_de, a, q

LEMMA MinIsIn ==
    ASSUME NEW T, T \subseteq Nat, T # {}
    PROVE  Min(T) \in T
<1>1. \E x \in T : \A y \in T : x <= y
  BY LeastNatural
<1> QED
  BY <1>1 DEF Min

\* A cut takes at least one byte, and no less than the minimum but at the end.
LEMMA ChunkSize ==
    ASSUME NEW cfg \in Chunkers, NEW buf \in Seq(Nat), NEW pos \in 0..(Len(buf) - 1)
    PROVE  /\ chunkear(buf, pos, cfg) \in 1..(Len(buf) - pos)
           /\ \/ cfg.tipo = "fixo"
              \/ chunkear(buf, pos, cfg) >= minimo_de(cfg)
              \/ chunkear(buf, pos, cfg) = Len(buf) - pos
<1> DEFINE minimo == minimo_de(cfg)
           maximo == cfg.alvo * Fator
           resto == Len(buf) - pos
           lim == Menor(resto, maximo)
<1>0. /\ minimo \in Nat \ {0} /\ cfg.alvo \in Nat \ {0} /\ minimo <= maximo /\ maximo \in Nat
      /\ resto \in Nat \ {0} /\ lim \in 1..resto /\ (resto >= minimo => lim >= minimo)
  BY LeastChunk DEF Menor
<1>1. CASE cfg.tipo = "fixo"
  BY <1>0, <1>1 DEF chunkear, Menor
<1>2. CASE cfg.tipo # "fixo"
  <2> DEFINE nor == Menor(cfg.alvo, lim)
             cortes == {i \in minimo..(lim - 1) :
                          Impressao(buf, pos, minimo, i) % (IF i < nor THEN 4 ELSE 2) = 0}
  <2>1. chunkear(buf, pos, cfg) = IF resto <= minimo THEN resto
                                  ELSE IF cortes = {} THEN lim ELSE Min(cortes) + 1
    BY <1>2 DEF chunkear, fastcdc_cortar
  <2>2. cortes # {} => Min(cortes) \in minimo..(lim - 1)
    <3>1. cortes \subseteq minimo..(lim - 1) /\ cortes \subseteq Nat
      BY <1>0
    <3> HIDE DEF cortes
    <3> QED
      BY <3>1, MinIsIn
  <2>3. chunkear(buf, pos, cfg) \in 1..resto
            /\ (chunkear(buf, pos, cfg) >= minimo \/ chunkear(buf, pos, cfg) = resto)
    <3> HIDE DEF cortes, lim, minimo, maximo, resto
    <3> QED
      BY <1>0, <2>1, <2>2
  <2> QED
    BY <2>3
<1> QED
  BY <1>1, <1>2

Juntos(us) == LET junta(acc, u) == acc \o Bytes(u) IN FoldLeft(junta, <<>>, us)

LEMMA PieceIsSeq ==
    ASSUME NEW s \in Seq(Nat), NEW b \in Nat, NEW e \in 0..Len(s)
    PROVE  SubSeq(s, b + 1, e) \in Seq(Nat)
<1>1. Len(s) \in Nat /\ \A k \in 1..Len(s) : s[k] \in Nat
  OBVIOUS
<1>2. \A k \in (b + 1)..e : s[k] \in Nat
  <2>1. \A k \in (b + 1)..e : k \in 1..Len(s)
    BY <1>1
  <2> QED
    BY <1>1, <2>1
<1> QED
  BY <1>1, <1>2, SubSeqProperties

\* The chunks us are the pieces of s between the n places where it is cut.
Pedacos(n, us, s, cut) ==
    /\ DOMAIN us = 1..n /\ cut \in [0..n -> 0..Len(s)] /\ cut[0] = 0
    /\ \A m \in 1..n : cut[m - 1] <= cut[m] /\ Bytes(us[m]) = SubSeq(s, cut[m - 1] + 1, cut[m])

\* The bytes of consecutive chunks, put together.
LEMMA ChunksJoin ==
    ASSUME NEW n \in Nat, NEW us, NEW s \in Seq(Nat), NEW cut, Pedacos(n, us, s, cut)
    PROVE  Juntos(us) = SubSeq(s, 1, cut[n])
<1> USE DEF Pedacos
<1> DEFINE T(g) == [ss \in SUBSET DOMAIN us |->
                     IF ss = {} THEN <<>> ELSE g[ss \ {Max(ss)}] \o Bytes(us[Max(ss)])]
           g == CHOOSE g : g = T(g)
           Op == [p \in Seq(Nat) \X (1..n) |-> p[1] \o Bytes(us[p[2]])]
<1>0. /\ <<>> \in Seq(Nat) /\ Len(s) \in Nat
      /\ \A m \in 1..n : Bytes(us[m]) \in Seq(Nat)
  <2> SUFFICES ASSUME NEW m \in 1..n PROVE Bytes(us[m]) \in Seq(Nat)
    OBVIOUS
  <2>1. cut[m] \in 0..Len(s) /\ cut[m - 1] \in 0..Len(s)
    OBVIOUS
  <2>2. cut[m - 1] \in Nat
    BY <2>1
  <2>3. SubSeq(s, cut[m - 1] + 1, cut[m]) \in Seq(Nat)
    BY <2>1, <2>2, PieceIsSeq
  <2> QED
    BY <2>3
<1>1. Op \in [Seq(Nat) \X (1..n) -> Seq(Nat)]
  <2>1. \A p \in Seq(Nat) \X (1..n) : p[1] \in Seq(Nat) /\ Bytes(us[p[2]]) \in Seq(Nat)
    BY <1>0
  <2>2. \A x, y \in Seq(Nat) : x \o y \in Seq(Nat)
    OBVIOUS
  <2> QED
    BY <2>1, <2>2
<1>2. PICK h \in [SUBSET (1..n) -> Seq(Nat)] : Passos(h, <<>>, Op, n)
  <2> HIDE DEF Op
  <2> QED
    BY <1>0, <1>1, FoldIsDefined
<1>3. h = T(h)
  <2>1. ASSUME NEW ss \in SUBSET (1..n), ss # {}
        PROVE  Op[<<h[ss \ {Max(ss)}], Max(ss)>>] = h[ss \ {Max(ss)}] \o Bytes(us[Max(ss)])
    <3>1. Max(ss) \in 1..n
      BY <2>1, MaxOf
    <3>2. h[ss \ {Max(ss)}] \in Seq(Nat)
      OBVIOUS
    <3> QED
      BY <3>1, <3>2
  <2>2. h = [ss \in SUBSET (1..n) |-> IF ss = {} THEN <<>> ELSE Op[<<h[ss \ {Max(ss)}], Max(ss)>>]]
    BY <1>2, Zenon DEF Passos
  <2> HIDE DEF Op
  <2> QED
    BY <2>1, <2>2
<1>4. Juntos(us) = g[DOMAIN us]
  BY Zenon DEF Juntos, FoldLeft, MapThenFoldSet
<1>5. g = T(g)
  <2>1. \E y : y = T(y)
    BY <1>3
  <2> HIDE DEF T
  <2> QED
    BY <2>1
<1> HIDE DEF g
<1> DEFINE S == {m \in 0..n : g[1..m] = SubSeq(s, 1, cut[m])}
<1>6. 0 \in S
  <2>1. 1..0 = {} /\ {} \in SUBSET (1..n)
    OBVIOUS
  <2>2. g[1..0] = <<>>
    BY <1>5, <2>1
  <2>3. SubSeq(s, 1, 0) = <<>>
    BY SubSeqEmpty
  <2>4. 0 \in 0..n
    OBVIOUS
  <2> QED
    BY <2>2, <2>3, <2>4, Zenon
<1>7. ASSUME NEW m \in 0..(n - 1), m \in S PROVE m + 1 \in S
  <2>1. 1..(m + 1) \in SUBSET (1..n) /\ m \in Nat /\ m + 1 \in 1..n /\ m + 1 \in 0..n /\ (m + 1) - 1 = m
    OBVIOUS
  <2>2. Max(1..(m + 1)) = m + 1 /\ (1..(m + 1)) \ {m + 1} = 1..m /\ 1..(m + 1) # {}
    BY <2>1, MaxOfPrefix
  <2>3. g[1..(m + 1)] = g[1..m] \o Bytes(us[m + 1])
    BY <1>5, <2>1, <2>2
  <2>4. g[1..m] = SubSeq(s, 1, cut[m]) /\ Bytes(us[m + 1]) = SubSeq(s, cut[m] + 1, cut[m + 1])
    BY <1>7, <2>1
  <2>5. cut[m] \in 0..Len(s) /\ cut[m + 1] \in cut[m]..Len(s) /\ 1 \in 1..(Len(s) + 1)
    BY <1>0, <2>1
  <2>6. SubSeq(s, 1, cut[m]) \o SubSeq(s, cut[m] + 1, cut[m + 1]) = SubSeq(s, 1, cut[m + 1])
    <3> DEFINE x == cut[m]
               y == cut[m + 1]
    <3>1. x \in (1 - 1)..Len(s) /\ y \in x..Len(s) /\ 1 \in 1..(Len(s) + 1)
      BY <1>0, <2>5
    <3> HIDE DEF x, y
    <3>2. SubSeq(s, 1, x) \o SubSeq(s, x + 1, y) = SubSeq(s, 1, y)
      BY <3>1, ConcatAdjacentSubSeq
    <3> QED
      BY <3>2 DEF x, y
  <2> QED
    BY <2>1, <2>3, <2>4, <2>6
<1>8. n \in S
  <2> HIDE DEF S
  <2>1. 0..n \subseteq S
    BY <1>6, <1>7, PrefixInduction
  <2> QED
    BY <2>1
<1> QED
  BY <1>4, <1>8

----------------------------------------------------------------------------
(***************************************************************************)
(* The analysis.  The references of a file, from its mark to the next, name *)
(* unique chunks that cover the file up to where the scan has come (RefsOK), *)
(* and a unique chunk is where it says (UnicosOK).                          *)
(***************************************************************************)
Fases == {"none", "varrer", "reconstruir", "fim"}
Campos == {"at", "ver", "i", "pos", "unicos", "rec", "ini", "vs_v1", "dup_total", "bit_exato"}
Unico == [h : Seq(Nat), ver : Vers, obj : Nat, off : Nat, tam : Nat]

\* The locals of varrer_chunks keep their types.
ScanTypeOK ==
    /\ par \in Pares
    /\ DOMAIN an = Campos
    /\ an.at \in Fases /\ an.ver \in Vers /\ an.i \in Nat \ {0} /\ an.pos \in Nat
    /\ an.unicos \in Seq(Unico)
    /\ DOMAIN an.rec = Vers /\ DOMAIN an.ini = Vers
    /\ \A v \in Vers : an.rec[v] \in Seq(Nat) /\ an.ini[v] \in Seq(Nat)
    /\ an.at # "none" => tarefa.chunker \in Chunkers

\* The references of the file j.
Fim(ini, rec, j) == IF j < Len(ini) THEN ini[j + 1] - 1 ELSE Len(rec)
Refs(ini, rec, j) == SubSeq(rec, ini[j], Fim(ini, rec, j))

\* The chunks us, put together, are the first n bytes of s.
Cobre(un, us, s, n) ==
    \E cut \in [0..Len(us) -> 0..Len(s)] :
        /\ cut[0] = 0 /\ cut[Len(us)] = n
        /\ \A m \in 1..Len(us) :
              cut[m - 1] <= cut[m] /\ un[us[m]].h = SubSeq(s, cut[m - 1] + 1, cut[m])

\* k cuts of n bytes of a file: each but the last one took the minimum.
Contagem(k, n, total, cfg) ==
    IF cfg.tipo = "fixo" THEN k <= n
    ELSE k * minimo_de(cfg) <= n \/ (n = total /\ k * minimo_de(cfg) <= n + minimo_de(cfg))

\* How far the scan of the file j of a version has come.
Ate(v, j) ==
    IF an.at = "varrer" /\ v = an.ver /\ j = an.i THEN an.pos ELSE Len(itens(v)[j].s)

Marcas(ini, rec) ==
    \A j \in 1..Len(ini) : /\ 1 <= ini[j] /\ ini[j] <= Len(rec) + 1
                           /\ j < Len(ini) => ini[j] <= ini[j + 1]

Andamento ==
    /\ an.ver = 1 => an.at = "varrer" /\ an.rec[2] = <<>> /\ an.ini[2] = <<>>
    /\ an.ver = 2 => Len(an.ini[1]) = Len(itens(1))
    /\ an.at = "varrer" =>
          /\ an.i <= Len(itens(an.ver)) + 1
          /\ \/ Len(an.ini[an.ver]) = an.i - 1 /\ an.pos = 0
             \/ /\ Len(an.ini[an.ver]) = an.i /\ an.i <= Len(itens(an.ver))
                /\ an.pos <= Len(itens(an.ver)[an.i].s)
    /\ an.at \in {"reconstruir", "fim"} => an.ver = 2 /\ Len(an.ini[2]) = Len(itens(2))

VersaoOK(v) ==
    /\ Marcas(an.ini[v], an.rec[v])
    /\ \A k \in 1..Len(an.rec[v]) : an.rec[v][k] \in 1..Len(an.unicos)
    /\ \A j \in 1..Len(an.ini[v]) :
          /\ j <= Len(itens(v))
          /\ Cobre(an.unicos, Refs(an.ini[v], an.rec[v], j), itens(v)[j].s, Ate(v, j))
          /\ Contagem(Len(Refs(an.ini[v], an.rec[v], j)), Ate(v, j), Len(itens(v)[j].s),
                      tarefa.chunker)

RefsOK == \A v \in Vers : VersaoOK(v)

UnicosOK == \A u \in 1..Len(an.unicos) : Bytes(u) = an.unicos[u].h

AInv ==
    /\ ScanTypeOK
    /\ an.at # "none" => Andamento /\ RefsOK /\ UnicosOK
    /\ an.at = "fim" => an.bit_exato

----------------------------------------------------------------------------
LEMMA RefsIsSeq ==
    ASSUME NEW ini \in Seq(Nat), NEW rec \in Seq(Nat), Marcas(ini, rec), NEW j \in 1..Len(ini)
    PROVE  /\ ini[j] \in 1..(Len(rec) + 1) /\ Fim(ini, rec, j) \in (ini[j] - 1)..Len(rec)
           /\ Refs(ini, rec, j) \in Seq(Nat)
           /\ Len(Refs(ini, rec, j)) = Fim(ini, rec, j) - ini[j] + 1
           /\ \A m \in 1..Len(Refs(ini, rec, j)) : /\ ini[j] + m - 1 \in 1..Len(rec)
                                                  /\ Refs(ini, rec, j)[m] = rec[ini[j] + m - 1]
<1> DEFINE a == ini[j]
           b == Fim(ini, rec, j)
<1>1. a \in 1..(Len(rec) + 1) /\ b \in (a - 1)..Len(rec) /\ Len(rec) \in Nat
  <2>1. a \in Nat /\ 1 <= a /\ a <= Len(rec) + 1 /\ Len(rec) \in Nat
    BY DEF Marcas
  <2>2. j < Len(ini) => /\ j + 1 \in 1..Len(ini) /\ ini[j + 1] \in Nat
                        /\ a <= ini[j + 1] /\ ini[j + 1] <= Len(rec) + 1
    BY DEF Marcas
  <2> QED
    BY <2>1, <2>2 DEF Fim
<1> HIDE DEF a, b
<1>2. \A k \in a..b : rec[k] \in Nat
  <2>1. \A k \in a..b : k \in 1..Len(rec)
    BY <1>1
  <2> QED
    BY <2>1
<1>3. /\ SubSeq(rec, a, b) \in Seq(Nat) /\ Len(SubSeq(rec, a, b)) = b - a + 1
      /\ \A m \in 1..(b - a + 1) : SubSeq(rec, a, b)[m] = rec[a + m - 1]
  <2>1. a \in Int /\ b \in Int
    BY <1>1
  <2>2. Len(SubSeq(rec, a, b)) = IF a <= b THEN b - a + 1 ELSE 0
    BY <1>2, <2>1, SubSeqProperties
  <2>3. SubSeq(rec, a, b) \in Seq(Nat) /\ \A m \in 1..(b - a + 1) : SubSeq(rec, a, b)[m] = rec[a + m - 1]
    BY <1>2, <2>1, SubSeqProperties
  <2> QED
    BY <1>1, <2>2, <2>3
<1>4. \A m \in 1..(b - a + 1) : a + m - 1 \in 1..Len(rec)
  BY <1>1
<1> QED
  BY <1>1, <1>3, <1>4 DEF Refs, a, b

LEMMA RefsAreUniques ==
    ASSUME NEW ini \in Seq(Nat), NEW rec \in Seq(Nat), Marcas(ini, rec), NEW j \in 1..Len(ini),
           NEW n \in Nat, \A k \in 1..Len(rec) : rec[k] \in 1..n
    PROVE  /\ Refs(ini, rec, j) \in Seq(Nat)
           /\ \A m \in 1..Len(Refs(ini, rec, j)) : Refs(ini, rec, j)[m] \in 1..n
<1>1. /\ Refs(ini, rec, j) \in Seq(Nat)
      /\ \A m \in 1..Len(Refs(ini, rec, j)) : /\ ini[j] + m - 1 \in 1..Len(rec)
                                             /\ Refs(ini, rec, j)[m] = rec[ini[j] + m - 1]
  BY RefsIsSeq
<1> QED
  BY <1>1, Zenon

\* A mark is set behind the last reference: the new file has none.
LEMMA RefsAfterMark ==
    ASSUME NEW ini \in Seq(Nat), NEW rec \in Seq(Nat), Marcas(ini, rec)
    PROVE  /\ Marcas(Append(ini, Len(rec) + 1), rec)
           /\ \A j \in 1..Len(ini) : Refs(Append(ini, Len(rec) + 1), rec, j) = Refs(ini, rec, j)
           /\ Refs(Append(ini, Len(rec) + 1), rec, Len(ini) + 1) = <<>>
<1> DEFINE ini2 == Append(ini, Len(rec) + 1)
<1>1. /\ Len(ini2) = Len(ini) + 1 /\ Len(ini) \in Nat /\ Len(rec) \in Nat
      /\ ini2[Len(ini) + 1] = Len(rec) + 1 /\ \A j \in 1..Len(ini) : ini2[j] = ini[j] /\ ini[j] \in Nat
  OBVIOUS
<1> HIDE DEF ini2
<1>2. Marcas(ini2, rec)
  <2> SUFFICES ASSUME NEW j \in 1..Len(ini2)
               PROVE  /\ 1 <= ini2[j] /\ ini2[j] <= Len(rec) + 1
                      /\ j < Len(ini2) => ini2[j] <= ini2[j + 1]
    BY DEF Marcas
  <2>1. CASE j = Len(ini) + 1
    BY <1>1, <2>1
  <2>2. CASE j # Len(ini) + 1
    <3>1. j \in 1..Len(ini) /\ j + 1 \in 1..(Len(ini) + 1)
      BY <1>1, <2>2
    <3>2. 1 <= ini[j] /\ ini[j] <= Len(rec) + 1 /\ (j < Len(ini) => ini[j] <= ini[j + 1])
      BY <3>1 DEF Marcas
    <3>3. ini2[j] = ini[j]
      BY <1>1, <3>1
    <3>4. CASE j = Len(ini)
      BY <1>1, <3>2, <3>3, <3>4
    <3>5. CASE j # Len(ini)
      <4>1. j < Len(ini) /\ j + 1 \in 1..Len(ini)
        BY <1>1, <3>1, <3>5
      <4> QED
        BY <1>1, <3>2, <3>3, <4>1
    <3> QED
      BY <3>4, <3>5
  <2> QED
    BY <2>1, <2>2
<1>3. ASSUME NEW j \in 1..Len(ini) PROVE ini2[j] = ini[j] /\ Fim(ini2, rec, j) = Fim(ini, rec, j)
  <2>1. CASE j = Len(ini)
    BY <1>1, <2>1 DEF Fim
  <2>2. CASE j # Len(ini)
    <3>1. j < Len(ini) /\ j + 1 \in 1..Len(ini) /\ j < Len(ini2)
      BY <1>1, <2>2
    <3> QED
      BY <1>1, <3>1 DEF Fim
  <2> QED
    BY <2>1, <2>2
<1>4. Refs(ini2, rec, Len(ini) + 1) = <<>>
  <2>1. Refs(ini2, rec, Len(ini) + 1) = SubSeq(rec, Len(rec) + 1, Len(rec))
    BY <1>1 DEF Refs, Fim
  <2>2. SubSeq(rec, Len(rec) + 1, Len(rec)) = <<>>
    BY <1>1, SubSeqEmpty
  <2> QED
    BY <2>1, <2>2
<1> QED
  BY <1>2, <1>3, <1>4 DEF Refs, ini2

\* A reference goes to the file of the last mark.
LEMMA RefsAfterChunk ==
    ASSUME NEW ini \in Seq(Nat), NEW rec \in Seq(Nat), NEW u \in Nat, Marcas(ini, rec)
    PROVE  /\ Marcas(ini, Append(rec, u))
           /\ \A j \in 1..Len(ini) :
                 Refs(ini, Append(rec, u), j) = IF j = Len(ini) THEN Append(Refs(ini, rec, j), u)
                                                ELSE Refs(ini, rec, j)
<1> DEFINE rec2 == Append(rec, u)
<1>1. /\ rec2 \in Seq(Nat) /\ Len(rec2) = Len(rec) + 1 /\ Len(ini) \in Nat /\ Len(rec) \in Nat
      /\ rec2[Len(rec) + 1] = u /\ \A k \in 1..Len(rec) : rec2[k] = rec[k]
  OBVIOUS
<1> HIDE DEF rec2
<1>2. Marcas(ini, rec2)
  <2>1. \A j \in 1..Len(ini) : ini[j] \in Nat
    OBVIOUS
  <2> QED
    BY <1>1, <2>1 DEF Marcas
<1>3. ASSUME NEW j \in 1..Len(ini)
      PROVE  Refs(ini, rec2, j) = IF j = Len(ini) THEN Append(Refs(ini, rec, j), u) ELSE Refs(ini, rec, j)
  <2> DEFINE r == Refs(ini, rec, j)
             r2 == Refs(ini, rec2, j)
  <2>1. /\ r \in Seq(Nat) /\ Len(r) = Fim(ini, rec, j) - ini[j] + 1
        /\ \A m \in 1..Len(r) : ini[j] + m - 1 \in 1..Len(rec) /\ r[m] = rec[ini[j] + m - 1]
        /\ ini[j] \in 1..(Len(rec) + 1) /\ Fim(ini, rec, j) \in (ini[j] - 1)..Len(rec)
    BY RefsIsSeq
  <2>2. /\ r2 \in Seq(Nat) /\ Len(r2) = Fim(ini, rec2, j) - ini[j] + 1
        /\ \A m \in 1..Len(r2) : r2[m] = rec2[ini[j] + m - 1]
    BY <1>1, <1>2, RefsIsSeq
  <2> HIDE DEF r, r2
  <2>3. CASE j = Len(ini)
    <3>1. Fim(ini, rec, j) = Len(rec) /\ Fim(ini, rec2, j) = Len(rec) + 1
      BY <1>1, <2>3 DEF Fim
    <3> DEFINE a == ini[j]
               q == Len(rec)
               k == Len(r)
    <3>2. Len(r2) = k + 1 /\ a + k = q + 1 /\ k \in Nat /\ a + (k + 1) - 1 = q + 1
      <4>1. /\ Len(r2) = (q + 1) - a + 1 /\ k = q - a + 1 /\ q \in Nat /\ a \in 1..(q + 1)
        BY <1>1, <2>1, <2>2, <3>1
      <4> HIDE DEF a, q, k
      <4> QED
        BY <4>1
    <3>3. \A m \in 1..Len(r) : r2[m] = r[m]
      <4> SUFFICES ASSUME NEW m \in 1..Len(r) PROVE r2[m] = r[m]
        OBVIOUS
      <4>1. m \in 1..Len(r2)
        BY <3>2
      <4>2. r2[m] = rec2[ini[j] + m - 1] /\ r[m] = rec[ini[j] + m - 1] /\ ini[j] + m - 1 \in 1..Len(rec)
        BY <2>1, <2>2, <4>1
      <4> QED
        BY <1>1, <4>2
    <3>4. r2[Len(r) + 1] = u
      <4>1. Len(r) + 1 \in 1..Len(r2)
        BY <3>2
      <4>2. r2[Len(r) + 1] = rec2[ini[j] + (Len(r) + 1) - 1]
        BY <2>2, <4>1
      <4> QED
        BY <1>1, <3>2, <4>2
    <3>5. r2 = Append(r, u)
      <4>1. Append(r, u) \in Seq(Nat) /\ Len(Append(r, u)) = Len(r) + 1
        <5>1. r \in Seq(Nat) /\ u \in Nat
          BY <2>1
        <5> QED
          BY <5>1, AppendProperties
      <4>2. \A m \in 1..(Len(r) + 1) : r2[m] = Append(r, u)[m]
        <5> SUFFICES ASSUME NEW m \in 1..(Len(r) + 1) PROVE r2[m] = Append(r, u)[m]
          OBVIOUS
        <5>1. m = Len(r) + 1 \/ m \in 1..Len(r)
          BY <3>2
        <5>2. Append(r, u)[Len(r) + 1] = u /\ \A i \in 1..Len(r) : Append(r, u)[i] = r[i]
          <6>1. r \in Seq(Nat) /\ u \in Nat
            BY <2>1
          <6> QED
            BY <6>1, AppendProperties
        <5> QED
          BY <3>3, <3>4, <5>1, <5>2
      <4> QED
        BY <2>2, <3>2, <4>1, <4>2, SeqEqual
    <3> QED
      BY <2>3, <3>5 DEF r, r2
  <2>4. CASE j # Len(ini)
    <3>1. Fim(ini, rec2, j) = Fim(ini, rec, j)
      BY <1>1, <2>4 DEF Fim
    <3>2. Len(r2) = Len(r) /\ \A m \in 1..Len(r) : r2[m] = r[m]
      BY <1>1, <2>1, <2>2, <3>1
    <3>3. r2 = r
      BY <2>1, <2>2, <3>2, SeqEqual
    <3> QED
      BY <2>4, <3>3 DEF r, r2
  <2> QED
    BY <2>3, <2>4
<1> QED
  BY <1>2, <1>3 DEF rec2

LEMMA CoverNone ==
    ASSUME NEW un, NEW s \in Seq(Nat)
    PROVE  Cobre(un, <<>>, s, 0)
<1> DEFINE cut == [m \in 0..0 |-> 0]
<1>1. /\ cut \in [0..Len(<<>>) -> 0..Len(s)] /\ cut[0] = 0 /\ cut[Len(<<>>)] = 0
      /\ 1..Len(<<>>) = {}
  OBVIOUS
<1> HIDE DEF cut
<1> QED
  BY <1>1 DEF Cobre

LEMMA CoverMore ==
    ASSUME NEW un, NEW us \in Seq(Nat), NEW s \in Seq(Nat), NEW n \in Nat, Cobre(un, us, s, n),
           NEW u \in Nat, NEW t \in Nat, n + t <= Len(s), un[u].h = SubSeq(s, n + 1, n + t)
    PROVE  Cobre(un, Append(us, u), s, n + t)
<1> DEFINE us2 == Append(us, u)
           k == Len(us)
<1>1. /\ Len(us2) = k + 1 /\ us2[k + 1] = u /\ k \in Nat /\ \A m \in 1..k : us2[m] = us[m]
  OBVIOUS
<1>2. PICK cut \in [0..k -> 0..Len(s)] :
          /\ cut[0] = 0 /\ cut[k] = n
          /\ \A m \in 1..k : cut[m - 1] <= cut[m] /\ un[us[m]].h = SubSeq(s, cut[m - 1] + 1, cut[m])
  BY DEF Cobre
<1> DEFINE cut2 == [m \in 0..(k + 1) |-> IF m = k + 1 THEN n + t ELSE cut[m]]
<1> HIDE DEF us2, k
<1>3. cut2 \in [0..(k + 1) -> 0..Len(s)]
  <2>1. n + t \in 0..Len(s) /\ \A m \in 0..(k + 1) : m # k + 1 => m \in 0..k
    BY <1>1
  <2> QED
    BY <2>1
<1>4. cut2[0] = 0 /\ cut2[k + 1] = n + t
  BY <1>1, <1>2
<1>5. ASSUME NEW m \in 1..(k + 1)
      PROVE  cut2[m - 1] <= cut2[m] /\ un[us2[m]].h = SubSeq(s, cut2[m - 1] + 1, cut2[m])
  <2>1. CASE m = k + 1
    <3>1. cut2[m] = n + t /\ cut2[m - 1] = n
      BY <1>1, <1>2, <2>1
    <3> HIDE DEF cut2
    <3> QED
      BY <1>1, <2>1, <3>1
  <2>2. CASE m # k + 1
    <3>1. m \in 1..k
      BY <1>1, <2>2
    <3>2. cut2[m] = cut[m] /\ cut2[m - 1] = cut[m - 1]
      BY <1>1, <3>1
    <3> HIDE DEF cut2
    <3> QED
      BY <1>1, <1>2, <3>1, <3>2
  <2> QED
    BY <2>1, <2>2
<1> HIDE DEF cut2
<1>6. Cobre(un, us2, s, n + t)
  BY <1>1, <1>3, <1>4, <1>5 DEF Cobre
<1> QED
  BY <1>6 DEF us2

\* A unique chunk more does not change what the references say.
LEMMA CoverKept ==
    ASSUME NEW un, NEW un2, NEW us, NEW s, NEW n, Cobre(un, us, s, n),
           \A m \in 1..Len(us) : un2[us[m]] = un[us[m]]
    PROVE  Cobre(un2, us, s, n)
BY DEF Cobre

LEMMA CountMore ==
    ASSUME NEW k \in Nat, NEW total \in Nat, NEW n \in Nat, n < total, NEW cfg \in Chunkers,
           Contagem(k, n, total, cfg), NEW t \in 1..(total - n),
           cfg.tipo = "fixo" \/ t >= minimo_de(cfg) \/ t = total - n
    PROVE  Contagem(k + 1, n + t, total, cfg)
<1> DEFINE q == minimo_de(cfg)
<1>1. q \in Nat
  BY LeastChunk
<1> HIDE DEF q
<1>2. (k + 1) * q = k * q + q /\ k * q \in Nat
  BY <1>1
<1>3. CASE cfg.tipo = "fixo"
  BY <1>3 DEF Contagem
<1>4. CASE cfg.tipo # "fixo"
  <2>1. k * q <= n
    BY <1>4 DEF Contagem, q
  <2>2. (k + 1) * q <= n + t \/ (n + t = total /\ (k + 1) * q <= n + t + q)
    BY <1>1, <1>2, <1>4, <2>1 DEF q
  <2> QED
    BY <1>4, <2>2 DEF Contagem, q
<1> QED
  BY <1>3, <1>4

\* k cuts fit the arrays.
LEMMA CountFits ==
    ASSUME NEW k \in Nat, NEW n \in Nat, NEW cfg \in Chunkers, Contagem(k, n, n, cfg)
    PROVE  k <= Capacidade(n, cfg)
<1> DEFINE q == minimo_de(cfg)
           d == n \div q
<1>1. q \in Nat \ {0}
  BY LeastChunk
<1>2. CASE cfg.tipo = "fixo"
  BY <1>2 DEF Contagem, Capacidade
<1>3. CASE cfg.tipo # "fixo"
  <2>1. k * q <= n + q
    BY <1>1, <1>3 DEF Contagem
  <2> HIDE DEF q
  <2>2. d \in Int /\ n % q \in 0..(q - 1) /\ n = q * d + (n % q)
    BY <1>1
  <2> HIDE DEF d
  <2>3. k <= d + 2
    <3> SUFFICES ASSUME k >= d + 3 PROVE FALSE
      BY <2>2
    <3>1. k * q >= (d + 3) * q
      BY <1>1, <2>2
    <3>2. (d + 3) * q = q * d + 3 * q
      BY <1>1, <2>2
    <3> QED
      BY <1>1, <2>1, <2>2, <3>1, <3>2
  <2> QED
    BY <1>3, <2>3 DEF Capacidade, q, d
<1> QED
  BY <1>2, <1>3

----------------------------------------------------------------------------
\* What a step of the scan leaves alone.
LEMMA ItemsStay ==
    ASSUME UNCHANGED <<par, tarefa>>, NEW v \in Vers
    PROVE  itens(v)' = itens(v)
BY DEF itens, Fonte

LEMMA NovoScan ==
    ASSUME NEW a, NEW x, a = [NoScan EXCEPT !.at = x] \/ (x = "none" /\ a = NoScan)
    PROVE  /\ DOMAIN a = Campos /\ a.at = x /\ a.ver = 1 /\ a.i = 1 /\ a.pos = 0 /\ a.unicos = <<>>
           /\ DOMAIN a.rec = Vers /\ DOMAIN a.ini = Vers
           /\ \A v \in Vers : a.rec[v] = <<>> /\ a.ini[v] = <<>>
<1> DEFINE r == <<<<>>, <<>>>>
<1>1. DOMAIN r = Vers /\ \A v \in Vers : r[v] = <<>>
  BY DEF Vers
<1> HIDE DEF r
<1>2. /\ DOMAIN a = Campos /\ a.at = x /\ a.ver = 1 /\ a.i = 1 /\ a.pos = 0 /\ a.unicos = <<>>
      /\ a.rec = r /\ a.ini = r
  BY DEF NoScan, Campos, r
<1> QED
  BY <1>1, <1>2

LEMMA InitAInv == Init => AInv
<1> SUFFICES ASSUME Init PROVE AInv
  OBVIOUS
<1>1. an = NoScan /\ par \in Pares
  BY DEF Init
<1>2. /\ DOMAIN an = Campos /\ an.at = "none" /\ an.ver = 1 /\ an.i = 1 /\ an.pos = 0 /\ an.unicos = <<>>
      /\ DOMAIN an.rec = Vers /\ DOMAIN an.ini = Vers
      /\ \A v \in Vers : an.rec[v] = <<>> /\ an.ini[v] = <<>>
  BY <1>1, NovoScan
<1>3. ScanTypeOK
  <2>1. /\ an.at \in Fases /\ an.ver \in Vers /\ an.i \in Nat \ {0} /\ an.pos \in Nat
        /\ an.unicos \in Seq(Unico)
    BY <1>2 DEF Fases, Vers
  <2>2. \A v \in Vers : an.rec[v] \in Seq(Nat) /\ an.ini[v] \in Seq(Nat)
    <3>1. <<>> \in Seq(Nat)
      OBVIOUS
    <3> QED
      BY <1>2, <3>1, Zenon
  <2> QED
    BY <1>1, <1>2, <2>1, <2>2 DEF ScanTypeOK
<1> QED
  BY <1>2, <1>3 DEF AInv

\* The scan starts at the first file of the first version.
LEMMA AnalisarAInv ==
    ASSUME AInv, NEW tipo \in {"arvore", "tar"}, NEW cfg \in Chunkers, Analisar(tipo, cfg)
    PROVE  AInv'
<1>1. an' = [NoScan EXCEPT !.at = "varrer"] /\ par' = par /\ tarefa'.chunker = cfg
  BY DEF Analisar
<1>2. /\ DOMAIN an' = Campos /\ an'.at = "varrer" /\ an'.ver = 1 /\ an'.i = 1 /\ an'.pos = 0
      /\ an'.unicos = <<>> /\ DOMAIN an'.rec = Vers /\ DOMAIN an'.ini = Vers
      /\ \A v \in Vers : an'.rec[v] = <<>> /\ an'.ini[v] = <<>>
  BY <1>1, NovoScan
<1>3. ScanTypeOK'
  <2>1. /\ an'.at \in Fases /\ an'.ver \in Vers /\ an'.i \in Nat \ {0} /\ an'.pos \in Nat
        /\ an'.unicos \in Seq(Unico)
    BY <1>2 DEF Fases, Vers
  <2>2. \A v \in Vers : an'.rec[v] \in Seq(Nat) /\ an'.ini[v] \in Seq(Nat)
    <3>1. <<>> \in Seq(Nat)
      OBVIOUS
    <3> QED
      BY <1>2, <3>1, Zenon
  <2>3. par' \in Pares
    BY <1>1 DEF AInv, ScanTypeOK
  <2> QED
    BY <1>1, <1>2, <2>1, <2>2, <2>3 DEF ScanTypeOK
<1>4. Len(an'.unicos) = 0 /\ \A v \in Vers : Len(an'.rec[v]) = 0 /\ Len(an'.ini[v]) = 0
  BY <1>2
<1>5. Andamento'
  <2>1. itens(1)' \in Seq(Arquivo)
    <3>1. par' \in Pares /\ 1 \in Vers
      BY <1>3 DEF ScanTypeOK, Vers
    <3> QED
      BY <3>1, FilesOfPair DEF itens, Fonte
  <2>2. Len(itens(1)') \in Nat
    BY <2>1
  <2> QED
    BY <1>2, <1>4, <2>2 DEF Andamento, Vers
<1>6. RefsOK'
  BY <1>4 DEF RefsOK, VersaoOK, Marcas
<1>7. UnicosOK'
  BY <1>4 DEF UnicosOK
<1> QED
  BY <1>2, <1>3, <1>5, <1>6, <1>7 DEF AInv

LEMMA BytesStay ==
    ASSUME UNCHANGED <<par, tarefa>>, NEW u, an'.unicos[u] = an.unicos[u]
    PROVE  Bytes(u)' = Bytes(u)
BY DEF Bytes, itens, Fonte

LEMMA ItemIsSeq ==
    ASSUME par \in Pares, NEW v \in Vers, NEW j \in 1..Len(itens(v))
    PROVE  itens(v)[j].s \in Seq(Nat) /\ Len(itens(v)[j].s) \in Nat
<1>1. itens(v)[j] \in Arquivo
  BY ItemsAreFiles
<1>2. itens(v)[j].s \in Seq(Nat)
  BY <1>1 DEF Arquivo
<1> QED
  BY <1>2

\* The references a step does not touch.
LEMMA VersionKept ==
    ASSUME ScanTypeOK, UNCHANGED <<par, tarefa>>, NEW v \in Vers, VersaoOK(v),
           an'.ini[v] = an.ini[v], an'.rec[v] = an.rec[v], Len(an'.unicos) \in Nat,
           Len(an.unicos) <= Len(an'.unicos),
           \A u \in 1..Len(an.unicos) : an'.unicos[u] = an.unicos[u],
           \A j \in 1..Len(an.ini[v]) : j <= Len(itens(v)) => Ate(v, j)' = Ate(v, j)
    PROVE  VersaoOK(v)'
<1> DEFINE ini == an.ini[v]
           rec == an.rec[v]
           un == an.unicos
           un2 == an'.unicos
<1>1. /\ Marcas(ini, rec) /\ \A k \in 1..Len(rec) : rec[k] \in 1..Len(un)
      /\ ini \in Seq(Nat) /\ rec \in Seq(Nat) /\ Len(un) \in Nat
      /\ \A j \in 1..Len(ini) :
          /\ j <= Len(itens(v))
          /\ Cobre(un, Refs(ini, rec, j), itens(v)[j].s, Ate(v, j))
          /\ Contagem(Len(Refs(ini, rec, j)), Ate(v, j), Len(itens(v)[j].s), tarefa.chunker)
  BY DEF VersaoOK, ScanTypeOK
<1>2. itens(v)' = itens(v) /\ tarefa' = tarefa
  BY ItemsStay
<1> HIDE DEF ini, rec, un, un2
<1>3. \A k \in 1..Len(rec) : rec[k] \in 1..Len(un2)
  BY <1>1 DEF un, un2
<1>4. ASSUME NEW j \in 1..Len(ini)
      PROVE  Cobre(un2, Refs(ini, rec, j), itens(v)[j].s, Ate(v, j))
  <2>1. \A m \in 1..Len(Refs(ini, rec, j)) : Refs(ini, rec, j)[m] \in 1..Len(un)
    BY <1>1, RefsAreUniques
  <2>2. \A m \in 1..Len(Refs(ini, rec, j)) : un2[Refs(ini, rec, j)[m]] = un[Refs(ini, rec, j)[m]]
    BY <2>1 DEF un, un2
  <2>3. Cobre(un, Refs(ini, rec, j), itens(v)[j].s, Ate(v, j))
    BY <1>1
  <2> QED
    BY <2>2, <2>3, CoverKept
<1>5. \A j \in 1..Len(ini) : Ate(v, j)' = Ate(v, j)
  BY <1>1 DEF ini
<1>6. an'.ini[v] = ini /\ an'.rec[v] = rec /\ an'.unicos = un2
  BY DEF ini, rec, un2
<1> QED
  BY <1>1, <1>2, <1>3, <1>4, <1>5, <1>6 DEF VersaoOK

LEMMA OpenAInv ==
    ASSUME AInv, AbrirItem
    PROVE  AInv'
<1>0. PICK V \in Vers : V = an.ver
  BY DEF AInv, ScanTypeOK
<1>a. PICK marca \in Nat : marca = Len(an.rec[V]) + 1
  BY DEF AInv, ScanTypeOK
<1>1. /\ ScanTypeOK /\ Andamento /\ RefsOK /\ UnicosOK /\ an.at = "varrer"
      /\ UNCHANGED <<par, tarefa>> /\ an.i <= Len(itens(V)) /\ Len(an.ini[V]) < an.i
      /\ an' = [an EXCEPT !.ini[V] = Append(@, marca)]
  BY <1>0, <1>a DEF AInv, AbrirItem
<1>2. DOMAIN an = Campos /\ DOMAIN an.ini = Vers
  BY <1>1 DEF ScanTypeOK
<1>3. /\ DOMAIN an' = Campos /\ an'.at = "varrer" /\ an'.ver = V /\ an'.i = an.i /\ an'.pos = an.pos
      /\ an'.unicos = an.unicos /\ an'.rec = an.rec /\ DOMAIN an'.ini = Vers
      /\ an'.ini[V] = Append(an.ini[V], marca)
      /\ \A v \in Vers : v # V => an'.ini[v] = an.ini[v]
  BY <1>0, <1>1, <1>2 DEF Campos
<1>4. an.rec[V] \in Seq(Nat) /\ an.ini[V] \in Seq(Nat) /\ marca \in Nat /\ itens(V) \in Seq(Arquivo)
  BY <1>1, <1>2, ItemsAreFiles DEF ScanTypeOK
<1>5. \A v \in Vers : itens(v)' = itens(v)
  BY <1>1, ItemsStay
<1>6. Len(an.ini[V]) = an.i - 1 /\ an.pos = 0 /\ an.i \in 1..Len(itens(V))
  <2>1. an.i \in Nat \ {0} /\ Len(an.ini[V]) \in Nat
    BY <1>1, <1>4 DEF ScanTypeOK
  <2> QED
    BY <1>0, <1>1, <2>1 DEF Andamento
<1>7. an'.ini[V] \in Seq(Nat) /\ Len(an'.ini[V]) = an.i
  BY <1>3, <1>4, <1>6
<1>8. ScanTypeOK'
  BY <1>1, <1>2, <1>3, <1>7 DEF ScanTypeOK
<1>9. Andamento'
  <2>1. 0 <= Len(itens(V)[an.i].s)
    <3>1. Len(itens(V)[an.i].s) \in Nat
      BY <1>1, <1>6, ItemIsSeq DEF ScanTypeOK
    <3> QED
      BY <3>1
  <2>2. V = 1 => an'.ini[2] = an.ini[2]
    BY <1>3 DEF Vers
  <2>3. V = 2 => an'.ini[1] = an.ini[1]
    BY <1>3 DEF Vers
  <2>4. /\ V = 1 => an.rec[2] = <<>> /\ an.ini[2] = <<>>
        /\ V = 2 => Len(an.ini[1]) = Len(itens(1))
    BY <1>0, <1>1 DEF Andamento
  <2>5. itens(1)' = itens(1) /\ itens(V)' = itens(V)
    BY <1>2, <1>5 DEF Vers
  <2>6. /\ an'.ver = 1 => an'.rec[2] = <<>> /\ an'.ini[2] = <<>>
        /\ an'.ver = 2 => Len(an'.ini[1]) = Len(itens(1)')
    BY <1>3, <2>2, <2>3, <2>4, <2>5
  <2>7. itens(an.ver)' = itens(V)
    BY <1>0, <1>3, <1>5 DEF itens, Fonte
  <2> QED
    BY <1>3, <1>6, <1>7, <2>1, <2>6, <2>7 DEF Andamento
<1>10. RefsOK'
  <2>1. \A v \in Vers, j \in Nat : Ate(v, j)' = Ate(v, j)
    BY <1>0, <1>1, <1>3, <1>5 DEF Ate
  <2>2. ASSUME NEW v \in Vers, v # V PROVE VersaoOK(v)'
    <3>1. /\ an'.ini[v] = an.ini[v] /\ an'.rec[v] = an.rec[v] /\ an'.unicos = an.unicos
          /\ Len(an.unicos) \in Nat /\ VersaoOK(v) /\ Len(an'.unicos) \in Nat
          /\ Len(an.unicos) <= Len(an'.unicos)
      BY <1>1, <1>3, <2>2 DEF ScanTypeOK, RefsOK
    <3> QED
      BY <1>1, <2>1, <3>1, VersionKept
  <2>3. VersaoOK(V)'
    <3> DEFINE ini == an.ini[V]
               rec == an.rec[V]
               ini2 == Append(ini, marca)
    <3>1. /\ Marcas(ini, rec) /\ \A k \in 1..Len(rec) : rec[k] \in 1..Len(an.unicos)
          /\ \A j \in 1..Len(ini) :
                /\ j <= Len(itens(V))
                /\ Cobre(an.unicos, Refs(ini, rec, j), itens(V)[j].s, Ate(V, j))
                /\ Contagem(Len(Refs(ini, rec, j)), Ate(V, j), Len(itens(V)[j].s), tarefa.chunker)
      BY <1>1, <1>2 DEF RefsOK, VersaoOK
    <3>2. /\ Marcas(ini2, rec) /\ \A j \in 1..Len(ini) : Refs(ini2, rec, j) = Refs(ini, rec, j)
          /\ Refs(ini2, rec, an.i) = <<>>
      <4>1. ini \in Seq(Nat) /\ rec \in Seq(Nat) /\ marca = Len(rec) + 1 /\ Len(ini) + 1 = an.i
        BY <1>a, <1>4, <1>6
      <4> HIDE DEF ini, rec
      <4> QED
        BY <3>1, <4>1, RefsAfterMark
    <3>3. Cobre(an.unicos, <<>>, itens(V)[an.i].s, Ate(V, an.i))
          /\ Contagem(0, Ate(V, an.i), Len(itens(V)[an.i].s), tarefa.chunker)
      <4>1. itens(V)[an.i].s \in Seq(Nat)
        BY <1>1, <1>6, ItemIsSeq DEF ScanTypeOK
      <4>2. Ate(V, an.i) = 0
        BY <1>0, <1>1, <1>6 DEF Ate
      <4>3. minimo_de(tarefa.chunker) \in Nat
        <5>1. tarefa.chunker \in Chunkers
          BY <1>1 DEF ScanTypeOK
        <5> QED
          BY <5>1, LeastChunk
      <4>4. Contagem(0, 0, Len(itens(V)[an.i].s), tarefa.chunker)
        BY <4>3 DEF Contagem
      <4> QED
        BY <4>1, <4>2, <4>4, CoverNone
    <3>4. \A j \in 1..Len(ini2) : j \in 1..Len(ini) \/ j = an.i
      BY <1>3, <1>4, <1>6, <1>7
    <3>5. an'.ini[V] = ini2 /\ an'.rec[V] = rec /\ an'.unicos = an.unicos /\ tarefa' = tarefa
          /\ itens(V)' = itens(V)
      BY <1>1, <1>2, <1>3, <1>5
    <3>6. \A j \in 1..Len(ini2) : Ate(V, j)' = Ate(V, j)
      BY <1>2, <2>1
    <3> HIDE DEF ini, rec, ini2
    <3>7. \A j \in 1..Len(ini2) :
             /\ j <= Len(itens(V))
             /\ Cobre(an.unicos, Refs(ini2, rec, j), itens(V)[j].s, Ate(V, j))
             /\ Contagem(Len(Refs(ini2, rec, j)), Ate(V, j), Len(itens(V)[j].s), tarefa.chunker)
      <4> SUFFICES ASSUME NEW j \in 1..Len(ini2)
                   PROVE  /\ j <= Len(itens(V))
                          /\ Cobre(an.unicos, Refs(ini2, rec, j), itens(V)[j].s, Ate(V, j))
                          /\ Contagem(Len(Refs(ini2, rec, j)), Ate(V, j), Len(itens(V)[j].s), tarefa.chunker)
        OBVIOUS
      <4>1. CASE j \in 1..Len(ini)
        BY <3>1, <3>2, <4>1
      <4>2. CASE j = an.i
        <5>1. Len(<<>>) = 0 /\ an.i <= Len(itens(V))
          BY <1>6
        <5> QED
          BY <3>2, <3>3, <4>2, <5>1
      <4> QED
        BY <3>4, <4>1, <4>2
    <3> QED
      BY <3>1, <3>2, <3>5, <3>6, <3>7 DEF VersaoOK
  <2> QED
    BY <2>2, <2>3 DEF RefsOK
<1>11. UnicosOK'
  <2>1. \A u \in 1..Len(an.unicos) : Bytes(u)' = Bytes(u)
    BY <1>1, <1>3, BytesStay
  <2> QED
    BY <1>1, <1>3, <2>1 DEF UnicosOK
<1> QED
  BY <1>3, <1>8, <1>9, <1>10, <1>11 DEF AInv

\* A step that moves on from a file or a version, all of it read.
LEMMA MoveAInv ==
    ASSUME AInv, ProximoItem \/ ProximaVersao
    PROVE  AInv'
<1>0. PICK V \in Vers : V = an.ver
  BY DEF AInv, ScanTypeOK
<1>1. /\ ScanTypeOK /\ Andamento /\ RefsOK /\ UnicosOK /\ an.at = "varrer"
      /\ UNCHANGED <<par, tarefa>> /\ DOMAIN an = Campos
  BY DEF AInv, ProximoItem, ProximaVersao, ScanTypeOK
<1>2. /\ DOMAIN an' = Campos /\ an'.unicos = an.unicos /\ an'.rec = an.rec /\ an'.ini = an.ini
      /\ \/ /\ an.i <= Len(itens(V)) /\ Len(an.ini[V]) = an.i /\ an.pos = Len(itens(V)[an.i].s)
            /\ an'.at = "varrer" /\ an'.ver = V /\ an'.i = an.i + 1 /\ an'.pos = 0
         \/ /\ an.i > Len(itens(V)) /\ V = 1
            /\ an'.at = "varrer" /\ an'.ver = 2 /\ an'.i = 1 /\ an'.pos = an.pos
         \/ /\ an.i > Len(itens(V)) /\ V = 2
            /\ an'.at = "reconstruir" /\ an'.ver = 2 /\ an'.i = an.i /\ an'.pos = an.pos
  <2>1. CASE ProximoItem
    BY <1>0, <1>1, <2>1 DEF ProximoItem, Item, Campos
  <2>2. CASE ProximaVersao
    BY <1>0, <1>1, <2>2 DEF ProximaVersao, Campos, Vers
  <2> QED
    BY <2>1, <2>2
<1>3. /\ \A v \in Vers : itens(v)' = itens(v) /\ Len(itens(v)) \in Nat /\ Len(an.ini[v]) \in Nat
                         /\ Len(an.rec[v]) \in Nat
      /\ an.i \in Nat \ {0} /\ an.pos \in Nat
  <2>1. \A v \in Vers : itens(v)' = itens(v)
    BY <1>1, ItemsStay
  <2>2. \A v \in Vers : itens(v) \in Seq(Arquivo)
    BY <1>1, ItemsAreFiles DEF ScanTypeOK
  <2>3. \A v \in Vers : an.ini[v] \in Seq(Nat) /\ an.rec[v] \in Seq(Nat)
    BY <1>1 DEF ScanTypeOK
  <2>4. an.i \in Nat \ {0} /\ an.pos \in Nat
    BY <1>1 DEF ScanTypeOK
  <2> QED
    BY <2>1, <2>2, <2>3, <2>4
<1>4. /\ an.i <= Len(itens(V)) + 1
      /\ \/ Len(an.ini[V]) = an.i - 1 /\ an.pos = 0
         \/ Len(an.ini[V]) = an.i /\ an.i <= Len(itens(V))
      /\ V = 1 => an.rec[2] = <<>> /\ an.ini[2] = <<>>
      /\ V = 2 => Len(an.ini[1]) = Len(itens(1))
  BY <1>0, <1>1 DEF Andamento
<1>5. ScanTypeOK'
  <2>1. an'.at \in Fases /\ an'.ver \in Vers
    BY <1>2 DEF Fases, Vers
  <2>2. an'.i \in Nat \ {0} /\ an'.pos \in Nat
    BY <1>2, <1>3
  <2> QED
    BY <1>1, <1>2, <2>1, <2>2 DEF ScanTypeOK
<1>6. Andamento'
  <2>0. PICK W \in Vers : W = an'.ver
    BY <1>5 DEF ScanTypeOK
  <2>1. itens(1)' = itens(1) /\ itens(2)' = itens(2) /\ itens(an.ver)' = itens(W)
    <3>1. itens(1)' = itens(1) /\ itens(2)' = itens(2)
      BY <1>3 DEF Vers
    <3>2. itens(an.ver)' = itens(W)
      BY <1>1, <2>0 DEF itens, Fonte
    <3> QED
      BY <3>1, <3>2
  <2>2. /\ an'.ver = 1 => an'.at = "varrer" /\ an'.rec[2] = <<>> /\ an'.ini[2] = <<>>
        /\ an'.ver = 2 => Len(an'.ini[1]) = Len(itens(1)')
        /\ an'.at = "varrer" => /\ an'.i <= Len(itens(W)) + 1
                                /\ Len(an'.ini[W]) = an'.i - 1 /\ an'.pos = 0
        /\ an'.at \in {"reconstruir", "fim"} => an'.ver = 2 /\ Len(an'.ini[2]) = Len(itens(2)')
    <3>1. CASE an.i <= Len(itens(V))
      <4>1. /\ an'.at = "varrer" /\ W = V /\ an'.i = an.i + 1 /\ an'.pos = 0 /\ Len(an.ini[V]) = an.i
        BY <1>2, <1>3, <2>0, <3>1
      <4>2. an'.i <= Len(itens(W)) + 1 /\ Len(an'.ini[W]) = an'.i - 1
        BY <1>2, <1>3, <3>1, <4>1
      <4> QED
        BY <1>2, <1>4, <2>0, <2>1, <4>1, <4>2
    <3>2. CASE an.i > Len(itens(V)) /\ V = 1
      <4>1. Len(an.ini[2]) = 0 /\ W = 2 /\ Len(an.ini[1]) = Len(itens(1)) /\ an.pos = 0
        BY <1>2, <1>3, <1>4, <2>0, <3>2
      <4> QED
        BY <1>2, <1>3, <1>4, <2>0, <2>1, <3>2, <4>1
    <3>3. CASE an.i > Len(itens(V)) /\ V = 2
      BY <1>2, <1>3, <1>4, <2>0, <2>1, <3>3
    <3> QED
      BY <1>2, <3>1, <3>2, <3>3
  <2> QED
    BY <2>0, <2>1, <2>2 DEF Andamento
<1>7. RefsOK'
  <2>1. ASSUME NEW v \in Vers, NEW j \in 1..Len(an.ini[v]), j <= Len(itens(v)) PROVE Ate(v, j)' = Ate(v, j)
    <3>0. itens(v)' = itens(v) /\ j \in Nat /\ an.i \in Nat
      BY <1>3
    <3>1. CASE an.i <= Len(itens(V))
      BY <1>0, <1>1, <1>2, <1>3, <2>1, <3>0, <3>1 DEF Ate
    <3>2. CASE an.i > Len(itens(V)) /\ V = 1
      <4>1. v = 1 \/ Len(an.ini[v]) = 0
        BY <1>4, <3>2 DEF Vers
      <4>2. v = 1 /\ j # an.i
        BY <1>3, <2>1, <3>2, <4>1
      <4> QED
        BY <1>0, <1>1, <1>2, <3>0, <3>2, <4>2 DEF Ate
    <3>3. CASE an.i > Len(itens(V)) /\ V = 2
      <4>1. v = 2 => j # an.i
        BY <1>3, <2>1, <3>3
      <4> QED
        BY <1>0, <1>1, <1>2, <1>3, <3>0, <3>3, <4>1 DEF Ate
    <3> QED
      BY <1>2, <3>1, <3>2, <3>3
  <2>2. ASSUME NEW v \in Vers PROVE VersaoOK(v)'
    <3>1. /\ an'.ini[v] = an.ini[v] /\ an'.rec[v] = an.rec[v] /\ an'.unicos = an.unicos
          /\ VersaoOK(v) /\ Len(an'.unicos) \in Nat /\ Len(an.unicos) <= Len(an'.unicos)
      BY <1>1, <1>2 DEF ScanTypeOK, RefsOK
    <3> QED
      BY <1>1, <2>1, <3>1, VersionKept
  <2> QED
    BY <2>2 DEF RefsOK
<1>8. UnicosOK'
  <2>1. \A u \in 1..Len(an.unicos) : Bytes(u)' = Bytes(u)
    <3>1. UNCHANGED <<par, tarefa>> /\ \A u \in 1..Len(an.unicos) : an'.unicos[u] = an.unicos[u]
      BY <1>1, <1>2
    <3> QED
      BY <3>1, BytesStay
  <2> QED
    BY <1>1, <1>2, <2>1 DEF UnicosOK
<1> QED
  BY <1>2, <1>5, <1>6, <1>7, <1>8 DEF AInv

\* Behind the scan, the references of a file give its bytes, and their number fits.
LEMMA FilesComeBack ==
    ASSUME AInv, an.at \in {"reconstruir", "fim"}, NEW v \in Vers, NEW j \in DOMAIN itens(v)
    PROVE  /\ Refeito(v, j) = itens(v)[j].s
           /\ j \in 1..Len(an.ini[v])
           /\ Len(Refs(an.ini[v], an.rec[v], j)) <= Capacidade(Len(itens(v)[j].s), tarefa.chunker)
<1> DEFINE ini == an.ini[v]
           rec == an.rec[v]
           us == Refs(ini, rec, j)
           s == itens(v)[j].s
<1>1. ScanTypeOK /\ Andamento /\ RefsOK /\ UnicosOK /\ itens(v) \in Seq(Arquivo)
  BY ItemsAreFiles DEF AInv, ScanTypeOK
<1>2. j \in 1..Len(itens(v)) /\ s \in Seq(Nat) /\ Len(s) \in Nat
  <2>1. j \in 1..Len(itens(v))
    BY <1>1
  <2> QED
    BY <1>1, <2>1, ItemIsSeq DEF ScanTypeOK
<1>3. j \in 1..Len(ini) /\ ini \in Seq(Nat) /\ rec \in Seq(Nat)
  <2>1. Len(an.ini[1]) = Len(itens(1)) /\ Len(an.ini[2]) = Len(itens(2))
    BY <1>1 DEF Andamento
  <2>2. Len(an.ini[v]) = Len(itens(v))
    BY <2>1 DEF Vers
  <2> QED
    BY <1>1, <1>2, <2>2 DEF ScanTypeOK
<1>4. /\ Marcas(ini, rec) /\ \A k \in 1..Len(rec) : rec[k] \in 1..Len(an.unicos)
      /\ Cobre(an.unicos, us, s, Len(s)) /\ Contagem(Len(us), Len(s), Len(s), tarefa.chunker)
  <2>1. Ate(v, j) = Len(s)
    BY DEF Ate
  <2> HIDE DEF s
  <2>2. VersaoOK(v)
    BY <1>1 DEF RefsOK
  <2> QED
    BY <1>3, <2>1, <2>2 DEF VersaoOK, s
<1>5. us \in Seq(Nat) /\ Len(us) \in Nat /\ \A m \in 1..Len(us) : us[m] \in 1..Len(an.unicos)
  <2>1. Len(an.unicos) \in Nat
    BY <1>1 DEF ScanTypeOK
  <2>2. us \in Seq(Nat) /\ \A m \in 1..Len(us) : us[m] \in 1..Len(an.unicos)
    <3> HIDE DEF ini, rec
    <3> QED
      BY <1>3, <1>4, <2>1, RefsAreUniques
  <2> HIDE DEF us
  <2> QED
    BY <2>2
<1>6. Refeito(v, j) = Juntos(us)
  BY Zenon DEF Refeito, Juntos, Refs, Fim
<1> HIDE DEF us, s, ini, rec
<1>7. PICK cut \in [0..Len(us) -> 0..Len(s)] :
          /\ cut[0] = 0 /\ cut[Len(us)] = Len(s)
          /\ \A m \in 1..Len(us) :
                cut[m - 1] <= cut[m] /\ an.unicos[us[m]].h = SubSeq(s, cut[m - 1] + 1, cut[m])
  BY <1>4 DEF Cobre
<1>8. \A m \in 1..Len(us) : Bytes(us[m]) = an.unicos[us[m]].h
  BY <1>1, <1>5 DEF UnicosOK
<1>9. Juntos(us) = SubSeq(s, 1, cut[Len(us)])
  <2>1. \A m \in 1..Len(us) :
            cut[m - 1] <= cut[m] /\ Bytes(us[m]) = SubSeq(s, cut[m - 1] + 1, cut[m])
    BY <1>7, <1>8
  <2>2. DOMAIN us = 1..Len(us)
    BY <1>5
  <2>3. Pedacos(Len(us), us, s, cut)
    BY <1>7, <2>1, <2>2, Zenon DEF Pedacos
  <2> QED
    BY <1>2, <1>5, <2>3, ChunksJoin
<1>10. SubSeq(s, 1, Len(s)) = s
  BY <1>2, SubSeqFull
<1>11. Len(us) <= Capacidade(Len(s), tarefa.chunker)
  <2>1. tarefa.chunker \in Chunkers
    BY <1>1 DEF ScanTypeOK
  <2> QED
    BY <1>2, <1>4, <1>5, <2>1, CountFits
<1> QED
  BY <1>3, <1>6, <1>7, <1>9, <1>10, <1>11 DEF us, s, ini, rec

LEMMA RebuildAInv ==
    ASSUME AInv, Reconstruir
    PROVE  AInv'
<1>1. /\ ScanTypeOK /\ Andamento /\ RefsOK /\ UnicosOK /\ an.at = "reconstruir"
      /\ UNCHANGED <<par, tarefa>> /\ DOMAIN an = Campos
  BY DEF AInv, Reconstruir, ScanTypeOK
<1>2. /\ DOMAIN an' = Campos /\ an'.unicos = an.unicos /\ an'.rec = an.rec /\ an'.ini = an.ini
      /\ an'.at = "fim" /\ an'.ver = an.ver /\ an'.i = an.i /\ an'.pos = an.pos
  BY <1>1 DEF Reconstruir, Campos
<1>3. an'.bit_exato
  <2>1. an'.bit_exato = (\A j \in DOMAIN itens(2) : Refeito(2, j) = itens(2)[j].s)
    <3>1. "bit_exato" \in DOMAIN an
      BY <1>1 DEF Campos
    <3> QED
      BY <3>1 DEF Reconstruir
  <2>2. \A j \in DOMAIN itens(2) : Refeito(2, j) = itens(2)[j].s
    <3>1. an.at \in {"reconstruir", "fim"} /\ 2 \in Vers
      BY <1>1 DEF Vers
    <3> QED
      BY <3>1, FilesComeBack
  <2> QED
    BY <2>1, <2>2, Zenon
<1>4. ScanTypeOK'
  BY <1>1, <1>2 DEF ScanTypeOK, Fases
<1>5. \A v \in Vers : itens(v)' = itens(v)
  BY <1>1, ItemsStay
<1>6. Andamento'
  <2>1. itens(1)' = itens(1) /\ itens(2)' = itens(2)
    BY <1>5 DEF Vers
  <2> QED
    BY <1>1, <1>2, <2>1 DEF Andamento
<1>7. RefsOK'
  <2>1. \A v \in Vers, j \in Nat : Ate(v, j)' = Ate(v, j)
    BY <1>1, <1>2, <1>5 DEF Ate
  <2>2. ASSUME NEW v \in Vers PROVE VersaoOK(v)'
    <3>1. /\ an'.ini[v] = an.ini[v] /\ an'.rec[v] = an.rec[v] /\ an'.unicos = an.unicos
          /\ VersaoOK(v) /\ Len(an'.unicos) \in Nat /\ Len(an.unicos) <= Len(an'.unicos)
      BY <1>1, <1>2 DEF ScanTypeOK, RefsOK
    <3> QED
      BY <1>1, <2>1, <3>1, VersionKept
  <2> QED
    BY <2>2 DEF RefsOK
<1>8. UnicosOK'
  <2>1. \A u \in 1..Len(an.unicos) : Bytes(u)' = Bytes(u)
    <3>1. UNCHANGED <<par, tarefa>> /\ \A u \in 1..Len(an.unicos) : an'.unicos[u] = an.unicos[u]
      BY <1>1, <1>2
    <3> QED
      BY <3>1, BytesStay
  <2> QED
    BY <1>1, <1>2, <2>1 DEF UnicosOK
<1> QED
  BY <1>2, <1>3, <1>4, <1>6, <1>7, <1>8 DEF AInv

\* The chunk of a hash is one of the unique chunks, with that hash.
LEMMA KnownChunk ==
    ASSUME an.unicos \in Seq(Unico), NEW h, Conhecido(h) # 0
    PROVE  Conhecido(h) \in 1..Len(an.unicos) /\ an.unicos[Conhecido(h)].h = h
<1> DEFINE us == {u \in DOMAIN an.unicos : an.unicos[u].h = h}
<1>1. Conhecido(h) = IF us = {} THEN 0 ELSE Min(us)
  BY DEF Conhecido
<1>2. us \subseteq Nat /\ DOMAIN an.unicos = 1..Len(an.unicos)
  OBVIOUS
<1>3. us # {} => Min(us) \in us
  <2> HIDE DEF us
  <2> QED
    BY <1>2, MinIsIn
<1> QED
  BY <1>1, <1>2, <1>3

\* A chunk more: it is a unique one or becomes one, and the file's references cover it.
LEMMA ChunkAInv ==
    ASSUME AInv, Chunk
    PROVE  AInv'
<1>0. PICK V \in Vers : V = an.ver
  BY DEF AInv, ScanTypeOK
<1>1. /\ ScanTypeOK /\ Andamento /\ RefsOK /\ UnicosOK /\ an.at = "varrer"
      /\ UNCHANGED <<par, tarefa>> /\ DOMAIN an = Campos
  BY DEF AInv, Chunk, ScanTypeOK
<1> DEFINE s == itens(V)[an.i].s
           i == an.i
           un == an.unicos
<1>a. PICK tam : tam = chunkear(s, an.pos, tarefa.chunker)
  OBVIOUS
<1>b. PICK h : h = SubSeq(s, an.pos + 1, an.pos + tam)
  OBVIOUS
<1>c. PICK r : r = IF Conhecido(h) = 0 THEN Len(un) + 1 ELSE Conhecido(h)
  OBVIOUS
<1>d. PICK novo : novo = [h |-> h, ver |-> V, obj |-> i, off |-> an.pos, tam |-> tam]
  OBVIOUS
<1>2. /\ i <= Len(itens(V)) /\ Len(an.ini[V]) = i /\ an.pos < Len(s)
      /\ DOMAIN an' = Campos /\ an'.at = "varrer" /\ an'.ver = V /\ an'.i = i /\ an'.ini = an.ini
      /\ an'.pos = an.pos + tam
      /\ an'.unicos = IF Conhecido(h) = 0 THEN Append(un, novo) ELSE un
      /\ an'.rec = [an.rec EXCEPT ![V] = Append(an.rec[V], r)]
  <2>1. Item = s
    BY <1>0 DEF Item
  <2> HIDE DEF s
  <2>2. i <= Len(itens(V)) /\ Len(an.ini[V]) = i /\ an.pos < Len(s)
    BY <1>0, <2>1 DEF Chunk
  <2>3. DOMAIN an' = Campos /\ an'.at = "varrer" /\ an'.ver = V /\ an'.i = i /\ an'.ini = an.ini
    BY <1>0, <1>1 DEF Chunk, Campos
  <2>4. an'.pos = an.pos + tam
    BY <1>1, <1>a, <2>1 DEF Chunk, Campos
  <2>5. an'.unicos = IF Conhecido(h) = 0 THEN Append(un, novo) ELSE un
    BY <1>0, <1>1, <1>a, <1>b, <1>d, <2>1 DEF Chunk, Campos
  <2>6. an'.rec = [an.rec EXCEPT ![V] = Append(an.rec[V], r)]
    BY <1>0, <1>1, <1>a, <1>b, <1>c, <2>1 DEF Chunk, Campos
  <2> QED
    BY <2>2, <2>3, <2>4, <2>5, <2>6
<1>3. /\ i \in 1..Len(itens(V)) /\ s \in Seq(Nat) /\ Len(s) \in Nat /\ an.pos \in 0..(Len(s) - 1)
      /\ tarefa.chunker \in Chunkers
  <2>1. i \in 1..Len(itens(V))
    <3>1. Len(itens(V)) \in Nat /\ i \in Nat \ {0}
      BY <1>1, ItemsAreFiles DEF ScanTypeOK
    <3> QED
      BY <1>2, <3>1
  <2>2. s \in Seq(Nat) /\ Len(s) \in Nat
    BY <1>1, <2>1, ItemIsSeq DEF ScanTypeOK
  <2> HIDE DEF s
  <2> QED
    BY <1>1, <1>2, <2>1, <2>2 DEF ScanTypeOK
<1>4. /\ tam \in 1..(Len(s) - an.pos)
      /\ tarefa.chunker.tipo = "fixo" \/ tam >= minimo_de(tarefa.chunker) \/ tam = Len(s) - an.pos
  <2> HIDE DEF s
  <2> QED
    BY <1>a, <1>3, ChunkSize
<1>5. h \in Seq(Nat)
  <2> HIDE DEF s
  <2>1. Len(s) \in Nat /\ \A k \in 1..Len(s) : s[k] \in Nat
    BY <1>3
  <2>2. \A k \in (an.pos + 1)..(an.pos + tam) : k \in 1..Len(s)
    BY <1>3, <1>4
  <2>3. an.pos + 1 \in Int /\ an.pos + tam \in Int /\ \A k \in (an.pos + 1)..(an.pos + tam) : s[k] \in Nat
    BY <1>3, <1>4, <2>1, <2>2
  <2> QED
    BY <1>b, <2>3, SubSeqProperties
<1>6. un \in Seq(Unico) /\ Len(un) \in Nat /\ novo \in Unico
  <2>1. novo \in Unico
    <3>1. an.pos \in Nat /\ tam \in Nat /\ i \in Nat
      BY <1>3, <1>4
    <3> HIDE DEF i, s
    <3> QED
      BY <1>0, <1>5, <1>d, <3>1 DEF Unico
  <2> QED
    BY <1>1, <2>1 DEF ScanTypeOK
<1> HIDE DEF s, i, un
<1>7. /\ an'.unicos \in Seq(Unico) /\ Len(an'.unicos) \in Nat /\ Len(un) <= Len(an'.unicos)
      /\ \A u \in 1..Len(un) : an'.unicos[u] = un[u]
      /\ r \in 1..Len(an'.unicos) /\ an'.unicos[r].h = h
      /\ \A u \in 1..Len(an'.unicos) : u \in 1..Len(un) \/ (u = Len(un) + 1 /\ an'.unicos[u] = novo)
  <2>1. CASE Conhecido(h) = 0
    <3>1. /\ Append(un, novo) \in Seq(Unico) /\ Len(Append(un, novo)) = Len(un) + 1
          /\ \A u \in 1..Len(un) : Append(un, novo)[u] = un[u]
          /\ Append(un, novo)[Len(un) + 1] = novo
      BY <1>6, AppendProperties
    <3>2. novo.h = h /\ r = Len(un) + 1 /\ an'.unicos = Append(un, novo)
      BY <1>2, <1>c, <1>d, <2>1
    <3> QED
      BY <1>6, <3>1, <3>2
  <2>2. CASE Conhecido(h) # 0
    <3>1. r = Conhecido(h) /\ an'.unicos = un
      BY <1>2, <1>c, <2>2
    <3>2. Conhecido(h) \in 1..Len(un) /\ un[Conhecido(h)].h = h
      BY <1>6, <2>2, KnownChunk DEF un
    <3> QED
      BY <1>6, <3>1, <3>2
  <2> QED
    BY <2>1, <2>2
<1>8. /\ DOMAIN an'.rec = Vers /\ an'.rec[V] = Append(an.rec[V], r) /\ an.rec[V] \in Seq(Nat)
      /\ an.ini[V] \in Seq(Nat) /\ \A v \in Vers : v # V => an'.rec[v] = an.rec[v]
  BY <1>1, <1>2 DEF ScanTypeOK
<1>9. r \in Nat /\ an'.rec[V] \in Seq(Nat)
  <2>1. r \in Nat
    BY <1>7
  <2> QED
    BY <1>8, <2>1
<1>10. an.pos \in Nat /\ an.pos + tam \in Nat /\ an.pos + tam <= Len(s) /\ i \in Nat \ {0}
  BY <1>3, <1>4
<1>11. ScanTypeOK'
  <2>1. \A v \in Vers : an'.rec[v] \in Seq(Nat) /\ an'.ini[v] \in Seq(Nat)
    BY <1>1, <1>2, <1>8, <1>9 DEF ScanTypeOK
  <2>2. /\ par' \in Pares /\ tarefa'.chunker \in Chunkers /\ DOMAIN an'.ini = Vers
    BY <1>1, <1>2 DEF ScanTypeOK
  <2> QED
    BY <1>2, <1>7, <1>8, <1>10, <2>1, <2>2 DEF ScanTypeOK, Fases
<1>12. \A v \in Vers : itens(v)' = itens(v)
  BY <1>1, ItemsStay
<1>13. Andamento'
  <2>1. itens(1)' = itens(1)
    BY <1>12 DEF Vers
  <2>2. V = 1 => an'.rec[2] = an.rec[2]
    BY <1>8 DEF Vers
  <2>3. itens(an.ver)' = itens(V)
    BY <1>1, <1>2 DEF itens, Fonte
  <2>4. /\ V = 1 => an.rec[2] = <<>> /\ an.ini[2] = <<>>
        /\ V = 2 => Len(an.ini[1]) = Len(itens(1))
    BY <1>0, <1>1 DEF Andamento
  <2>5. i <= Len(itens(V)) + 1 /\ an.pos + tam <= Len(itens(V)[i].s)
    <3>1. Len(itens(V)) \in Nat
      BY <1>1, ItemsAreFiles DEF ScanTypeOK
    <3> QED
      BY <1>2, <1>10, <3>1 DEF s, i
  <2> QED
    BY <1>2, <2>1, <2>2, <2>3, <2>4, <2>5 DEF Andamento
<1>14. \A v \in Vers : \A j \in 1..Len(an.ini[v]) : (v # V \/ j # i) => Ate(v, j)' = Ate(v, j)
  BY <1>0, <1>1, <1>2, <1>12 DEF Ate, i
<1>15. Ate(V, i) = an.pos
  BY <1>0, <1>1 DEF Ate, i
<1>16. \A j : j = i => Ate(V, j)' = an.pos + tam
  BY <1>2 DEF Ate
<1>17. ASSUME NEW v \in Vers, v # V PROVE VersaoOK(v)'
  <2>1. /\ an'.ini[v] = an.ini[v] /\ an'.rec[v] = an.rec[v] /\ VersaoOK(v)
    BY <1>1, <1>2, <1>8, <1>17 DEF RefsOK
  <2>2. \A j \in 1..Len(an.ini[v]) : j <= Len(itens(v)) => Ate(v, j)' = Ate(v, j)
    BY <1>14, <1>17
  <2> QED
    BY <1>1, <1>7, <2>1, <2>2, VersionKept DEF un
<1>18. VersaoOK(V)'
  <2> DEFINE ini == an.ini[V]
             rec == an.rec[V]
             rec2 == Append(rec, r)
             un2 == an'.unicos
             F(j) == itens(V)[j].s
  <2>1. /\ Marcas(ini, rec) /\ \A k \in 1..Len(rec) : rec[k] \in 1..Len(un)
        /\ \A j \in 1..Len(ini) :
              /\ j <= Len(itens(V))
              /\ Cobre(un, Refs(ini, rec, j), F(j), Ate(V, j))
              /\ Contagem(Len(Refs(ini, rec, j)), Ate(V, j), Len(F(j)), tarefa.chunker)
    BY <1>1 DEF RefsOK, VersaoOK, un
  <2>2. ini \in Seq(Nat) /\ rec \in Seq(Nat) /\ i = Len(ini) /\ i \in 1..Len(ini) /\ F(i) = s
    BY <1>2, <1>8, <1>10 DEF s, i
  <2>3. /\ an'.ini[V] = ini /\ an'.rec[V] = rec2 /\ itens(V)' = itens(V) /\ tarefa' = tarefa
    BY <1>1, <1>2, <1>8, <1>12
  <2> HIDE DEF ini, rec, un2, F
  <2>4. /\ Marcas(ini, rec2)
        /\ \A j \in 1..Len(ini) :
              Refs(ini, rec2, j) = IF j = i THEN Append(Refs(ini, rec, j), r) ELSE Refs(ini, rec, j)
    BY <1>9, <2>1, <2>2, RefsAfterChunk
  <2>5. \A k \in 1..Len(rec2) : rec2[k] \in 1..Len(un2)
    <3> SUFFICES ASSUME NEW k \in 1..Len(rec2) PROVE rec2[k] \in 1..Len(un2)
      OBVIOUS
    <3>1. /\ Len(rec2) = Len(rec) + 1 /\ Len(rec) \in Nat /\ rec2[Len(rec) + 1] = r
          /\ \A m \in 1..Len(rec) : rec2[m] = rec[m]
      BY <1>9, <2>2, AppendProperties
    <3>2. CASE k = Len(rec) + 1
      BY <1>7, <3>1, <3>2 DEF un2
    <3>3. CASE k # Len(rec) + 1
      <4>1. k \in 1..Len(rec)
        <5> HIDE DEF rec2
        <5> QED
          BY <3>1, <3>3
      <4>2. rec2[k] \in 1..Len(un)
        BY <2>1, <3>1, <4>1
      <4> HIDE DEF rec2
      <4> QED
        BY <1>6, <1>7, <4>2 DEF un2
    <3> QED
      BY <3>2, <3>3
  <2>6. ASSUME NEW j \in 1..Len(ini) PROVE Cobre(un2, Refs(ini, rec, j), F(j), Ate(V, j))
    <3>1. \A m \in 1..Len(Refs(ini, rec, j)) : Refs(ini, rec, j)[m] \in 1..Len(un)
      BY <1>6, <2>1, <2>2, RefsAreUniques
    <3>2. \A m \in 1..Len(Refs(ini, rec, j)) : un2[Refs(ini, rec, j)[m]] = un[Refs(ini, rec, j)[m]]
      BY <1>7, <3>1 DEF un2
    <3>3. Cobre(un, Refs(ini, rec, j), F(j), Ate(V, j))
      BY <2>1
    <3> QED
      BY <3>2, <3>3, CoverKept
  <2>7. ASSUME NEW j \in 1..Len(ini), j # i
        PROVE  /\ Cobre(un2, Refs(ini, rec2, j), F(j), Ate(V, j)')
               /\ Contagem(Len(Refs(ini, rec2, j)), Ate(V, j)', Len(F(j)), tarefa.chunker)
    <3>1. Refs(ini, rec2, j) = Refs(ini, rec, j) /\ Ate(V, j)' = Ate(V, j)
      BY <1>14, <2>4, <2>7 DEF ini
    <3> QED
      BY <2>1, <2>6, <3>1
  <2>8. /\ Cobre(un2, Refs(ini, rec2, i), s, an.pos + tam)
        /\ Contagem(Len(Refs(ini, rec2, i)), an.pos + tam, Len(s), tarefa.chunker)
    <3> DEFINE us == Refs(ini, rec, i)
    <3>1. us \in Seq(Nat) /\ Len(us) \in Nat /\ Refs(ini, rec2, i) = Append(us, r) /\ Len(Append(us, r)) = Len(us) + 1
      <4>1. us \in Seq(Nat) /\ Refs(ini, rec2, i) = Append(us, r)
        BY <1>6, <2>1, <2>2, <2>4, RefsAreUniques
      <4> HIDE DEF us
      <4> QED
        BY <1>9, <4>1
    <3>2. Cobre(un2, us, s, an.pos) /\ Contagem(Len(us), an.pos, Len(s), tarefa.chunker)
      BY <1>15, <2>1, <2>2, <2>6
    <3> HIDE DEF us
    <3>3. Cobre(un2, Append(us, r), s, an.pos + tam)
      <4>1. un2[r].h = SubSeq(s, an.pos + 1, an.pos + tam) /\ tam \in Nat
        BY <1>4, <1>7, <1>b, <1>3 DEF un2
      <4> QED
        BY <1>3, <1>9, <1>10, <3>1, <3>2, <4>1, CoverMore
    <3>4. Contagem(Len(us) + 1, an.pos + tam, Len(s), tarefa.chunker)
      <4>1. an.pos < Len(s)
        BY <1>3
      <4> QED
        BY <1>3, <1>4, <1>10, <3>1, <3>2, <4>1, CountMore
    <3> QED
      BY <3>1, <3>3, <3>4
  <2>9. ASSUME NEW j \in 1..Len(ini)
        PROVE  /\ j <= Len(itens(V))
               /\ Cobre(un2, Refs(ini, rec2, j), F(j), Ate(V, j)')
               /\ Contagem(Len(Refs(ini, rec2, j)), Ate(V, j)', Len(F(j)), tarefa.chunker)
    <3>1. CASE j = i
      BY <1>16, <2>1, <2>2, <2>8, <3>1
    <3>2. CASE j # i
      BY <2>1, <2>7, <3>2
    <3> QED
      BY <3>1, <3>2
  <2> HIDE DEF rec2
  <2> QED
    BY <2>3, <2>4, <2>5, <2>9 DEF VersaoOK, un2, F
<1>19. RefsOK'
  BY <1>17, <1>18 DEF RefsOK
<1>20. UnicosOK'
  <2>1. ASSUME NEW u \in 1..Len(un) PROVE Bytes(u)' = an'.unicos[u].h
    <3>1. Bytes(u)' = Bytes(u)
      BY <1>1, <1>7, BytesStay DEF un
    <3> QED
      BY <1>1, <1>7, <3>1 DEF UnicosOK, un
  <2>2. ASSUME NEW u \in 1..Len(an'.unicos), an'.unicos[u] = novo PROVE Bytes(u)' = an'.unicos[u].h
    <3>1. Bytes(u)' = SubSeq(itens(V)[i].s, an.pos + 1, an.pos + tam)
      <4>1. /\ an'.unicos[u].ver = V /\ an'.unicos[u].obj = i /\ an'.unicos[u].off = an.pos
            /\ an'.unicos[u].tam = tam
        BY <1>d, <2>2
      <4>2. itens(V) = IF tarefa'.tipo = "arvore" THEN Cheios(par'[V]) ELSE Pacote(par'[V])
        BY <1>1 DEF itens, Fonte
      <4> QED
        BY <4>1, <4>2 DEF Bytes, itens, Fonte
    <3>2. novo.h = h
      BY <1>d
    <3> QED
      BY <1>b, <2>2, <3>1, <3>2 DEF s, i
  <2> QED
    BY <1>7, <2>1, <2>2 DEF UnicosOK
<1> QED
  BY <1>2, <1>11, <1>13, <1>19, <1>20 DEF AInv

LEMMA StepAInv == AInv /\ [Next]_vars => AInv'
<1> SUFFICES ASSUME AInv, [Next]_vars PROVE AInv'
  OBVIOUS
<1>1. CASE UNCHANGED <<par, tarefa, an>>
  <2>1. \A v \in Vers : itens(v)' = itens(v)
    BY <1>1, ItemsStay
  <2>2. ScanTypeOK'
    BY <1>1 DEF AInv, ScanTypeOK
  <2>3. an.at # "none" => Andamento' /\ RefsOK' /\ UnicosOK'
    <3> SUFFICES ASSUME an.at # "none" PROVE Andamento' /\ RefsOK' /\ UnicosOK'
      OBVIOUS
    <3>1. Andamento'
      BY <1>1 DEF AInv, Andamento, itens, Fonte
    <3>2. \A v \in Vers, j \in Nat : Ate(v, j)' = Ate(v, j)
      BY <1>1, <2>1 DEF Ate
    <3>3. RefsOK'
      <4>1. ASSUME NEW v \in Vers PROVE VersaoOK(v)'
        <5>1. ScanTypeOK /\ VersaoOK(v) /\ Len(an'.unicos) \in Nat /\ Len(an.unicos) <= Len(an'.unicos)
          BY <1>1 DEF AInv, ScanTypeOK, RefsOK
        <5> QED
          BY <1>1, <3>2, <5>1, VersionKept
      <4> QED
        BY <4>1 DEF RefsOK
    <3>4. UnicosOK'
      <4>1. \A u \in 1..Len(an.unicos) : Bytes(u)' = Bytes(u)
        BY <1>1, BytesStay
      <4> QED
        BY <1>1, <4>1 DEF AInv, UnicosOK
    <3> QED
      BY <3>1, <3>3, <3>4
  <2> QED
    BY <1>1, <2>2, <2>3 DEF AInv
<1>2. CASE fase_preparar
  BY <1>1, <1>2 DEF fase_preparar, Rest, Iniciar, BaixarSomas, SomasChegam, Somas, Baixar, Baixado,
       Conferir, Extrair, Empacotar, Empacotado, Apagar, Manifesto, Escrito, Interrompe
<1>3. CASE varrer_chunks
  BY <1>3, OpenAInv, ChunkAInv, MoveAInv, RebuildAInv DEF varrer_chunks
<1> QED
  BY <1>1, <1>2, <1>3, AnalisarAInv DEF Next, vars

\* From the unique chunks and the references every file of both versions comes back byte by
\* byte, and the cuts fit the arrays of fastcdc_cortar (dedup.py: varrer_chunks,
\* verificar_reconstrucao), for any files, chunkers and numbers of the bytes.
THEOREM RebuildIsExact == Spec => []RebuildExact
<1>1. AInv => RebuildExact
  <2> SUFFICES ASSUME AInv, an.at = "fim"
               PROVE  /\ an.bit_exato
                      /\ \A v \in Vers : \A j \in DOMAIN itens(v) :
                            /\ Refeito(v, j) = itens(v)[j].s
                            /\ (IF j < Len(an.ini[v]) THEN an.ini[v][j + 1] ELSE Len(an.rec[v]) + 1)
                                  - an.ini[v][j]
                                 <= Capacidade(Len(itens(v)[j].s), tarefa.chunker)
    BY Zenon DEF RebuildExact
  <2>1. an.bit_exato
    BY Zenon DEF AInv
  <2>2. ASSUME NEW v \in Vers, NEW j \in DOMAIN itens(v)
        PROVE  /\ Refeito(v, j) = itens(v)[j].s
               /\ (IF j < Len(an.ini[v]) THEN an.ini[v][j + 1] ELSE Len(an.rec[v]) + 1) - an.ini[v][j]
                    <= Capacidade(Len(itens(v)[j].s), tarefa.chunker)
    <3>1. /\ Refeito(v, j) = itens(v)[j].s /\ j \in 1..Len(an.ini[v])
          /\ Len(Refs(an.ini[v], an.rec[v], j)) <= Capacidade(Len(itens(v)[j].s), tarefa.chunker)
      BY FilesComeBack
    <3>2. an.ini[v] \in Seq(Nat) /\ an.rec[v] \in Seq(Nat) /\ Marcas(an.ini[v], an.rec[v])
      BY DEF AInv, ScanTypeOK, RefsOK, VersaoOK
    <3> DEFINE ini == an.ini[v]
               rec == an.rec[v]
    <3> HIDE DEF ini, rec
    <3>3. ini \in Seq(Nat) /\ rec \in Seq(Nat) /\ Marcas(ini, rec) /\ j \in 1..Len(ini)
      BY <3>1, <3>2 DEF ini, rec
    <3>4. Len(Refs(ini, rec, j)) = Fim(ini, rec, j) - ini[j] + 1 /\ ini[j] \in 1..(Len(rec) + 1)
      BY <3>3, RefsIsSeq
    <3>5. (IF j < Len(ini) THEN ini[j + 1] ELSE Len(rec) + 1) - ini[j] = Len(Refs(ini, rec, j))
      <4>1. Len(rec) \in Nat /\ ini[j] \in Nat /\ (j < Len(ini) => ini[j + 1] \in Nat)
        BY <3>3
      <4> QED
        BY <3>4, <4>1 DEF Fim
    <3> QED
      BY <3>1, <3>5 DEF ini, rec
  <2> QED
    BY <2>1, <2>2
<1> QED
  BY <1>1, InitAInv, StepAInv, PTL DEF Spec

----------------------------------------------------------------------------
(***************************************************************************)
(* Savings. The sums of the code become cardinalities: x weighs f[x].       *)
(***************************************************************************)
Weights(f, S) == UNION {{x} \X (1..f[x]) : x \in S}
Weight(f, S) == Cardinality(Weights(f, S))

Sizes(v) == [j \in DOMAIN itens(v) |-> Len(itens(v)[j].s)]
Tams == [u \in DOMAIN an.unicos |-> an.unicos[u].tam]

\* What has been read of the files J of the second version.
Lido(J) ==
    IF an.ver = 1 THEN 0
    ELSE Weight(Sizes(2), J \cap (1..(an.i - 1))) + (IF an.i \in J THEN an.pos ELSE 0)

\* The files that a version has too, and those that were met before.
EmV1(s) == \E k \in DOMAIN itens(1) : itens(1)[k].s = s
Velhos == {j \in DOMAIN itens(2) : EmV1(itens(2)[j].s)}
Repetidos == {j \in DOMAIN itens(2) :
                \/ EmV1(itens(2)[j].s)
                \/ \E k \in 1..(j - 1) : itens(2)[k].s = itens(2)[j].s}

\* P holds every place where s is cut.
Corta(cfg, P, s) == 0 \in P /\ \A q \in P : q < Len(s) => q + chunkear(s, q, cfg) \in P

Pedaco(cfg, s, q) == SubSeq(s, q + 1, q + chunkear(s, q, cfg))
Achado(un, h, v) == \E u \in 1..Len(un) : un[u].h = h /\ un[u].ver <= v

\* P holds the places where s is cut up to n, and the chunks between them are known.
Achados(un, cfg, P, s, n, v) ==
    /\ 0 \in P /\ n \in P
    /\ \A q \in P : q < n => q + chunkear(s, q, cfg) \in P /\ Achado(un, Pedaco(cfg, s, q), v)

Comecado(v, j) == v < an.ver \/ (v = an.ver /\ j <= an.i)

CortesOK ==
    /\ \A v \in Vers : \A j \in 1..Len(itens(v)) : Comecado(v, j) =>
          \E P \in SUBSET (0..Ate(v, j)) : Achados(an.unicos, tarefa.chunker, P, itens(v)[j].s, Ate(v, j), v)
    /\ an.at = "varrer" /\ an.i <= Len(itens(an.ver)) =>
          \A P \in SUBSET (0..Len(Item)) : Corta(tarefa.chunker, P, Item) => an.pos \in P

ContasOK ==
    /\ an.at \in {"reconstruir", "fim"} => an.i = Len(itens(2)) + 1 /\ an.pos = 0
    /\ \A t, u \in 1..Len(an.unicos) : an.unicos[t].h = an.unicos[u].h => t = u
    /\ \A u \in 1..Len(an.unicos) :
          /\ an.ver = 1 => an.unicos[u].ver = 1
          /\ an.unicos[u].ver = 2 => an.unicos[u].obj \in DOMAIN itens(2) \ Velhos

SomasOK ==
    /\ an.vs_v1 \in Nat /\ an.dup_total \in Nat /\ an.vs_v1 <= an.dup_total
    /\ Lido(DOMAIN itens(2)) = Weight(Tams, Unicos(2)) + an.dup_total
    /\ Lido(Velhos) <= an.vs_v1
    /\ Lido(Repetidos) <= an.dup_total

BInv == AInv /\ (an.at # "none" => CortesOK /\ ContasOK /\ SomasOK)

LEMMA WeightOfOne ==
    ASSUME NEW f, NEW x, f[x] \in Nat
    PROVE  IsFiniteSet({x} \X (1..f[x])) /\ Cardinality({x} \X (1..f[x])) = f[x]
<1> DEFINE n == f[x]
<1>1. n \in Nat
  OBVIOUS
<1> HIDE DEF n
<1>2. IsFiniteSet(1..n) /\ Cardinality(1..n) = n
  <2>1. 1 \in Int /\ n \in Int
    BY <1>1
  <2>2. IsFiniteSet(1..n) /\ Cardinality(1..n) = IF 1 > n THEN 0 ELSE n - 1 + 1
    BY <2>1, FS_Interval
  <2> QED
    BY <1>1, <2>2
<1>3. IsFiniteSet({x}) /\ Cardinality({x}) = 1
  BY FS_Singleton
<1>4. IsFiniteSet({x} \X (1..n)) /\ Cardinality({x} \X (1..n)) = Cardinality({x}) * Cardinality(1..n)
  BY <1>2, <1>3, FS_Product
<1> QED
  BY <1>1, <1>2, <1>3, <1>4 DEF n

LEMMA WeightIsNat ==
    ASSUME NEW f, NEW S, IsFiniteSet(S), \A x \in S : f[x] \in Nat
    PROVE  IsFiniteSet(Weights(f, S)) /\ Weight(f, S) \in Nat
<1> DEFINE T == {{x} \X (1..f[x]) : x \in S}
<1>1. IsFiniteSet(T)
  <2> DEFINE m == [x \in S |-> {x} \X (1..f[x])]
  <2>1. m \in Surjection(S, T)
    BY DEF Surjection
  <2> HIDE DEF m, T
  <2> QED
    BY <2>1, FS_Surjection
<1>2. \A t \in T : IsFiniteSet(t)
  BY WeightOfOne
<1> HIDE DEF T
<1>3. IsFiniteSet(UNION T)
  BY <1>1, <1>2, FS_UNION
<1> QED
  BY <1>3, FS_CardinalityType DEF Weights, Weight, T

\* Sets apart weigh what they weigh together.
LEMMA WeightOfUnion ==
    ASSUME NEW f, NEW A, NEW B, IsFiniteSet(A), IsFiniteSet(B), A \cap B = {},
           \A x \in A : f[x] \in Nat, \A x \in B : f[x] \in Nat
    PROVE  /\ Weight(f, A \cup B) = Weight(f, A) + Weight(f, B)
           /\ Weight(f, A) \in Nat /\ Weight(f, B) \in Nat
<1>2. IsFiniteSet(Weights(f, A)) /\ IsFiniteSet(Weights(f, B)) /\ Weight(f, A) \in Nat /\ Weight(f, B) \in Nat
  BY WeightIsNat
<1>3. Weights(f, A \cup B) = Weights(f, A) \cup Weights(f, B)
  BY DEF Weights
<1>4. Weights(f, A) \cap Weights(f, B) = {}
  BY DEF Weights
<1>5. Cardinality(Weights(f, A) \cap Weights(f, B)) = 0
  BY <1>4, FS_EmptySet
<1>6. Cardinality(Weights(f, A) \cup Weights(f, B))
         = Cardinality(Weights(f, A)) + Cardinality(Weights(f, B)) - Cardinality(Weights(f, A) \cap Weights(f, B))
  BY <1>2, FS_Union
<1> DEFINE a == Cardinality(Weights(f, A))
           b == Cardinality(Weights(f, B))
           c == Cardinality(Weights(f, A \cup B))
<1>7. a \in Nat /\ b \in Nat /\ c = a + b - 0
  BY <1>2, <1>3, <1>5, <1>6 DEF Weight
<1> HIDE DEF a, b, c
<1>8. a \in Nat /\ b \in Nat /\ c = a + b
  BY <1>7
<1> QED
  BY <1>8 DEF Weight, a, b, c

LEMMA WeightMore ==
    ASSUME NEW f, NEW A, IsFiniteSet(A), NEW x, x \notin A, f[x] \in Nat,
           \A y \in A : f[y] \in Nat
    PROVE  Weight(f, A \cup {x}) = Weight(f, A) + f[x]
<1>1. Weight(f, A \cup {x}) = Weight(f, A) + Weight(f, {x})
  <2> DEFINE B == {x}
  <2>1. A \cap B = {} /\ \A y \in B : f[y] \in Nat
    OBVIOUS
  <2>2. IsFiniteSet(B)
    BY FS_Singleton
  <2> HIDE DEF B
  <2>3. Weight(f, A \cup B) = Weight(f, A) + Weight(f, B)
    BY <2>1, <2>2, WeightOfUnion
  <2> QED
    BY <2>3 DEF B
<1>2. Weights(f, {x}) = {x} \X (1..f[x])
  BY DEF Weights
<1>3. Weight(f, {x}) = f[x]
  BY <1>2, WeightOfOne DEF Weight
<1> QED
  BY <1>1, <1>3

LEMMA WeightOfNone == \A f : Weight(f, {}) = 0
<1>1. \A f : Weights(f, {}) = {}
  BY DEF Weights
<1> QED
  BY <1>1, FS_EmptySet DEF Weight

LEMMA WeightSame ==
    ASSUME NEW f, NEW g, NEW S, \A x \in S : f[x] = g[x]
    PROVE  Weight(f, S) = Weight(g, S)
<1>1. \A x \in S : {x} \X (1..f[x]) = {x} \X (1..g[x])
  OBVIOUS
<1>2. Weights(f, S) = Weights(g, S)
  BY <1>1, Zenon DEF Weights
<1> QED
  BY <1>2 DEF Weight

\* The sum a fold computes, by whatever order C takes.
SumBy(g, f, S, C) ==
    g = [ss \in SUBSET S |-> IF ss = {} THEN 0 ELSE g[ss \ {C[ss]}] + f[C[ss]]]

LEMMA WeightIsSum ==
    ASSUME NEW f, NEW S, IsFiniteSet(S), \A x \in S : f[x] \in Nat,
           NEW C, \A ss \in SUBSET S : ss # {} => C[ss] \in ss
    PROVE  SumBy([ss \in SUBSET S |-> Weight(f, ss)], f, S, C)
<1> DEFINE g == [ss \in SUBSET S |-> Weight(f, ss)]
<1>1. ASSUME NEW ss \in SUBSET S
      PROVE  g[ss] = IF ss = {} THEN 0 ELSE g[ss \ {C[ss]}] + f[C[ss]]
  <2>1. CASE ss = {}
    BY <2>1, WeightOfNone
  <2>2. CASE ss # {}
    <3>1. C[ss] \in ss /\ ss \ {C[ss]} \in SUBSET S /\ (ss \ {C[ss]}) \cup {C[ss]} = ss
      BY <2>2
    <3>2. Weight(f, ss) = Weight(f, ss \ {C[ss]}) + f[C[ss]]
      <4> DEFINE x == C[ss]
                 A == ss \ {x}
      <4>1. x \in S /\ A \in SUBSET S /\ x \notin A /\ A \cup {x} = ss
        BY <3>1
      <4>a. IsFiniteSet(A) /\ \A y \in A : f[y] \in Nat
        BY <4>1, FS_Subset
      <4> HIDE DEF x, A
      <4>2. Weight(f, A \cup {x}) = Weight(f, A) + f[x]
        BY <4>1, <4>a, WeightMore
      <4> QED
        BY <4>1, <4>2 DEF x, A
    <3> QED
      BY <2>2, <3>1, <3>2
  <2> QED
    BY <2>1, <2>2
<1>2. g = [ss \in SUBSET S |-> g[ss]]
  OBVIOUS
<1> HIDE DEF g
<1>3. g = [ss \in SUBSET S |-> IF ss = {} THEN 0 ELSE g[ss \ {C[ss]}] + f[C[ss]]]
  BY <1>1, <1>2
<1> QED
  BY <1>3 DEF SumBy, g

LEMMA SumIsWeight ==
    ASSUME NEW f, NEW S, IsFiniteSet(S), \A x \in S : f[x] \in Nat,
           NEW C, \A ss \in SUBSET S : ss # {} => C[ss] \in ss,
           NEW g, SumBy(g, f, S, C)
    PROVE  g[S] = Weight(f, S)
<1> DEFINE Erros == {ss \in SUBSET S : g[ss] # Weight(f, ss)}
           Tamanhos == {k \in Nat : \E ss \in Erros : Cardinality(ss) = k}
<1>1. \A ss \in SUBSET S : IsFiniteSet(ss) /\ Cardinality(ss) \in Nat
  BY FS_Subset, FS_CardinalityType
<1> SUFFICES ASSUME Erros # {} PROVE FALSE
  OBVIOUS
<1>2. PICK k \in Tamanhos : \A j \in Tamanhos : k <= j
  <2>1. Tamanhos \subseteq Nat /\ Tamanhos # {}
    BY <1>1
  <2> HIDE DEF Tamanhos
  <2> QED
    BY <2>1, LeastNatural
<1>3. PICK ss \in Erros : Cardinality(ss) = k
  BY <1>2
<1>4. ss # {}
  <2>1. g[{}] = 0
    <3>1. {} \in SUBSET S
      OBVIOUS
    <3> QED
      BY <3>1 DEF SumBy
  <2> QED
    BY <1>3, <2>1, WeightOfNone
<1> DEFINE x == C[ss]
           A == ss \ {x}
<1>5. ss \in SUBSET S /\ x \in ss /\ x \in S /\ A \in SUBSET S /\ x \notin A /\ A \cup {x} = ss
  BY <1>3, <1>4
<1>6. g[ss] = g[A] + f[x]
  BY <1>4, <1>5 DEF SumBy
<1> HIDE DEF x, A
<1>7. Cardinality(A) = k - 1 /\ k \in Nat
  <2>1. Cardinality(A \cup {x}) = Cardinality(A) + 1 /\ Cardinality(A) \in Nat
    BY <1>1, <1>5, FS_AddElement
  <2>2. Cardinality(A \cup {x}) = k /\ k \in Nat
    BY <1>2, <1>3, <1>5
  <2> DEFINE c == Cardinality(A)
  <2> HIDE DEF c
  <2>3. k = c + 1 /\ c \in Nat /\ k \in Nat
    BY <2>1, <2>2 DEF c
  <2> QED
    BY <2>3 DEF c
<1>8. A \notin Erros
  <2> SUFFICES ASSUME A \in Erros PROVE FALSE
    OBVIOUS
  <2>1. k - 1 \in Tamanhos
    BY <1>1, <1>5, <1>7
  <2> QED
    BY <1>2, <1>7, <2>1
<1>9. Weight(f, ss) = Weight(f, A) + f[x]
  <2>1. IsFiniteSet(A) /\ \A y \in A : f[y] \in Nat
    BY <1>1, <1>5
  <2> QED
    BY <1>5, <2>1, WeightMore
<1> QED
  BY <1>3, <1>5, <1>6, <1>8, <1>9

BytesDe(js) == LET soma(j, acc) == acc + Len(itens(2)[j].s) IN FoldSet(soma, 0, js)

Some(ss) == CHOOSE x \in ss : TRUE

\* The folds of the code compute weights.
LEMMA SomaIsWeight ==
    ASSUME NEW us, IsFiniteSet(us), NEW f, \A x \in us : f[x] \in Nat,
           \A x \in us : an.unicos[x].tam = f[x]
    PROVE  Soma(us) = Weight(f, us)
<1> DEFINE C == [ss \in SUBSET us |-> Some(ss)]
           T(g) == [ss \in SUBSET us |->
                     IF ss = {} THEN 0
                     ELSE g[ss \ {Some(ss)}] + an.unicos[Some(ss)].tam]
           g == CHOOSE g : g = T(g)
           h == [ss \in SUBSET us |-> Weight(f, ss)]
<1>1. \A ss \in SUBSET us : ss # {} => C[ss] \in ss
  BY DEF Some
<1>2. \A y : SumBy(y, f, us, C) <=> y = T(y)
  <2> SUFFICES ASSUME NEW y PROVE SumBy(y, f, us, C) <=> y = T(y)
    OBVIOUS
  <2> DEFINE D == [ss \in SUBSET us |-> IF ss = {} THEN 0 ELSE y[ss \ {C[ss]}] + f[C[ss]]]
  <2>1. ASSUME NEW ss \in SUBSET us
        PROVE  (IF ss = {} THEN 0 ELSE y[ss \ {C[ss]}] + f[C[ss]])
                 = IF ss = {} THEN 0
                   ELSE y[ss \ {Some(ss)}] + an.unicos[Some(ss)].tam
    <3>1. C[ss] = Some(ss)
      OBVIOUS
    <3> HIDE DEF C
    <3>2. ss # {} => f[C[ss]] = an.unicos[C[ss]].tam
      BY <1>1
    <3> QED
      BY <3>1, <3>2
  <2> HIDE DEF C
  <2>2. D = T(y)
    BY <2>1, Zenon
  <2>3. SumBy(y, f, us, C) <=> y = D
    BY Zenon DEF SumBy
  <2> HIDE DEF D, T
  <2> QED
    BY <2>2, <2>3
<1> HIDE DEF C
<1>3. SumBy(h, f, us, C)
  BY <1>1, WeightIsSum
<1>4. Soma(us) = g[us]
  BY Zenon DEF Soma, FoldSet, MapThenFoldSet, Some
<1>5. g = T(g)
  <2>1. \E y : y = T(y)
    BY <1>2, <1>3
  <2> HIDE DEF T
  <2> QED
    BY <2>1
<1> HIDE DEF g, T
<1>6. SumBy(g, f, us, C)
  BY <1>2, <1>5
<1>7. g[us] = Weight(f, us)
  BY <1>1, <1>6, SumIsWeight
<1> QED
  BY <1>4, <1>7

LEMMA BytesIsWeight ==
    ASSUME NEW js, IsFiniteSet(js), NEW f, \A x \in js : f[x] \in Nat,
           \A x \in js : Len(itens(2)[x].s) = f[x]
    PROVE  BytesDe(js) = Weight(f, js)
<1> DEFINE C == [ss \in SUBSET js |-> Some(ss)]
           T(g) == [ss \in SUBSET js |->
                     IF ss = {} THEN 0
                     ELSE g[ss \ {Some(ss)}] + Len(itens(2)[Some(ss)].s)]
           g == CHOOSE g : g = T(g)
           h == [ss \in SUBSET js |-> Weight(f, ss)]
<1>1. \A ss \in SUBSET js : ss # {} => C[ss] \in ss
  BY DEF Some
<1>2. \A y : SumBy(y, f, js, C) <=> y = T(y)
  <2> SUFFICES ASSUME NEW y PROVE SumBy(y, f, js, C) <=> y = T(y)
    OBVIOUS
  <2> DEFINE D == [ss \in SUBSET js |-> IF ss = {} THEN 0 ELSE y[ss \ {C[ss]}] + f[C[ss]]]
  <2>1. ASSUME NEW ss \in SUBSET js
        PROVE  (IF ss = {} THEN 0 ELSE y[ss \ {C[ss]}] + f[C[ss]])
                 = IF ss = {} THEN 0
                   ELSE y[ss \ {Some(ss)}] + Len(itens(2)[Some(ss)].s)
    <3>1. C[ss] = Some(ss)
      OBVIOUS
    <3> HIDE DEF C
    <3>2. ss # {} => f[C[ss]] = Len(itens(2)[C[ss]].s)
      BY <1>1
    <3> QED
      BY <3>1, <3>2
  <2> HIDE DEF C
  <2>2. D = T(y)
    BY <2>1, Zenon
  <2>3. SumBy(y, f, js, C) <=> y = D
    BY Zenon DEF SumBy
  <2> HIDE DEF D, T
  <2> QED
    BY <2>2, <2>3
<1> HIDE DEF C
<1>3. SumBy(h, f, js, C)
  BY <1>1, WeightIsSum
<1>4. BytesDe(js) = g[js]
  BY Zenon DEF BytesDe, FoldSet, MapThenFoldSet, Some
<1>5. g = T(g)
  <2>1. \E y : y = T(y)
    BY <1>2, <1>3
  <2> HIDE DEF T
  <2> QED
    BY <2>1
<1> HIDE DEF g, T
<1>6. SumBy(g, f, js, C)
  BY <1>2, <1>5
<1>7. g[js] = Weight(f, js)
  BY <1>1, <1>6, SumIsWeight
<1> QED
  BY <1>4, <1>7

LEMMA TotalIsWeight ==
    ASSUME NEW s \in Seq(Arquivo), NEW f, \A j \in DOMAIN s : f[j] = Len(s[j].s)
    PROVE  Total(s) = Weight(f, DOMAIN s)
<1> DEFINE D == DOMAIN s
           C == [ss \in SUBSET D |-> Max(ss)]
           T(g) == [ss \in SUBSET D |-> IF ss = {} THEN 0 ELSE g[ss \ {Max(ss)}] + Len(s[Max(ss)].s)]
           g == CHOOSE g : g = T(g)
           h == [ss \in SUBSET D |-> Weight(f, ss)]
<1>0. D = 1..Len(s) /\ Len(s) \in Nat /\ IsFiniteSet(D) /\ \A j \in D : f[j] \in Nat
  <2>1. D = 1..Len(s) /\ Len(s) \in Nat
    OBVIOUS
  <2>2. IsFiniteSet(D)
    BY <2>1, FS_Interval
  <2>3. ASSUME NEW j \in D PROVE f[j] \in Nat
    <3>1. s[j] \in Arquivo
      BY <2>1
    <3>2. s[j].s \in Seq(Nat)
      BY <3>1 DEF Arquivo
    <3> QED
      BY <3>2
  <2> QED
    BY <2>1, <2>2, <2>3
<1>1. \A ss \in SUBSET D : ss # {} => C[ss] \in ss
  BY <1>0, MaxOf
<1>2. \A y : SumBy(y, f, D, C) <=> y = T(y)
  <2>1. ASSUME NEW y, NEW ss \in SUBSET D
        PROVE  (IF ss = {} THEN 0 ELSE y[ss \ {C[ss]}] + f[C[ss]])
                 = IF ss = {} THEN 0 ELSE y[ss \ {Max(ss)}] + Len(s[Max(ss)].s)
    <3>1. C[ss] = Max(ss)
      OBVIOUS
    <3> HIDE DEF C
    <3>2. ss # {} => f[C[ss]] = Len(s[C[ss]].s)
      BY <1>1
    <3> QED
      BY <3>1, <3>2
  <2> HIDE DEF C
  <2> QED
    BY <2>1, Zenon DEF SumBy
<1> HIDE DEF C
<1>3. SumBy(h, f, D, C)
  BY <1>0, <1>1, WeightIsSum
<1>4. Total(s) = g[D]
  BY Zenon DEF Total, FoldLeft, MapThenFoldSet
<1>5. g = T(g)
  <2>1. \E y : y = T(y)
    BY <1>2, <1>3
  <2> HIDE DEF T
  <2> QED
    BY <2>1
<1> HIDE DEF g, T
<1>6. SumBy(g, f, D, C)
  BY <1>2, <1>5
<1>7. g[D] = Weight(f, D)
  BY <1>0, <1>1, <1>6, SumIsWeight
<1> QED
  BY <1>4, <1>7

----------------------------------------------------------------------------
\* What depends on the files alone.
LEMMA FilesStay ==
    ASSUME UNCHANGED <<par, tarefa>>
    PROVE  /\ \A v \in Vers : itens(v)' = itens(v)
           /\ itens(1)' = itens(1) /\ itens(2)' = itens(2)
           /\ Sizes(2)' = Sizes(2) /\ Velhos' = Velhos /\ Repetidos' = Repetidos
<1>1. \A v \in Vers : itens(v)' = itens(v)
  BY ItemsStay
<1>2. itens(1)' = itens(1) /\ itens(2)' = itens(2)
  BY <1>1 DEF Vers
<1> QED
  BY <1>1, <1>2, Zenon DEF Sizes, Velhos, Repetidos, EmV1

\* What is known stays known.
LEMMA FoundStays ==
    ASSUME NEW un, NEW un2, Len(un) \in Nat, Len(un2) \in Nat, Len(un) <= Len(un2),
           \A u \in 1..Len(un) : un2[u] = un[u],
           NEW cfg, NEW P, NEW s, NEW n, NEW v, Achados(un, cfg, P, s, n, v)
    PROVE  Achados(un2, cfg, P, s, n, v)
<1>1. \A h : Achado(un, h, v) => Achado(un2, h, v)
  BY DEF Achado
<1> QED
  BY <1>1, Zenon DEF Achados

\* The files that do not get on.
LEMMA CutsKept ==
    ASSUME CortesOK, ScanTypeOK, UNCHANGED <<par, tarefa>>,
           Len(an'.unicos) \in Nat, Len(an.unicos) <= Len(an'.unicos),
           \A u \in 1..Len(an.unicos) : an'.unicos[u] = an.unicos[u],
           NEW v \in Vers, NEW j \in 1..Len(itens(v)), Comecado(v, j), Ate(v, j)' = Ate(v, j)
    PROVE  \E P \in SUBSET (0..Ate(v, j)') :
              Achados(an'.unicos, tarefa'.chunker, P, itens(v)'[j].s, Ate(v, j)', v)
<1>1. itens(v)' = itens(v) /\ Len(an.unicos) \in Nat
  BY FilesStay DEF ScanTypeOK
<1>2. PICK P \in SUBSET (0..Ate(v, j)) :
              Achados(an.unicos, tarefa.chunker, P, itens(v)[j].s, Ate(v, j), v)
  BY DEF CortesOK
<1>3. Achados(an'.unicos, tarefa.chunker, P, itens(v)[j].s, Ate(v, j), v)
  BY <1>1, <1>2, FoundStays
<1> QED
  BY <1>1, <1>2, <1>3

\* The step neither reads nor moves on.
LEMMA SameBInv ==
    ASSUME CortesOK, ContasOK, SomasOK, ScanTypeOK, UNCHANGED <<par, tarefa>>,
           an'.ver = an.ver, an'.i = an.i, an'.pos = an.pos, an'.unicos = an.unicos,
           an'.vs_v1 = an.vs_v1, an'.dup_total = an.dup_total,
           an'.at = an.at \/ (an.at = "reconstruir" /\ an'.at = "fim")
    PROVE  CortesOK' /\ ContasOK' /\ SomasOK'
<1>1. /\ \A v \in Vers : itens(v)' = itens(v)
      /\ itens(1)' = itens(1) /\ itens(2)' = itens(2)
      /\ Sizes(2)' = Sizes(2) /\ Velhos' = Velhos /\ Repetidos' = Repetidos
  BY FilesStay
<1>2. Len(an.unicos) \in Nat /\ an.ver \in Vers
  BY DEF ScanTypeOK
<1>3. CortesOK'
  <2>1. \A v \in Vers, j \in Nat : Ate(v, j)' = Ate(v, j) /\ (Comecado(v, j)' <=> Comecado(v, j))
    BY <1>1 DEF Ate, Comecado
  <2>2. ASSUME NEW v \in Vers, NEW j \in 1..Len(itens(v)), Comecado(v, j)
        PROVE  \E P \in SUBSET (0..Ate(v, j)') :
                  Achados(an'.unicos, tarefa'.chunker, P, itens(v)'[j].s, Ate(v, j)', v)
    <3>1. Ate(v, j)' = Ate(v, j) /\ Len(an'.unicos) \in Nat /\ Len(an.unicos) <= Len(an'.unicos)
      BY <1>2, <2>1
    <3> QED
      BY <2>2, <3>1, CutsKept
  <2>3. Item' = Item
    <3>1. itens(an.ver)' = itens(an.ver)
      BY DEF itens, Fonte
    <3> QED
      BY <3>1 DEF Item
  <2>4. itens(an.ver)' = itens(an.ver)
    BY DEF itens, Fonte
  <2> QED
    BY <1>1, <2>1, <2>2, <2>3, <2>4 DEF CortesOK
<1>4. ContasOK'
  BY <1>1 DEF ContasOK
<1>5. Tams' = Tams /\ Unicos(2)' = Unicos(2) /\ \A J : Lido(J)' = Lido(J)
  BY <1>1 DEF Tams, Unicos, Lido
<1>6. SomasOK'
  BY <1>1, <1>5 DEF SomasOK
<1> QED
  BY <1>3, <1>4, <1>6

LEMMA CutNone ==
    ASSUME NEW un, NEW cfg, NEW s, NEW v
    PROVE  \E P \in SUBSET (0..0) : Achados(un, cfg, P, s, 0, v)
<1>1. Achados(un, cfg, {0}, s, 0, v) /\ {0} \in SUBSET (0..0)
  BY DEF Achados
<1> QED
  BY <1>1

LEMMA CutMore ==
    ASSUME NEW un, NEW cfg, NEW s, NEW v, NEW n \in Nat, NEW P \in SUBSET (0..n),
           Achados(un, cfg, P, s, n, v), NEW t \in Nat \ {0}, t = chunkear(s, n, cfg),
           Achado(un, Pedaco(cfg, s, n), v)
    PROVE  \E Q \in SUBSET (0..(n + t)) : Achados(un, cfg, Q, s, n + t, v)
<1> DEFINE Q == P \cup {n + t}
<1>1. Q \in SUBSET (0..(n + t)) /\ 0 \in Q /\ n + t \in Q
  <2>1. n + t \in 0..(n + t) /\ \A x \in 0..n : x \in 0..(n + t)
    OBVIOUS
  <2>2. 0 \in P
    BY DEF Achados
  <2> QED
    BY <2>1, <2>2
<1>2. ASSUME NEW q \in Q, q < n + t
      PROVE  q + chunkear(s, q, cfg) \in Q /\ Achado(un, Pedaco(cfg, s, q), v)
  <2>1. q \in P /\ (q < n \/ q = n)
    BY <1>2
  <2>2. CASE q < n
    BY <2>1, <2>2 DEF Achados
  <2>3. CASE q = n
    BY <2>3
  <2> QED
    BY <2>1, <2>2, <2>3
<1> HIDE DEF Q
<1>3. Achados(un, cfg, Q, s, n + t, v)
  BY <1>1, <1>2 DEF Achados
<1> QED
  BY <1>1, <1>3

\* What is read of the second version is of its files.
LEMMA WeightOfFiles ==
    ASSUME ScanTypeOK, NEW J \in SUBSET DOMAIN itens(2)
    PROVE  /\ DOMAIN itens(2) = 1..Len(itens(2)) /\ Len(itens(2)) \in Nat
           /\ IsFiniteSet(J) /\ Weight(Sizes(2), J) \in Nat
           /\ \A j \in DOMAIN itens(2) : Sizes(2)[j] = Len(itens(2)[j].s) /\ Sizes(2)[j] \in Nat
<1>1. DOMAIN itens(2) = 1..Len(itens(2)) /\ Len(itens(2)) \in Nat
  <2>1. itens(2) \in Seq(Arquivo)
    BY ItemsAreFiles DEF ScanTypeOK, Vers
  <2> QED
    BY <2>1
<1>2. \A j \in DOMAIN itens(2) : Sizes(2)[j] = Len(itens(2)[j].s) /\ Sizes(2)[j] \in Nat
  <2>1. \A j \in 1..Len(itens(2)) : Len(itens(2)[j].s) \in Nat
    BY ItemIsSeq DEF ScanTypeOK, Vers
  <2> QED
    BY <1>1, <2>1 DEF Sizes
<1>3. IsFiniteSet(J)
  <2>1. IsFiniteSet(1..Len(itens(2)))
    BY <1>1, FS_Interval
  <2> QED
    BY <1>1, <2>1, FS_Subset
<1>4. Weight(Sizes(2), J) \in Nat
  BY <1>2, <1>3, WeightIsNat
<1> QED
  BY <1>1, <1>2, <1>3, <1>4

\* The scan starts.
LEMMA AnalisarBInv ==
    ASSUME BInv, NEW tipo \in {"arvore", "tar"}, NEW cfg \in Chunkers, Analisar(tipo, cfg), AInv'
    PROVE  CortesOK' /\ ContasOK' /\ SomasOK'
<1>1. /\ an'.at = "varrer" /\ an'.ver = 1 /\ an'.i = 1 /\ an'.pos = 0 /\ an'.unicos = <<>>
      /\ an'.vs_v1 = 0 /\ an'.dup_total = 0
  <2>1. an' = [NoScan EXCEPT !.at = "varrer"]
    BY DEF Analisar
  <2> QED
    BY <2>1 DEF NoScan
<1>2. CortesOK'
  <2>1. ASSUME NEW v \in Vers, NEW j \in 1..Len(itens(v)'), Comecado(v, j)'
        PROVE  \E P \in SUBSET (0..Ate(v, j)') :
                  Achados(an'.unicos, tarefa'.chunker, P, itens(v)'[j].s, Ate(v, j)', v)
    <3>1. v = 1 /\ j = 1
      BY <1>1, <2>1 DEF Comecado, Vers
    <3>2. Ate(v, j)' = 0
      BY <1>1, <3>1 DEF Ate
    <3> QED
      BY <3>2, CutNone
  <2>2. an'.pos = 0 /\ \A P : Corta(tarefa'.chunker, P, Item') => 0 \in P
    BY <1>1 DEF Corta
  <2> QED
    BY <2>1, <2>2 DEF CortesOK
<1>3. ContasOK'
  BY <1>1 DEF ContasOK
<1>4. SomasOK'
  <2>1. \A J : Lido(J)' = 0
    BY <1>1 DEF Lido
  <2>2. Weight(Tams, Unicos(2))' = 0
    <3>1. Unicos(2)' = {}
      BY <1>1 DEF Unicos
    <3>2. Weight(Tams', {}) = 0
      BY WeightOfNone
    <3> QED
      BY <3>1, <3>2
  <2> QED
    BY <1>1, <2>1, <2>2 DEF SomasOK
<1> QED
  BY <1>2, <1>3, <1>4

\* What is read stays read when the scan goes to the next file.
LEMMA ReadStays ==
    ASSUME ScanTypeOK, an.ver = 2, NEW i \in 1..Len(itens(2)), NEW J \in SUBSET DOMAIN itens(2)
    PROVE  Weight(Sizes(2), J \cap (1..i))
             = Weight(Sizes(2), J \cap (1..(i - 1))) + (IF i \in J THEN Sizes(2)[i] ELSE 0)
<1>1. /\ DOMAIN itens(2) = 1..Len(itens(2)) /\ Len(itens(2)) \in Nat
      /\ \A j \in DOMAIN itens(2) : Sizes(2)[j] \in Nat
  BY WeightOfFiles
<1>2. i \in Nat /\ 1..i = (1..(i - 1)) \cup {i} /\ i \notin 1..(i - 1)
  BY <1>1
<1> DEFINE A == J \cap (1..(i - 1))
<1>3. /\ A \in SUBSET DOMAIN itens(2) /\ IsFiniteSet(A) /\ Weight(Sizes(2), A) \in Nat /\ i \notin A
      /\ \A j \in A : Sizes(2)[j] \in Nat
  <2>1. A \in SUBSET DOMAIN itens(2) /\ i \notin A
    BY <1>2
  <2> HIDE DEF A
  <2> QED
    BY <1>1, <2>1, WeightOfFiles
<1>4. CASE i \in J
  <2>1. J \cap (1..i) = A \cup {i} /\ Sizes(2)[i] \in Nat
    BY <1>1, <1>2, <1>4
  <2> HIDE DEF A
  <2>2. Weight(Sizes(2), A \cup {i}) = Weight(Sizes(2), A) + Sizes(2)[i]
    BY <1>3, <2>1, WeightMore
  <2> QED
    BY <1>4, <2>1, <2>2 DEF A
<1>5. CASE i \notin J
  <2>1. J \cap (1..i) = A
    BY <1>2, <1>5
  <2>2. Weight(Sizes(2), A) = Weight(Sizes(2), A) + 0
    <3> HIDE DEF A
    <3> QED
      BY <1>3
  <2> QED
    BY <1>5, <2>1, <2>2, Zenon
<1> QED
  BY <1>4, <1>5

LEMMA MoveBInv ==
    ASSUME BInv, ProximoItem \/ ProximaVersao
    PROVE  CortesOK' /\ ContasOK' /\ SomasOK'
<1>0. PICK V \in Vers : V = an.ver
  BY DEF BInv, AInv, ScanTypeOK
<1>1. /\ ScanTypeOK /\ Andamento /\ CortesOK /\ ContasOK /\ SomasOK /\ an.at = "varrer"
      /\ UNCHANGED <<par, tarefa>> /\ DOMAIN an = Campos
  BY DEF BInv, AInv, ProximoItem, ProximaVersao, ScanTypeOK
<1>2. /\ an'.unicos = an.unicos /\ an'.vs_v1 = an.vs_v1 /\ an'.dup_total = an.dup_total
      /\ \/ /\ an.i <= Len(itens(V)) /\ an.pos = Len(itens(V)[an.i].s)
            /\ an'.at = "varrer" /\ an'.ver = V /\ an'.i = an.i + 1 /\ an'.pos = 0
         \/ /\ an.i > Len(itens(V)) /\ V = 1
            /\ an'.at = "varrer" /\ an'.ver = 2 /\ an'.i = 1 /\ an'.pos = an.pos
         \/ /\ an.i > Len(itens(V)) /\ V = 2
            /\ an'.at = "reconstruir" /\ an'.ver = 2 /\ an'.i = an.i /\ an'.pos = an.pos
  <2>1. CASE ProximoItem
    BY <1>0, <1>1, <2>1 DEF ProximoItem, Item, Campos
  <2>2. CASE ProximaVersao
    BY <1>0, <1>1, <2>2 DEF ProximaVersao, Campos, Vers
  <2> QED
    BY <2>1, <2>2
<1>3. /\ \A v \in Vers : itens(v)' = itens(v) /\ Len(itens(v)) \in Nat
      /\ an.i \in Nat \ {0} /\ an.pos \in Nat /\ Len(an.unicos) \in Nat
  <2>1. \A v \in Vers : itens(v)' = itens(v)
    BY <1>1, ItemsStay
  <2>2. \A v \in Vers : itens(v) \in Seq(Arquivo)
    BY <1>1, ItemsAreFiles DEF ScanTypeOK
  <2>3. an.i \in Nat \ {0} /\ an.pos \in Nat /\ Len(an.unicos) \in Nat
    BY <1>1 DEF ScanTypeOK
  <2> QED
    BY <2>1, <2>2, <2>3
<1>4. an.i <= Len(itens(V)) \/ (an.i = Len(itens(V)) + 1 /\ an.pos = 0)
  <2>1. Len(an.ini[V]) \in Nat
    BY <1>1 DEF ScanTypeOK
  <2>2. an.i <= Len(itens(V)) + 1 /\ \/ Len(an.ini[V]) = an.i - 1 /\ an.pos = 0
                                     \/ Len(an.ini[V]) = an.i /\ an.i <= Len(itens(V))
    BY <1>0, <1>1 DEF Andamento
  <2> QED
    BY <1>3, <2>1, <2>2
<1>5. CortesOK'
  <2>1. ASSUME NEW v \in Vers, NEW j \in 1..Len(itens(v)'), Comecado(v, j)'
        PROVE  \E P \in SUBSET (0..Ate(v, j)') :
                  Achados(an'.unicos, tarefa'.chunker, P, itens(v)'[j].s, Ate(v, j)', v)
    <3>0. j \in 1..Len(itens(v)) /\ j \in Nat \ {0} /\ itens(v)' = itens(v)
      BY <1>3, <2>1
    <3>1. \/ Ate(v, j)' = 0
          \/ Comecado(v, j) /\ Ate(v, j)' = Ate(v, j)
      <4>1. CASE an.i <= Len(itens(V))
        <5>1. an'.at = "varrer" /\ an'.ver = V /\ an'.i = an.i + 1 /\ an'.pos = 0
              /\ an.pos = Len(itens(V)[an.i].s)
          BY <1>2, <1>3, <4>1
        <5>2. v < V \/ (v = V /\ j <= an.i + 1)
          BY <2>1, <5>1 DEF Comecado
        <5>3. CASE v = V /\ j = an.i + 1
          BY <5>1, <5>3 DEF Ate
        <5>4. CASE v # V
          BY <1>0, <3>0, <5>1, <5>2, <5>4 DEF Ate, Comecado
        <5>5. CASE v = V /\ j # an.i + 1
          <6>1. j <= an.i
            BY <1>3, <3>0, <5>2, <5>5 DEF Vers
          <6> QED
            BY <1>0, <1>1, <3>0, <5>1, <5>5, <6>1 DEF Ate, Comecado
        <5> QED
          BY <5>3, <5>4, <5>5
      <4>2. CASE an.i > Len(itens(V)) /\ V = 1
        <5>1. an'.at = "varrer" /\ an'.ver = 2 /\ an'.i = 1 /\ an'.pos = 0
          BY <1>2, <1>3, <1>4, <4>2
        <5>2. CASE v = 2
          <6>1. j <= 1
            BY <2>1, <5>1, <5>2 DEF Comecado
          <6>2. j = 1
            BY <3>0, <6>1
          <6> QED
            BY <5>1, <5>2, <6>2 DEF Ate
        <5>3. CASE v = 1
          <6>1. j < an.i
            BY <1>3, <3>0, <4>2, <5>3
          <6> QED
            BY <1>0, <1>1, <1>3, <3>0, <4>2, <5>1, <5>3, <6>1 DEF Ate, Comecado
        <5> QED
          BY <5>2, <5>3 DEF Vers
      <4>3. CASE an.i > Len(itens(V)) /\ V = 2
        <5>1. an'.at = "reconstruir"
          BY <1>2, <1>3, <4>3
        <5>2. v = V => j < an.i
          BY <1>3, <3>0, <4>3
        <5>3. Ate(v, j)' = Len(itens(v)[j].s) /\ Ate(v, j) = Len(itens(v)[j].s)
          BY <1>0, <1>3, <3>0, <5>1, <5>2 DEF Ate
        <5>4. Comecado(v, j)
          BY <1>0, <1>3, <3>0, <4>3, <5>2 DEF Comecado, Vers
        <5> QED
          BY <5>3, <5>4
      <4> QED
        BY <1>2, <4>1, <4>2, <4>3
    <3>2. CASE Ate(v, j)' = 0
      BY <3>2, CutNone
    <3>3. CASE Comecado(v, j) /\ Ate(v, j)' = Ate(v, j)
      BY <1>1, <1>2, <1>3, <3>0, <3>3, CutsKept
    <3> QED
      BY <3>1, <3>2, <3>3
  <2>2. an'.at = "varrer" => an'.pos = 0
    BY <1>2, <1>3, <1>4
  <2>3. \A P : Corta(tarefa'.chunker, P, Item') => 0 \in P
    BY DEF Corta
  <2> QED
    BY <2>1, <2>2, <2>3 DEF CortesOK
<1>6. itens(2)' = itens(2) /\ Sizes(2)' = Sizes(2) /\ Velhos' = Velhos /\ Repetidos' = Repetidos
  BY <1>1, FilesStay
<1>7. ContasOK'
  <2>1. an'.at \in {"reconstruir", "fim"} => an'.i = Len(itens(2)) + 1 /\ an'.pos = 0
    BY <1>2, <1>3, <1>4
  <2>2. an'.ver = 1 => an.ver = 1
    BY <1>0, <1>2
  <2> QED
    BY <1>1, <1>2, <1>6, <2>1, <2>2 DEF ContasOK
<1>8. ASSUME NEW J \in SUBSET DOMAIN itens(2) PROVE Lido(J)' = Lido(J)
  <2>0. /\ DOMAIN itens(2) = 1..Len(itens(2)) /\ Len(itens(2)) \in Nat
        /\ \A j \in DOMAIN itens(2) : Sizes(2)[j] = Len(itens(2)[j].s) /\ Sizes(2)[j] \in Nat
    BY <1>1, WeightOfFiles
  <2>1. CASE an.i <= Len(itens(V)) /\ V = 2
    <3>1. an'.ver = 2 /\ an'.i = an.i + 1 /\ an'.pos = 0 /\ an.pos = Len(itens(2)[an.i].s)
      BY <1>2, <1>3, <2>1
    <3>2. an.i \in 1..Len(itens(2)) /\ an'.i - 1 = an.i
      BY <1>3, <2>1, <3>1
    <3>3. an.pos = Sizes(2)[an.i]
      BY <2>0, <3>1, <3>2
    <3>4. Weight(Sizes(2), J \cap (1..an.i))
             = Weight(Sizes(2), J \cap (1..(an.i - 1))) + (IF an.i \in J THEN Sizes(2)[an.i] ELSE 0)
      BY <1>0, <1>1, <2>1, <3>2, ReadStays
    <3>5. Weight(Sizes(2), J \cap (1..an.i)) \in Nat
      BY <1>1, WeightOfFiles
    <3>6. Lido(J)' = Weight(Sizes(2), J \cap (1..an.i))
      <4>1. Lido(J)' = Weight(Sizes(2)', J \cap (1..(an'.i - 1))) + (IF an'.i \in J THEN an'.pos ELSE 0)
        BY <3>1 DEF Lido
      <4>2. (IF an'.i \in J THEN an'.pos ELSE 0) = 0
        BY <3>1
      <4>3. Lido(J)' = Weight(Sizes(2), J \cap (1..an.i)) + 0
        BY <1>6, <3>2, <4>1, <4>2, Zenon
      <4> QED
        BY <3>5, <4>3
    <3> QED
      BY <1>0, <2>1, <3>3, <3>4, <3>6 DEF Lido, Vers
  <2>2. CASE an.i <= Len(itens(V)) /\ V = 1
    <3>1. an'.ver = 1
      BY <1>2, <1>3, <2>2
    <3> QED
      BY <1>0, <2>2, <3>1 DEF Lido
  <2>3. CASE an.i > Len(itens(V)) /\ V = 1
    <3>1. an'.ver = 2 /\ an'.i = 1 /\ an'.pos = 0
      BY <1>2, <1>3, <1>4, <2>3
    <3>2. J \cap (1..(an'.i - 1)) = {}
      BY <3>1
    <3>3. Lido(J)' = 0
      BY <3>1, <3>2, WeightOfNone DEF Lido
    <3> QED
      BY <1>0, <2>3, <3>3 DEF Lido
  <2>4. CASE an.i > Len(itens(V)) /\ V = 2
    <3>1. an'.ver = 2 /\ an.ver = 2 /\ an'.i = an.i /\ an'.pos = an.pos
      BY <1>0, <1>2, <1>3, <2>4
    <3> QED
      BY <1>6, <3>1, Zenon DEF Lido
  <2> QED
    BY <1>3, <2>1, <2>2, <2>3, <2>4 DEF Vers
<1>9. SomasOK'
  <2>1. Lido(DOMAIN itens(2))' = Lido(DOMAIN itens(2)) /\ Lido(Velhos)' = Lido(Velhos)
        /\ Lido(Repetidos)' = Lido(Repetidos)
    <3>1. \A J : (J \in SUBSET DOMAIN itens(2) => Lido(J)' = Lido(J))
      BY <1>8
    <3>2. Velhos \in SUBSET DOMAIN itens(2) /\ Repetidos \in SUBSET DOMAIN itens(2)
      BY DEF Velhos, Repetidos
    <3> QED
      BY <1>6, <3>1, <3>2 DEF Lido
  <2>2. Tams' = Tams /\ Unicos(2)' = Unicos(2)
    BY <1>2 DEF Tams, Unicos
  <2> QED
    BY <1>1, <1>2, <2>1, <2>2 DEF SomasOK
<1> QED
  BY <1>5, <1>7, <1>9

LEMMA WeightOfChunks ==
    ASSUME an.unicos \in Seq(Unico), NEW us \in SUBSET (1..Len(an.unicos))
    PROVE  /\ DOMAIN an.unicos = 1..Len(an.unicos) /\ Len(an.unicos) \in Nat /\ IsFiniteSet(us)
           /\ \A u \in 1..Len(an.unicos) : Tams[u] = an.unicos[u].tam /\ Tams[u] \in Nat
           /\ Weight(Tams, us) \in Nat
<1>1. DOMAIN an.unicos = 1..Len(an.unicos) /\ Len(an.unicos) \in Nat
  OBVIOUS
<1>2. \A u \in 1..Len(an.unicos) : Tams[u] = an.unicos[u].tam /\ Tams[u] \in Nat
  <2>1. \A u \in 1..Len(an.unicos) : an.unicos[u] \in Unico
    OBVIOUS
  <2> QED
    BY <1>1, <2>1 DEF Tams, Unico
<1>3. IsFiniteSet(us)
  <2>1. IsFiniteSet(1..Len(an.unicos))
    BY <1>1, FS_Interval
  <2> QED
    BY <2>1, FS_Subset
<1>4. Weight(Tams, us) \in Nat
  BY <1>2, <1>3, WeightIsNat
<1> QED
  BY <1>1, <1>2, <1>3, <1>4

LEMMA KnownIsFound ==
    ASSUME an.unicos \in Seq(Unico), NEW h, NEW v, Achado(an.unicos, h, v)
    PROVE  Conhecido(h) # 0
<1> DEFINE us == {u \in DOMAIN an.unicos : an.unicos[u].h = h}
<1>1. Conhecido(h) = IF us = {} THEN 0 ELSE Min(us)
  BY DEF Conhecido
<1>2. us \subseteq Nat /\ us # {} /\ DOMAIN an.unicos = 1..Len(an.unicos)
  BY DEF Achado
<1>3. Min(us) \in us
  <2> HIDE DEF us
  <2> QED
    BY <1>2, MinIsIn
<1> QED
  BY <1>1, <1>2, <1>3

\* A chunk: what it does to the sums, and where it is found when its file was met before.
LEMMA ChunkBInv ==
    ASSUME BInv, Chunk, AInv'
    PROVE  CortesOK' /\ ContasOK' /\ SomasOK'
<1>0. PICK V \in Vers : V = an.ver
  BY DEF BInv, AInv, ScanTypeOK
<1>1. /\ ScanTypeOK /\ ScanTypeOK' /\ CortesOK /\ ContasOK /\ SomasOK /\ an.at = "varrer"
      /\ UNCHANGED <<par, tarefa>> /\ DOMAIN an = Campos
  BY DEF BInv, AInv, Chunk, ScanTypeOK
<1> DEFINE s == itens(V)[an.i].s
           i == an.i
           un == an.unicos
           cfg == tarefa.chunker
<1>a. PICK tam : tam = chunkear(s, an.pos, cfg)
  OBVIOUS
<1>b. PICK h : h = SubSeq(s, an.pos + 1, an.pos + tam)
  OBVIOUS
<1>c. PICK c : c = Conhecido(h)
  OBVIOUS
<1>d. PICK novo : novo = [h |-> h, ver |-> V, obj |-> i, off |-> an.pos, tam |-> tam]
  OBVIOUS
<1>2. /\ i <= Len(itens(V)) /\ an.pos < Len(s)
      /\ an'.at = "varrer" /\ an'.ver = V /\ an'.i = i
      /\ an'.pos = an.pos + tam
      /\ an'.unicos = IF c = 0 THEN Append(un, novo) ELSE un
      /\ an'.dup_total = IF c # 0 /\ V = 2 THEN an.dup_total + tam ELSE an.dup_total
      /\ an'.vs_v1 = IF c # 0 /\ V = 2 /\ un[c].ver = 1 THEN an.vs_v1 + tam ELSE an.vs_v1
  <2>1. Item = s
    BY <1>0 DEF Item
  <2> HIDE DEF s
  <2>2. i <= Len(itens(V)) /\ an.pos < Len(s)
    BY <1>0, <2>1 DEF Chunk
  <2>3. an'.at = "varrer" /\ an'.ver = V /\ an'.i = i
    BY <1>0, <1>1 DEF Chunk, Campos
  <2>4. an'.pos = an.pos + tam
    BY <1>1, <1>a, <2>1 DEF Chunk, Campos
  <2>5. an'.unicos = IF c = 0 THEN Append(un, novo) ELSE un
    BY <1>0, <1>1, <1>a, <1>b, <1>c, <1>d, <2>1 DEF Chunk, Campos
  <2>6. an'.dup_total = IF c # 0 /\ V = 2 THEN an.dup_total + tam ELSE an.dup_total
    BY <1>0, <1>1, <1>a, <1>b, <1>c, <2>1 DEF Chunk, Campos
  <2>7. an'.vs_v1 = IF c # 0 /\ V = 2 /\ un[c].ver = 1 THEN an.vs_v1 + tam ELSE an.vs_v1
    BY <1>0, <1>1, <1>a, <1>b, <1>c, <2>1 DEF Chunk, Campos
  <2> QED
    BY <2>2, <2>3, <2>4, <2>5, <2>6, <2>7
<1>3. /\ i \in 1..Len(itens(V)) /\ s \in Seq(Nat) /\ Len(s) \in Nat /\ an.pos \in 0..(Len(s) - 1)
      /\ cfg \in Chunkers /\ i \in Nat \ {0} /\ an.pos \in Nat
  <2>1. i \in 1..Len(itens(V)) /\ i \in Nat \ {0} /\ an.pos \in Nat
    <3>1. Len(itens(V)) \in Nat /\ i \in Nat \ {0} /\ an.pos \in Nat
      BY <1>1, ItemsAreFiles DEF ScanTypeOK
    <3> QED
      BY <1>2, <3>1
  <2>2. s \in Seq(Nat) /\ Len(s) \in Nat
    BY <1>1, <2>1, ItemIsSeq DEF ScanTypeOK
  <2> HIDE DEF s
  <2> QED
    BY <1>1, <1>2, <2>1, <2>2 DEF ScanTypeOK
<1>4. tam \in Nat \ {0} /\ an.pos + tam <= Len(s)
  <2> HIDE DEF s, cfg
  <2>1. tam \in 1..(Len(s) - an.pos)
    BY <1>a, <1>3, ChunkSize
  <2> QED
    BY <1>3, <2>1
<1>5. h = Pedaco(cfg, s, an.pos)
  BY <1>a, <1>b DEF Pedaco
<1>6. /\ \A v \in Vers : itens(v)' = itens(v) /\ Len(itens(v)) \in Nat
      /\ itens(2)' = itens(2) /\ Sizes(2)' = Sizes(2) /\ Velhos' = Velhos /\ Repetidos' = Repetidos
      /\ itens(an.ver)' = itens(V)
  <2>1. \A v \in Vers : Len(itens(v)) \in Nat
    BY <1>1, ItemsAreFiles DEF ScanTypeOK
  <2>2. itens(an.ver)' = itens(V)
    BY <1>1, <1>2 DEF itens, Fonte
  <2> QED
    BY <1>1, <2>1, <2>2, FilesStay
<1>7. Item = s /\ Item' = s
  BY <1>0, <1>2, <1>6 DEF Item
<1> HIDE DEF s, i, un, cfg
<1>8. /\ un \in Seq(Unico) /\ Len(un) \in Nat /\ an'.unicos \in Seq(Unico) /\ Len(an'.unicos) \in Nat
      /\ Len(un) <= Len(an'.unicos) /\ \A u \in 1..Len(un) : an'.unicos[u] = un[u]
  <2>1. un \in Seq(Unico) /\ an'.unicos \in Seq(Unico)
    BY <1>1 DEF ScanTypeOK, un
  <2>2. Len(un) \in Nat /\ Len(an'.unicos) \in Nat
    BY <2>1
  <2>3. CASE c = 0
    <3>1. DOMAIN Append(un, novo) = 1..(Len(un) + 1) /\ Len(Append(un, novo)) = Len(un) + 1
          /\ \A u \in 1..Len(un) : Append(un, novo)[u] = un[u]
      BY <2>1
    <3> QED
      BY <1>2, <2>1, <2>2, <2>3, <3>1
  <2>4. CASE c # 0
    BY <1>2, <2>1, <2>2, <2>4
  <2> QED
    BY <2>3, <2>4
<1>9. c # 0 => c \in 1..Len(un) /\ un[c].h = h /\ an'.unicos = un
  BY <1>2, <1>8, <1>c, KnownChunk DEF un
<1>10. c = 0 => /\ an'.unicos = Append(un, novo) /\ Len(an'.unicos) = Len(un) + 1
                /\ an'.unicos[Len(un) + 1] = novo
                /\ novo.h = h /\ novo.ver = V /\ novo.obj = i /\ novo.tam = tam
                /\ \A u \in 1..Len(un) : un[u].h # h
  <2> SUFFICES ASSUME c = 0
               PROVE  /\ an'.unicos = Append(un, novo) /\ Len(an'.unicos) = Len(un) + 1
                      /\ an'.unicos[Len(un) + 1] = novo
                      /\ novo.h = h /\ novo.ver = V /\ novo.obj = i /\ novo.tam = tam
                      /\ \A u \in 1..Len(un) : un[u].h # h
    OBVIOUS
  <2>1. an'.unicos = Append(un, novo) /\ Len(an'.unicos) = Len(un) + 1 /\ an'.unicos[Len(un) + 1] = novo
    BY <1>2, <1>8
  <2>2. novo.h = h /\ novo.ver = V /\ novo.obj = i /\ novo.tam = tam
    BY <1>d
  <2>3. \A u \in 1..Len(un) : un[u].h # h
    <3> SUFFICES ASSUME NEW u \in 1..Len(un), un[u].h = h PROVE FALSE
      OBVIOUS
    <3>1. un[u].ver <= un[u].ver
      <4>1. un[u] \in Unico
        BY <1>8
      <4> QED
        BY <4>1 DEF Unico, Vers
    <3>2. Achado(an.unicos, h, un[u].ver)
      BY <3>1 DEF Achado, un
    <3> QED
      BY <1>8, <1>c, <3>2, KnownIsFound DEF un
  <2> QED
    BY <2>1, <2>2, <2>3
<1>11. \A u \in 1..Len(un) : un[u].ver \in Vers /\ (V = 1 => un[u].ver = 1)
  <2>1. \A u \in 1..Len(un) : un[u] \in Unico
    BY <1>8
  <2>2. \A u \in 1..Len(un) : un[u].ver \in Vers
    BY <2>1 DEF Unico
  <2> QED
    BY <1>0, <1>1, <2>2 DEF ContasOK, un
<1>12. Achado(an'.unicos, h, V)
  <2>1. CASE c # 0
    <3>1. un[c].ver <= V
      BY <1>9, <1>11, <2>1 DEF Vers
    <3> QED
      BY <1>9, <2>1, <3>1 DEF Achado
  <2>2. CASE c = 0
    <3>1. Len(un) + 1 \in 1..Len(an'.unicos) /\ V <= V
      BY <1>8, <1>10, <2>2 DEF Vers
    <3> QED
      BY <1>10, <2>2, <3>1 DEF Achado
  <2> QED
    BY <2>1, <2>2
<1>13. Ate(V, i) = an.pos /\ Comecado(V, i)
  BY <1>0, <1>1, <1>3 DEF Ate, Comecado, i
<1>14. CortesOK'
  <2>1. ASSUME NEW v \in Vers, NEW j \in 1..Len(itens(v)'), Comecado(v, j)'
        PROVE  \E P \in SUBSET (0..Ate(v, j)') :
                  Achados(an'.unicos, tarefa'.chunker, P, itens(v)'[j].s, Ate(v, j)', v)
    <3>0. j \in 1..Len(itens(v)) /\ itens(v)' = itens(v) /\ Comecado(v, j)
      BY <1>0, <1>2, <1>6, <2>1 DEF Comecado, i
    <3>1. CASE v = V /\ j = i
      <4>1. Ate(v, j)' = an.pos + tam
        BY <1>2, <3>1 DEF Ate
      <4>2. PICK P \in SUBSET (0..an.pos) : Achados(un, cfg, P, s, an.pos, V)
        BY <1>1, <1>13, <3>0, <3>1 DEF CortesOK, un, cfg, s, i
      <4>3. Achados(an'.unicos, cfg, P, s, an.pos, V)
        BY <1>8, <4>2, FoundStays
      <4>4. \E Q \in SUBSET (0..(an.pos + tam)) : Achados(an'.unicos, cfg, Q, s, an.pos + tam, V)
        BY <1>3, <1>4, <1>5, <1>12, <1>a, <4>2, <4>3, CutMore
      <4>5. itens(v)'[j].s = s /\ tarefa'.chunker = cfg
        BY <1>1, <3>0, <3>1 DEF s, cfg, i
      <4> QED
        BY <3>1, <4>1, <4>4, <4>5
    <3>2. CASE v # V \/ j # i
      <4>1. Ate(v, j)' = Ate(v, j)
        BY <1>0, <1>1, <1>2, <3>0, <3>2 DEF Ate, i
      <4> QED
        BY <1>1, <1>8, <3>0, <4>1, CutsKept DEF un
    <3> QED
      BY <3>1, <3>2
  <2>2. ASSUME NEW P \in SUBSET (0..Len(s)), Corta(cfg, P, s) PROVE an.pos + tam \in P
    <3>1. an.pos \in P
      BY <1>0, <1>1, <1>2, <1>7, <2>2 DEF CortesOK, cfg, i
    <3> QED
      BY <1>2, <1>a, <2>2, <3>1 DEF Corta
  <2>3. tarefa'.chunker = cfg
    BY <1>1 DEF cfg
  <2> QED
    BY <1>2, <1>7, <2>1, <2>2, <2>3 DEF CortesOK
<1>15. ASSUME NEW v \in Vers, NEW j \in 1..Len(itens(v)), itens(v)[j].s = s, Comecado(v, j),
              v # V \/ j # i
       PROVE  Achado(un, h, v)
  <2>1. Ate(v, j) = Len(s)
    BY <1>0, <1>15 DEF Ate, i
  <2>2. PICK P \in SUBSET (0..Len(s)) : Achados(un, cfg, P, s, Len(s), v)
    BY <1>1, <1>15, <2>1 DEF CortesOK, un, cfg
  <2>3. Corta(cfg, P, s)
    BY <2>2 DEF Achados, Corta
  <2>4. an.pos \in P
    BY <1>0, <1>1, <1>2, <1>7, <2>3 DEF CortesOK, cfg, i
  <2> QED
    BY <1>2, <1>5, <2>2, <2>4 DEF Achados
<1>16. V = 2 /\ i \in Velhos => c # 0 /\ un[c].ver = 1
  <2> SUFFICES ASSUME V = 2, i \in Velhos PROVE c # 0 /\ un[c].ver = 1
    OBVIOUS
  <2>1. PICK k \in DOMAIN itens(1) : itens(1)[k].s = s
    BY DEF Velhos, EmV1, s, i
  <2>2. 1 \in Vers /\ k \in 1..Len(itens(1)) /\ Comecado(1, k)
    <3>1. itens(1) \in Seq(Arquivo)
      BY <1>1, ItemsAreFiles DEF ScanTypeOK, Vers
    <3>2. k \in 1..Len(itens(1))
      BY <3>1
    <3>3. 1 < an.ver
      BY <1>0
    <3> QED
      BY <3>2, <3>3 DEF Comecado, Vers
  <2>3. Achado(un, h, 1)
    BY <1>15, <2>1, <2>2
  <2>4. PICK t \in 1..Len(un) : un[t].h = h /\ un[t].ver <= 1
    BY <2>3 DEF Achado
  <2>5. c # 0
    BY <1>8, <1>c, <2>3, KnownIsFound DEF un
  <2>6. c = t
    BY <1>1, <1>9, <2>4, <2>5 DEF ContasOK, un
  <2> QED
    BY <1>11, <2>4, <2>5, <2>6 DEF Vers
<1>17. V = 2 /\ i \in Repetidos => c # 0
  <2> SUFFICES ASSUME V = 2, i \in Repetidos PROVE c # 0
    OBVIOUS
  <2>1. CASE EmV1(s)
    <3>1. i \in Velhos
      BY <2>1 DEF Repetidos, Velhos, s, i
    <3> QED
      BY <1>16, <3>1
  <2>2. CASE ~EmV1(s)
    <3>1. PICK k \in 1..(i - 1) : itens(2)[k].s = s
      BY <2>2 DEF Repetidos, s, i
    <3>2. k \in 1..Len(itens(2)) /\ k # i /\ k <= i
      BY <1>3, <3>1
    <3>3. Comecado(2, k) /\ 2 \in Vers
      <4>1. an.ver = 2 /\ an.i = i
        BY <1>0 DEF i
      <4> QED
        BY <3>2, <4>1 DEF Comecado, Vers
    <3>4. Achado(un, h, 2)
      BY <1>15, <3>1, <3>2, <3>3
    <3> QED
      BY <1>8, <1>c, <3>4, KnownIsFound DEF un
  <2> QED
    BY <2>1, <2>2
<1>18. ContasOK'
  <2>1. \A t, u \in 1..Len(an'.unicos) : an'.unicos[t].h = an'.unicos[u].h => t = u
    <3>1. \A t, u \in 1..Len(un) : un[t].h = un[u].h => t = u
      BY <1>1 DEF ContasOK, un
    <3>2. CASE c = 0
      <4>1. \A u \in 1..Len(an'.unicos) : u \in 1..Len(un) \/ u = Len(un) + 1
        BY <1>8, <1>10, <3>2
      <4>2. \A u \in 1..Len(un) : an'.unicos[u].h = un[u].h /\ un[u].h # h
        BY <1>8, <1>10, <3>2
      <4>3. an'.unicos[Len(un) + 1].h = h
        BY <1>10, <3>2
      <4> HIDE DEF un
      <4> QED
        BY <3>1, <4>1, <4>2, <4>3, Zenon
    <3>3. CASE c # 0
      BY <1>9, <3>1, <3>3
    <3> QED
      BY <3>2, <3>3
  <2>2. ASSUME NEW u \in 1..Len(an'.unicos)
        PROVE  /\ an'.ver = 1 => an'.unicos[u].ver = 1
               /\ an'.unicos[u].ver = 2 => an'.unicos[u].obj \in DOMAIN itens(2) \ Velhos
    <3>1. CASE u \in 1..Len(un)
      BY <1>0, <1>1, <1>2, <1>8, <3>1 DEF ContasOK, un
    <3>2. CASE u \notin 1..Len(un)
      <4>1. c = 0 /\ u = Len(un) + 1
        BY <1>8, <1>9, <1>10, <3>2
      <4>2. an'.unicos[u].ver = V /\ an'.unicos[u].obj = i
        BY <1>10, <4>1
      <4>3. V = 2 => i \in DOMAIN itens(2) \ Velhos
        <5>1. V = 2 => i \in DOMAIN itens(2)
          BY <1>1, <1>3, WeightOfFiles
        <5> QED
          BY <1>16, <4>1, <5>1
      <4> QED
        BY <1>2, <4>2, <4>3
    <3> QED
      BY <3>1, <3>2
  <2> QED
    BY <1>2, <1>6, <2>1, <2>2 DEF ContasOK
<1>19. \A J : J \in SUBSET DOMAIN itens(2) =>
          /\ Lido(J)' = Lido(J) + (IF V = 2 /\ i \in J THEN tam ELSE 0) /\ Lido(J) \in Nat
  <2> SUFFICES ASSUME NEW J \in SUBSET DOMAIN itens(2)
               PROVE  Lido(J)' = Lido(J) + (IF V = 2 /\ i \in J THEN tam ELSE 0) /\ Lido(J) \in Nat
    OBVIOUS
  <2>1. CASE V = 1
    BY <1>0, <1>2, <2>1 DEF Lido
  <2>2. CASE V = 2
    <3> DEFINE A == J \cap (1..(i - 1))
               p == Weight(Sizes(2), A)
    <3>1. p \in Nat
      <4>1. A \in SUBSET DOMAIN itens(2)
        OBVIOUS
      <4> HIDE DEF A
      <4> QED
        BY <1>1, <4>1, WeightOfFiles
    <3>2. Lido(J) = p + (IF i \in J THEN an.pos ELSE 0)
      <4>1. an.ver # 1 /\ an.i = i
        BY <1>0, <2>2 DEF i
      <4> QED
        BY <4>1, Zenon DEF Lido
    <3>3. Lido(J)' = p + (IF i \in J THEN an.pos + tam ELSE 0)
      <4>1. an'.ver # 1 /\ an'.i = i /\ an'.pos = an.pos + tam /\ Sizes(2)' = Sizes(2)
        BY <1>2, <1>6, <2>2
      <4> QED
        BY <4>1, Zenon DEF Lido
    <3>4. i \in Nat /\ an.pos \in Nat /\ tam \in Nat
      BY <1>3, <1>4
    <3> HIDE DEF p, i
    <3> QED
      BY <2>2, <3>1, <3>2, <3>3, <3>4
  <2> QED
    BY <2>1, <2>2 DEF Vers
<1>20. /\ Unicos(2) \in SUBSET (1..Len(un)) /\ Weight(Tams, Unicos(2)) \in Nat
       /\ Weight(Tams, Unicos(2))' = Weight(Tams, Unicos(2)) + (IF V = 2 /\ c = 0 THEN tam ELSE 0)
  <2>0. DOMAIN un = 1..Len(un) /\ DOMAIN an'.unicos = 1..Len(an'.unicos)
    BY <1>8
  <2>1. Unicos(2) \in SUBSET (1..Len(un))
    BY <2>0 DEF Unicos, un
  <2>2. /\ Weight(Tams, Unicos(2)) \in Nat /\ IsFiniteSet(Unicos(2))
        /\ \A u \in 1..Len(un) : Tams[u] = un[u].tam /\ Tams[u] \in Nat
    BY <1>8, <2>1, WeightOfChunks DEF un
  <2>3. \A u \in 1..Len(an'.unicos) : Tams'[u] = an'.unicos[u].tam
    BY <2>0 DEF Tams
  <2>4. \A u \in Unicos(2) : Tams'[u] = Tams[u]
    BY <1>8, <2>1, <2>2, <2>3
  <2>5. Weight(Tams', Unicos(2)) = Weight(Tams, Unicos(2))
    BY <2>4, WeightSame
  <2>6. CASE V = 2 /\ c = 0
    <3> DEFINE n == Len(un) + 1
    <3>1. Unicos(2)' = Unicos(2) \cup {n} /\ n \notin Unicos(2) /\ Tams'[n] = tam
      <4>1. n \in 1..Len(an'.unicos) /\ n \notin 1..Len(un) /\ 1..Len(an'.unicos) = (1..Len(un)) \cup {n}
        BY <1>8, <1>10, <2>6
      <4>2. an'.unicos[n] = novo /\ novo.ver = 2 /\ novo.tam = tam
        BY <1>10, <2>6
      <4> HIDE DEF n
      <4>3. Unicos(2)' = {u \in 1..Len(an'.unicos) : an'.unicos[u].ver = 2}
        BY <2>0 DEF Unicos
      <4>4. Unicos(2) = {u \in 1..Len(un) : un[u].ver = 2}
        BY <2>0 DEF Unicos, un
      <4> QED
        BY <1>8, <2>1, <2>3, <4>1, <4>2, <4>3, <4>4
    <3> HIDE DEF n
    <3>2. \A u \in Unicos(2) : Tams'[u] \in Nat
      BY <2>1, <2>2, <2>4
    <3>3. Weight(Tams', Unicos(2) \cup {n}) = Weight(Tams', Unicos(2)) + tam
      BY <1>4, <2>2, <3>1, <3>2, WeightMore
    <3> QED
      BY <2>1, <2>2, <2>5, <2>6, <3>1, <3>3
  <2>7. CASE ~(V = 2 /\ c = 0)
    <3>1. Unicos(2)' = Unicos(2)
      <4>1. CASE c # 0
        BY <1>9, <4>1 DEF Unicos, un
      <4>2. CASE c = 0
        <5>1. V = 1 /\ an'.ver = 1
          BY <1>2, <2>7, <4>2 DEF Vers
        <5>2. \A u \in 1..Len(an'.unicos) : an'.unicos[u].ver = 1
          BY <1>18, <5>1 DEF ContasOK
        <5>3. \A u \in 1..Len(un) : un[u].ver = 1
          BY <1>11, <5>1
        <5> QED
          BY <2>0, <5>2, <5>3 DEF Unicos, un
      <4> QED
        BY <4>1, <4>2
    <3> QED
      BY <2>1, <2>2, <2>5, <2>7, <3>1
  <2> QED
    BY <2>6, <2>7
<1>21. SomasOK'
  <2> DEFINE todos == Lido(DOMAIN itens(2))
             velhos == Lido(Velhos)
             reps == Lido(Repetidos)
             novos == Weight(Tams, Unicos(2))
  <2>1. /\ an.vs_v1 \in Nat /\ an.dup_total \in Nat /\ an.vs_v1 <= an.dup_total
        /\ todos = novos + an.dup_total /\ velhos <= an.vs_v1 /\ reps <= an.dup_total
    BY <1>1 DEF SomasOK
  <2>2. /\ todos' = todos + (IF V = 2 /\ i \in DOMAIN itens(2) THEN tam ELSE 0)
        /\ velhos' = velhos + (IF V = 2 /\ i \in Velhos THEN tam ELSE 0)
        /\ reps' = reps + (IF V = 2 /\ i \in Repetidos THEN tam ELSE 0)
        /\ todos \in Nat /\ velhos \in Nat /\ reps \in Nat
    <3>1. \A J : J \in SUBSET DOMAIN itens(2) =>
             /\ Lido(J)' = Lido(J) + (IF V = 2 /\ i \in J THEN tam ELSE 0) /\ Lido(J) \in Nat
      BY <1>19
    <3>2. Velhos \in SUBSET DOMAIN itens(2) /\ Repetidos \in SUBSET DOMAIN itens(2)
      BY DEF Velhos, Repetidos
    <3>3. PICK D, E, F : D = DOMAIN itens(2) /\ E = Velhos /\ F = Repetidos
      OBVIOUS
    <3>4. Lido(DOMAIN itens(2))' = Lido(D)' /\ Lido(Velhos)' = Lido(E)' /\ Lido(Repetidos)' = Lido(F)'
      BY <1>6, <3>3, Zenon DEF Lido
    <3> QED
      BY <3>1, <3>2, <3>3, <3>4
  <2>3. novos \in Nat /\ novos' = novos + (IF V = 2 /\ c = 0 THEN tam ELSE 0)
    BY <1>20
  <2>4. V = 2 => i \in DOMAIN itens(2)
    BY <1>1, <1>3, WeightOfFiles
  <2> HIDE DEF todos, velhos, reps, novos
  <2>5. /\ an'.vs_v1 \in Nat /\ an'.dup_total \in Nat /\ an'.vs_v1 <= an'.dup_total
    BY <1>2, <1>4, <2>1
  <2>6. todos' = novos' + an'.dup_total
    <3>1. an.dup_total \in Nat /\ tam \in Nat /\ todos = novos + an.dup_total
      BY <1>4, <2>1
    <3>2. CASE V = 2 /\ c = 0
      BY <1>2, <2>2, <2>3, <2>4, <3>1, <3>2
    <3>3. CASE V = 2 /\ c # 0
      BY <1>2, <2>2, <2>3, <2>4, <3>1, <3>3
    <3>4. CASE V # 2
      BY <1>2, <2>2, <2>3, <3>1, <3>4
    <3> QED
      BY <3>2, <3>3, <3>4
  <2>7. velhos' <= an'.vs_v1
    BY <1>2, <1>4, <1>16, <2>1, <2>2
  <2>8. reps' <= an'.dup_total
    BY <1>2, <1>4, <1>17, <2>1, <2>2
  <2> QED
    BY <2>5, <2>6, <2>7, <2>8 DEF SomasOK, todos, velhos, reps, novos
<1> QED
  BY <1>14, <1>18, <1>21

LEMMA InitBInv == Init => BInv
<1>1. Init => AInv /\ an.at = "none"
  BY InitAInv DEF Init, NoScan
<1> QED
  BY <1>1 DEF BInv

LEMMA StepBInv == BInv /\ [Next]_vars => BInv'
<1> SUFFICES ASSUME BInv, [Next]_vars PROVE BInv'
  OBVIOUS
<1>0. AInv /\ AInv'
  BY StepAInv DEF BInv
<1> SUFFICES an'.at # "none" => CortesOK' /\ ContasOK' /\ SomasOK'
  BY <1>0 DEF BInv
<1>1. CASE UNCHANGED <<par, tarefa, an>>
  <2>1. an.at # "none" => CortesOK /\ ContasOK /\ SomasOK /\ ScanTypeOK
    BY <1>0 DEF BInv, AInv
  <2> QED
    BY <1>1, <2>1, SameBInv
<1>2. CASE fase_preparar
  BY <1>1, <1>2 DEF fase_preparar, Rest, Iniciar, BaixarSomas, SomasChegam, Somas, Baixar, Baixado,
       Conferir, Extrair, Empacotar, Empacotado, Apagar, Manifesto, Escrito, Interrompe
<1>3. CASE AbrirItem \/ Reconstruir
  <2>1. CortesOK /\ ContasOK /\ SomasOK /\ ScanTypeOK /\ DOMAIN an = Campos
    BY <1>0, <1>3 DEF BInv, AInv, ScanTypeOK, AbrirItem, Reconstruir
  <2>2. /\ UNCHANGED <<par, tarefa>> /\ an'.ver = an.ver /\ an'.i = an.i /\ an'.pos = an.pos
        /\ an'.unicos = an.unicos /\ an'.vs_v1 = an.vs_v1 /\ an'.dup_total = an.dup_total
        /\ an'.at = an.at \/ (an.at = "reconstruir" /\ an'.at = "fim")
    <3>1. CASE AbrirItem
      BY <2>1, <3>1 DEF AbrirItem, Campos
    <3>2. CASE Reconstruir
      BY <2>1, <3>2 DEF Reconstruir, Campos
    <3> QED
      BY <1>3, <3>1, <3>2
  <2> QED
    BY <2>1, <2>2, SameBInv
<1>4. CASE Chunk
  BY <1>0, <1>4, ChunkBInv
<1>5. CASE ProximoItem \/ ProximaVersao
  BY <1>5, MoveBInv
<1>6. ASSUME NEW tipo \in {"arvore", "tar"}, NEW cfg \in Chunkers, Analisar(tipo, cfg)
      PROVE  CortesOK' /\ ContasOK' /\ SomasOK'
  BY <1>0, <1>6, AnalisarBInv
<1> QED
  BY <1>1, <1>2, <1>3, <1>4, <1>5, <1>6, Zenon DEF Next, varrer_chunks, vars

\* All of the second version has been read.
LEMMA AllIsRead ==
    ASSUME ScanTypeOK, ContasOK, Andamento, an.at = "fim", NEW J \in SUBSET DOMAIN itens(2)
    PROVE  Lido(J) = Weight(Sizes(2), J)
<1>1. an.ver # 1 /\ an.i = Len(itens(2)) + 1
  BY DEF Andamento, ContasOK
<1>2. DOMAIN itens(2) = 1..Len(itens(2)) /\ Len(itens(2)) \in Nat /\ Weight(Sizes(2), J) \in Nat
  BY WeightOfFiles
<1>3. J \cap (1..(an.i - 1)) = J /\ an.i \notin J
  BY <1>1, <1>2
<1>4. Lido(J) = Weight(Sizes(2), J) + 0
  BY <1>1, <1>3, Zenon DEF Lido
<1> QED
  BY <1>2, <1>4

\* The savings reported add up, and chunks find what whole files find (dedup.py:
\* varrer_chunks, custo_marginal_z3, tarefa_arquivo_inteiro), for any files and chunkers.
THEOREM ChunksFindAll == Spec => []ChunksFindWholeFiles
<1>1. ASSUME BInv, an.at = "fim"
      PROVE  /\ Total(itens(2)) = Soma(Unicos(2)) + an.dup_total
             /\ an.vs_v1 <= an.dup_total
             /\ custo_marginal("igual") + custo_marginal("alterado") + custo_marginal("novo")
                  = Soma(Unicos(2))
             /\ custo_marginal("igual") = 0
             /\ an.vs_v1 >= tarefa_arquivo_inteiro.vs_v1
             /\ an.dup_total >= tarefa_arquivo_inteiro.dup_total
  <2>1. ScanTypeOK /\ Andamento /\ ContasOK /\ SomasOK
    BY <1>1 DEF BInv, AInv
  <2>2. an.unicos \in Seq(Unico) /\ Unicos(2) \in SUBSET (1..Len(an.unicos))
    <3>1. an.unicos \in Seq(Unico)
      BY <2>1 DEF ScanTypeOK
    <3> QED
      BY <3>1 DEF Unicos
  <2>3. ASSUME NEW us \in SUBSET Unicos(2)
        PROVE  Soma(us) = Weight(Tams, us) /\ IsFiniteSet(us) /\ \A u \in us : Tams[u] \in Nat
    <3>1. us \in SUBSET (1..Len(an.unicos))
      BY <2>2
    <3>2. IsFiniteSet(us) /\ \A u \in 1..Len(an.unicos) : Tams[u] = an.unicos[u].tam /\ Tams[u] \in Nat
      BY <2>2, <3>1, WeightOfChunks
    <3> QED
      BY <3>1, <3>2, SomaIsWeight
  <2>4. ASSUME NEW J \in SUBSET DOMAIN itens(2)
        PROVE  Lido(J) = Weight(Sizes(2), J) /\ BytesDe(J) = Weight(Sizes(2), J)
    <3>1. Lido(J) = Weight(Sizes(2), J)
      BY <1>1, <2>1, AllIsRead
    <3>2. /\ IsFiniteSet(J)
          /\ \A j \in DOMAIN itens(2) : Sizes(2)[j] = Len(itens(2)[j].s) /\ Sizes(2)[j] \in Nat
      BY <2>1, WeightOfFiles
    <3>3. BytesDe(J) = Weight(Sizes(2), J)
      BY <3>2, BytesIsWeight
    <3> QED
      BY <3>1, <3>3
  <2>5. Total(itens(2)) = Soma(Unicos(2)) + an.dup_total
    <3>1. itens(2) \in Seq(Arquivo)
      BY <2>1, ItemsAreFiles DEF ScanTypeOK, Vers
    <3>2. \A j \in DOMAIN itens(2) : Sizes(2)[j] = Len(itens(2)[j].s)
      BY DEF Sizes
    <3>3. Total(itens(2)) = Weight(Sizes(2), DOMAIN itens(2))
      BY <3>1, <3>2, TotalIsWeight
    <3> QED
      BY <2>1, <2>3, <2>4, <3>3 DEF SomasOK
  <2> DEFINE De(cat) == {u \in Unicos(2) : categoria(itens(2)[an.unicos[u].obj]) = cat}
  <2>6. \A cat : custo_marginal(cat) = Soma(De(cat))
    BY DEF custo_marginal
  <2>7. De("igual") = {}
    <3> SUFFICES ASSUME NEW u \in Unicos(2), categoria(itens(2)[an.unicos[u].obj]) = "igual" PROVE FALSE
      OBVIOUS
    <3>1. u \in 1..Len(an.unicos) /\ an.unicos[u].ver = 2
      BY <2>2 DEF Unicos
    <3>2. an.unicos[u].obj \in DOMAIN itens(2) \ Velhos
      BY <2>1, <3>1 DEF ContasOK
    <3>3. PICK x : x = itens(2)[an.unicos[u].obj]
      OBVIOUS
    <3>4. \E y \in ToSet(itens(1)) : y.s = x.s
      BY <3>3 DEF categoria
    <3>5. EmV1(x.s)
      BY <3>4 DEF EmV1, ToSet
    <3> QED
      BY <3>2, <3>3, <3>5 DEF Velhos
  <2>8. De("igual") \cup De("alterado") \cup De("novo") = Unicos(2)
    <3>1. \A x : categoria(x) \in {"novo", "igual", "alterado"}
      BY DEF categoria
    <3> QED
      BY <3>1
  <2>9. De("alterado") \cap De("novo") = {}
    OBVIOUS
  <2> HIDE DEF De
  <2>10. /\ custo_marginal("igual") = 0
         /\ custo_marginal("igual") + custo_marginal("alterado") + custo_marginal("novo")
              = Soma(Unicos(2))
    <3>1. De("igual") \in SUBSET Unicos(2) /\ De("alterado") \in SUBSET Unicos(2)
             /\ De("novo") \in SUBSET Unicos(2) /\ De("alterado") \cup De("novo") = Unicos(2)
      BY <2>7, <2>8
    <3>2. Soma(De("igual")) = 0
      BY <2>3, <2>7, <3>1, WeightOfNone
    <3> DEFINE A == De("alterado")
               N == De("novo")
    <3>3. /\ A \cap N = {} /\ A \cup N = Unicos(2)
          /\ IsFiniteSet(A) /\ IsFiniteSet(N)
          /\ (\A u \in A : Tams[u] \in Nat) /\ (\A u \in N : Tams[u] \in Nat)
          /\ Soma(A) = Weight(Tams, A) /\ Soma(N) = Weight(Tams, N)
          /\ Soma(Unicos(2)) = Weight(Tams, Unicos(2))
      BY <2>3, <2>9, <3>1
    <3>4. custo_marginal("igual") = 0 /\ custo_marginal("alterado") = Soma(A) /\ custo_marginal("novo") = Soma(N)
      BY <2>6, <3>2
    <3> HIDE DEF A, N
    <3>5. Weight(Tams, A \cup N) = Weight(Tams, A) + Weight(Tams, N) /\ Weight(Tams, A) \in Nat /\ Weight(Tams, N) \in Nat
      BY <3>3, WeightOfUnion
    <3> DEFINE a == Weight(Tams, A)
               n == Weight(Tams, N)
    <3> HIDE DEF a, n
    <3>6. /\ custo_marginal("alterado") = a /\ custo_marginal("novo") = n
          /\ Soma(Unicos(2)) = a + n /\ a \in Nat /\ n \in Nat
      BY <3>3, <3>4, <3>5 DEF a, n
    <3> QED
      BY <3>4, <3>6
  <2>11. an.vs_v1 >= tarefa_arquivo_inteiro.vs_v1 /\ an.dup_total >= tarefa_arquivo_inteiro.dup_total
    <3>1. tarefa_arquivo_inteiro.vs_v1 = BytesDe(Velhos)
      <4>1. Velhos = {j \in DOMAIN itens(2) : itens(2)[j].s \in {itens(1)[k].s : k \in DOMAIN itens(1)}}
        BY DEF Velhos, EmV1
      <4> QED
        BY <4>1 DEF tarefa_arquivo_inteiro, BytesDe
    <3>2. tarefa_arquivo_inteiro.dup_total = BytesDe(Repetidos)
      <4>1. Repetidos = {j \in DOMAIN itens(2) :
                           \/ itens(2)[j].s \in {itens(1)[k].s : k \in DOMAIN itens(1)}
                           \/ \E k \in 1..(j - 1) : itens(2)[k].s = itens(2)[j].s}
        BY DEF Repetidos, EmV1
      <4> QED
        BY <4>1 DEF tarefa_arquivo_inteiro, BytesDe
    <3>3. Velhos \in SUBSET DOMAIN itens(2) /\ Repetidos \in SUBSET DOMAIN itens(2)
      BY DEF Velhos, Repetidos
    <3>4. BytesDe(Velhos) = Lido(Velhos) /\ BytesDe(Repetidos) = Lido(Repetidos)
      BY <2>4, <3>3
    <3>5. /\ Lido(Velhos) \in Nat /\ Lido(Repetidos) \in Nat /\ an.vs_v1 \in Nat /\ an.dup_total \in Nat
          /\ Lido(Velhos) <= an.vs_v1 /\ Lido(Repetidos) <= an.dup_total
      <4>1. Lido(Velhos) = Weight(Sizes(2), Velhos) /\ Lido(Repetidos) = Weight(Sizes(2), Repetidos)
        BY <2>4, <3>3
      <4> QED
        BY <2>1, <3>3, <4>1, WeightOfFiles DEF SomasOK
    <3> QED
      BY <3>1, <3>2, <3>4, <3>5
  <2>12. an.vs_v1 <= an.dup_total
    BY <2>1 DEF SomasOK
  <2> QED
    BY <2>5, <2>10, <2>11, <2>12
<1>2. BInv => ChunksFindWholeFiles
  BY <1>1, Zenon DEF ChunksFindWholeFiles
<1> QED
  BY <1>2, InitBInv, StepBInv, PTL DEF Spec

=============================================================================
