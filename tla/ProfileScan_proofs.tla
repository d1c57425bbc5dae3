-------------------------- MODULE ProfileScan_proofs --------------------------
(***************************************************************************)
(* What the profile declares duplicates, for any tree, any number of workers *)
(* and names, and any changes other programs make meanwhile.  A stamp is    *)
(* given once, so a record and a hash stay true of a file as long as it has  *)
(* the stamp of its record, and say nothing of it afterwards.               *)
(* Then a tree that nobody changes: what the walk meets is all it can reach, *)
(* and of the files it meets no copy is missed.                             *)
(***************************************************************************)
EXTENDS ProfileScan, SequenceTheorems, FiniteSetTheorems, WellFoundedInduction, TLAPS

(***************************************************************************)
(* Induction. The library's theorems of induction take an operator; a set   *)
(* of numbers says the same, and a set can be a parameter of a lemma.       *)
(***************************************************************************)
\* A set of naturals has a least one.
LEMMA LeastNatural ==
    ASSUME NEW T, T \subseteq Nat, T # {}
    PROVE  \E x \in T : \A y \in T : x <= y
<1> DEFINE R == {p \in Nat \X Nat : p[1] < p[2]}
<1>1. IsWellFoundedOn(R, Nat)
  BY NatLessThanWellFounded DEF OpToRel
<1> HIDE DEF R
<1>2. PICK x \in T : \A y \in T : ~ (<<y, x>> \in R)
  BY <1>1, WFMin
<1>3. \A y \in T : x \in Nat /\ y \in Nat /\ (y < x => <<y, x>> \in R)
  BY DEF R
<1>4. \A y \in T : ~(y < x) /\ x \in Nat /\ y \in Nat
  BY <1>2, <1>3
<1> QED
  BY <1>4

LEMMA SetInduction ==
    ASSUME NEW S, 0 \in S, \A n \in Nat : n \in S => n + 1 \in S
    PROVE  Nat \subseteq S
<1> SUFFICES ASSUME Nat \ S # {} PROVE FALSE
  OBVIOUS
<1>1. PICK x \in Nat \ S : \A y \in Nat \ S : x <= y
  BY LeastNatural
<1>2. x # 0 /\ x - 1 \in Nat /\ ~(x <= x - 1) /\ (x - 1) + 1 = x
  BY <1>1
<1> QED
  BY <1>1, <1>2

LEMMA MaxOf ==
    ASSUME NEW n \in Nat, NEW ss \in SUBSET (1..n), ss # {}
    PROVE  /\ Max(ss) \in ss /\ \A y \in ss : y <= Max(ss)
           /\ \A m \in ss : (\A y \in ss : y <= m) => Max(ss) = m
<1>1. \E x \in ss : \A y \in ss : x >= y
  <2> DEFINE T == {k \in Nat : \A y \in ss : y <= k}
  <2>1. n \in T
    OBVIOUS
  <2>2. PICK k \in T : \A y \in T : k <= y
    <3> HIDE DEF T
    <3>1. T \subseteq Nat /\ T # {}
      BY <2>1 DEF T
    <3> QED
      BY <3>1, LeastNatural
  <2>3. k \in ss
    <3> SUFFICES ASSUME k \notin ss PROVE FALSE
      OBVIOUS
    <3>0. PICK z \in ss : TRUE
      OBVIOUS
    <3>1. k # 0 /\ k \in Nat
      <4>1. z \in Nat /\ z >= 1 /\ z <= k /\ k \in Nat
        BY <2>2, <3>0
      <4> QED
        BY <4>1
    <3>2. k - 1 \in Nat /\ \A y \in ss : y <= k - 1
      BY <2>2, <3>1
    <3> QED
      BY <2>2, <3>1, <3>2
  <2> QED
    BY <2>2, <2>3
<1>2. Max(ss) \in ss /\ \A y \in ss : Max(ss) >= y
  BY <1>1 DEF Max
<1>3. ASSUME NEW m \in ss, \A y \in ss : y <= m PROVE Max(ss) = m
  <2>0. m \in 1..n /\ Max(ss) \in 1..n
    BY <1>2
  <2>1. Max(ss) <= m /\ Max(ss) >= m
    BY <1>2, <1>3
  <2> QED
    BY <2>0, <2>1
<1>4. \A y \in ss : y <= Max(ss)
  <2>1. \A y \in ss : y \in Nat
    OBVIOUS
  <2>2. Max(ss) \in Nat
    BY <1>2, <2>1
  <2> QED
    BY <1>2, <2>1, <2>2
<1> QED
  BY <1>2, <1>3, <1>4

LEMMA MaxOfPrefix ==
    ASSUME NEW m \in Nat
    PROVE  Max(1..(m + 1)) = m + 1 /\ (1..(m + 1)) \ {m + 1} = 1..m /\ 1..0 = {} /\ 1..(m + 1) # {}
<1>1. m + 1 \in 1..(m + 1) /\ \A y \in 1..(m + 1) : y <= m + 1
  OBVIOUS
<1>2. Max(1..(m + 1)) = m + 1
  <2>1. m + 1 \in Nat /\ 1..(m + 1) # {}
    BY <1>1
  <2> QED
    BY <1>1, <2>1, MaxOf
<1> QED
  BY <1>1, <1>2

\* Op[<<a, i>>]: the value a, after element i.
Passos(g, b, Op, n) ==
    g = [ss \in SUBSET (1..n) |-> IF ss = {} THEN b ELSE Op[<<g[ss \ {Max(ss)}], Max(ss)>>]]

LEMMA FoldIsDefined ==
    ASSUME NEW A, NEW b \in A, NEW n \in Nat, NEW Op \in [A \X (1..n) -> A]
    PROVE  \E g \in [SUBSET (1..n) -> A] : Passos(g, b, Op, n)
<1> DEFINE P(k) == k <= n => \E g \in [SUBSET (1..k) -> A] : Passos(g, b, Op, k)
           S == {k \in Nat : P(k)}
<1>1. P(0)
  <2> DEFINE g == [ss \in SUBSET (1..0) |-> b]
  <2>1. SUBSET (1..0) = {{}}
    OBVIOUS
  <2>2. g \in [SUBSET (1..0) -> A] /\ Passos(g, b, Op, 0)
    BY <2>1 DEF Passos
  <2> QED
    BY <2>2
<1>2. ASSUME NEW k \in Nat, P(k) PROVE P(k + 1)
  <2> SUFFICES ASSUME k + 1 <= n
               PROVE  \E h \in [SUBSET (1..(k + 1)) -> A] : Passos(h, b, Op, k + 1)
    OBVIOUS
  <2>0. k <= n
    OBVIOUS
  <2>1. PICK g \in [SUBSET (1..k) -> A] : Passos(g, b, Op, k)
    BY <1>2, <2>0, Zenon
  <2> DEFINE D == SUBSET (1..(k + 1))
             h == [ss \in D |-> IF k + 1 \in ss THEN Op[<<g[ss \ {k + 1}], k + 1>>] ELSE g[ss]]
  <2>2. \A ss \in D : /\ k + 1 \in ss => ss \ {k + 1} \in SUBSET (1..k) /\ Max(ss) = k + 1
                      /\ k + 1 \notin ss => ss \in SUBSET (1..k)
    <3> SUFFICES ASSUME NEW ss \in D
                 PROVE  /\ k + 1 \in ss => ss \ {k + 1} \in SUBSET (1..k) /\ Max(ss) = k + 1
                        /\ k + 1 \notin ss => ss \in SUBSET (1..k)
      OBVIOUS
    <3>1. k + 1 \in ss => Max(ss) = k + 1
      <4>1. \A y \in ss : y <= k + 1
        OBVIOUS
      <4>2. k + 1 \in Nat
        OBVIOUS
      <4> QED
        BY <4>1, <4>2, MaxOf
    <3>2. ss \subseteq (1..k) \cup {k + 1}
      OBVIOUS
    <3> QED
      BY <3>1, <3>2
  <2>3. \A a \in A : <<a, k + 1>> \in A \X (1..n)
    OBVIOUS
  <2>4. h \in [D -> A]
    BY <2>1, <2>2, <2>3
  <2>5. ASSUME NEW ss \in D
        PROVE  h[ss] = IF ss = {} THEN b ELSE Op[<<h[ss \ {Max(ss)}], Max(ss)>>]
    <3>1. CASE k + 1 \in ss
      <4>1. ss \ {k + 1} \in D /\ k + 1 \notin ss \ {k + 1} /\ ss # {} /\ Max(ss) = k + 1
        BY <2>2, <3>1
      <4>2. h[ss \ {k + 1}] = g[ss \ {k + 1}]
        BY <4>1
      <4> QED
        BY <3>1, <4>1, <4>2
    <3>2. CASE k + 1 \notin ss
      <4>1. ss \in SUBSET (1..k)
        BY <2>2, <3>2
      <4>2. g[ss] = IF ss = {} THEN b ELSE Op[<<g[ss \ {Max(ss)}], Max(ss)>>]
        BY <2>1, <4>1 DEF Passos
      <4>3. h[ss] = g[ss] /\ h[ss \ {Max(ss)}] = g[ss \ {Max(ss)}]
        <5>1. ss \ {Max(ss)} \in D /\ k + 1 \notin ss \ {Max(ss)}
          BY <3>2
        <5> QED
          BY <3>2, <5>1
      <4> QED
        BY <4>2, <4>3
    <3> QED
      BY <3>1, <3>2
  <2> HIDE DEF h
  <2>6. Passos(h, b, Op, k + 1)
    BY <2>4, <2>5 DEF Passos
  <2> QED
    BY <2>4, <2>6
<1> HIDE DEF P
<1>3. n \in S
  <2>1. 0 \in S /\ \A k \in Nat : k \in S => k + 1 \in S
    BY <1>1, <1>2
  <2> HIDE DEF S
  <2> QED
    BY <2>1, SetInduction
<1> QED
  <2>1. P(n) /\ n <= n
    BY <1>3
  <2> QED
    BY <2>1, Zenon DEF P

LEMMA PrefixInduction ==
    ASSUME NEW n \in Nat, NEW S, 0 \in S, \A m \in 0..(n - 1) : m \in S => m + 1 \in S
    PROVE  0..n \subseteq S
<1> DEFINE T == {k \in Nat : k <= n => k \in S}
<1>1. 0 \in T
  OBVIOUS
<1>2. \A k \in Nat : k \in T => k + 1 \in T
  OBVIOUS
<1> HIDE DEF T
<1>3. Nat \subseteq T
  BY <1>1, <1>2, SetInduction
<1> QED
  BY <1>3 DEF T

----------------------------------------------------------------------------
(***************************************************************************)
(* Folds.                                                                  *)
(***************************************************************************)
\* The results of a filter, one element after the other.
FiltroPasso(r, s, ns, m) == r[m + 1] = IF s[m + 1] \in ns THEN Append(r[m], s[m + 1]) ELSE r[m]

LEMMA FiltrarPassos ==
    ASSUME NEW E, NEW s \in Seq(E), NEW ns
    PROVE  \E r \in [0..Len(s) -> Seq(E \cap ns)] :
              /\ r[0] = <<>> /\ Filtrar(s, ns) = r[Len(s)]
              /\ \A m \in 0..(Len(s) - 1) : FiltroPasso(r, s, ns, m)
<1> DEFINE n == Len(s)
           A == Seq(E \cap ns)
           T(g) == [ss \in SUBSET DOMAIN s |->
                     IF ss = {} THEN <<>>
                     ELSE IF s[Max(ss)] \in ns THEN Append(g[ss \ {Max(ss)}], s[Max(ss)])
                          ELSE g[ss \ {Max(ss)}]]
           g == CHOOSE g : g = T(g)
           Op == [p \in A \X (1..n) |->
                     IF s[p[2]] \in ns THEN Append(p[1], s[p[2]]) ELSE p[1]]
<1>0. n \in Nat /\ DOMAIN s = 1..n /\ (\A i \in 1..n : s[i] \in E) /\ <<>> \in A
  OBVIOUS
<1>1. Op \in [A \X (1..n) -> A]
  BY <1>0
<1>2. PICK h \in [SUBSET (1..n) -> A] : Passos(h, <<>>, Op, n)
  <2> HIDE DEF Op, A
  <2> QED
    BY <1>0, <1>1, FoldIsDefined
<1>3. h = T(h)
  <2>1. ASSUME NEW ss \in SUBSET (1..n), ss # {}
        PROVE  Op[<<h[ss \ {Max(ss)}], Max(ss)>>]
                 = IF s[Max(ss)] \in ns THEN Append(h[ss \ {Max(ss)}], s[Max(ss)])
                   ELSE h[ss \ {Max(ss)}]
    <3>1. Max(ss) \in 1..n
      BY <1>0, <2>1, MaxOf
    <3>2. h[ss \ {Max(ss)}] \in A
      OBVIOUS
    <3> HIDE DEF A
    <3> QED
      BY <3>1, <3>2
  <2>2. h = [ss \in SUBSET (1..n) |-> IF ss = {} THEN <<>> ELSE Op[<<h[ss \ {Max(ss)}], Max(ss)>>]]
    BY <1>2, Zenon DEF Passos
  <2> HIDE DEF Op, n, A
  <2> QED
    BY <1>0, <2>1, <2>2
<1>4. Filtrar(s, ns) = g[DOMAIN s]
  BY Zenon DEF Filtrar, FoldLeft, MapThenFoldSet
<1>5. g = T(g)
  <2>1. \E y : y = T(y)
    BY <1>3
  <2> HIDE DEF T
  <2> QED
    BY <2>1
<1> HIDE DEF g, n
<1>6. g[1..0] = <<>>
  <2>1. 1..0 = {} /\ {} \in SUBSET (1..n)
    OBVIOUS
  <2> QED
    BY <1>0, <1>5, <2>1
<1>7. ASSUME NEW m \in 0..(n - 1)
      PROVE  /\ m + 1 \in 1..n
             /\ g[1..(m + 1)] = IF s[m + 1] \in ns THEN Append(g[1..m], s[m + 1]) ELSE g[1..m]
  <2>1. 1..(m + 1) \in SUBSET (1..n) /\ m \in Nat /\ m + 1 \in 1..n
    BY <1>0
  <2>2. Max(1..(m + 1)) = m + 1 /\ (1..(m + 1)) \ {m + 1} = 1..m /\ 1..(m + 1) # {}
    BY <2>1, MaxOfPrefix
  <2> QED
    BY <1>0, <1>5, <2>1, <2>2
<1> DEFINE S == {m \in 0..n : g[1..m] \in A}
           r == [m \in 0..n |-> g[1..m]]
<1>8. 0..n \subseteq S
  <2>1. 0 \in S
    <3>1. g[1..0] \in A
      BY <1>0, <1>6, Zenon
    <3>2. 0 \in 0..n
      BY <1>0
    <3> QED
      BY <3>1, <3>2
  <2>2. ASSUME NEW m \in 0..(n - 1), m \in S PROVE m + 1 \in S
    <3>1. s[m + 1] \in E /\ m + 1 \in 0..n /\ g[1..m] \in A
      BY <1>0, <1>7, <2>2
    <3>2. g[1..(m + 1)] \in A
      <4> DEFINE p == g[1..m]
                 e == s[m + 1]
      <4>1. e \in ns => Append(p, e) \in A
        BY <3>1
      <4> HIDE DEF A
      <4> QED
        BY <1>7, <3>1, <4>1
    <3> QED
      BY <3>1, <3>2
  <2> HIDE DEF S
  <2> QED
    BY <1>0, <2>1, <2>2, PrefixInduction
<1>9. r \in [0..n -> A] /\ r[0] = <<>> /\ Filtrar(s, ns) = r[n]
  <2>1. \A m \in 0..n : g[1..m] \in A
    BY <1>8
  <2>2. 0 \in 0..n /\ n \in 0..n
    BY <1>0
  <2> HIDE DEF A
  <2> QED
    BY <1>0, <1>4, <1>6, <2>1, <2>2
<1>10. \A m \in 0..(n - 1) : FiltroPasso(r, s, ns, m)
  <2> TAKE m \in 0..(n - 1)
  <2>1. m \in 0..n /\ m + 1 \in 0..n
    BY <1>0
  <2> QED
    BY <1>7, <2>1 DEF FiltroPasso
<1> HIDE DEF r, A
<1> QED
  BY <1>9, <1>10 DEF A, n

LEMMA FiltrarSeq ==
    ASSUME NEW E, NEW s \in Seq(E), NEW ns
    PROVE  Filtrar(s, ns) \in Seq(E \cap ns)
<1>1. PICK r \in [0..Len(s) -> Seq(E \cap ns)] : Filtrar(s, ns) = r[Len(s)]
  BY FiltrarPassos
<1>2. Len(s) \in 0..Len(s)
  OBVIOUS
<1> QED
  BY <1>1, <1>2

----------------------------------------------------------------------------
(***************************************************************************)
(* Types, and the inductive invariant.                                     *)
(***************************************************************************)
Motivos == {"link_simbolico", "nao_regular", "erro_stat", "profundidade_maxima",
            "outro_dispositivo", "hardlink_repetido", "erro_io", "removido_durante_leitura",
            "sem_permissao_diretorio", "sem_permissao_leitura", "substituido_durante_leitura"}
Classes == {"?", "vazio", "conteudo", "ilegivel"}
Estados == Motivos \cup {"-", "alterado_durante_leitura"}
Registro == [dir : Nat, nome : Names, tam : Nat, mtime : Nat, ino : Files,
             classe : Classes, status : Estados]
Moldura == [did : Nat, dir : Dirs, prof : Nat, subdirs : Seq(Names)]
Varreduras == [arquivos : Seq(Registro), dirs : Seq(Nat \X Nat),
               ignorados : Seq(Motivos \X Nat \X Nat), vistos : SUBSET Nodes,
               truncada : BOOLEAN, pilha : Seq(Moldura)]
Conteudo == [data : Seq(Nat), mtime : Nat]
Resultado == [h : Seq(Nat), completo : BOOLEAN, ok : BOOLEAN]
Andando == {"inicio", "varrer"}
Fases == Andando \cup {"classificar", "hash_amostra", "hash_completo", "fim"}

TypeOK ==
    /\ tree \in [Dirs -> [Names -> Nodes \cup {None}]]
    /\ node \in [Files -> Conteudo] /\ edits \in Nat
    /\ v \in Varreduras
    /\ fase \in Fases /\ todo \subseteq Arqs
    /\ job \in [Workers -> [i : Nat, at : {"idle", "abrir", "ler"}, ino : Nodes \cup {None}]]
    /\ res \in IF fase \in Andando THEN {<<>>} ELSE [Arqs -> Resultado]

\* No stamp is later than the last change; a record whose file still has its stamp
\* has the size of that file.
Vale(a) == a.mtime <= edits /\ (a.mtime = node[a.ino].mtime => Len(node[a.ino].data) = a.tam)

DatasOK == \A i \in Files : node[i].mtime <= edits
RegistrosOK == \A k \in Arqs : Vale(v.arquivos[k])

\* Nothing is read during the walk, nor when all is done.
ParadoOK == /\ fase \in Andando \cup {"fim"} => todo = {} /\ \A w \in Workers : job[w].at = "idle"
            /\ fase \in Andando => lidos = {}
            /\ fase = "inicio" => v = Varredura

\* Who reads, reads the inode of the record, and so did who has read.
LeiturasOK ==
    /\ \A w \in Workers : job[w].at # "idle" =>
          job[w].i \in Arqs /\ (job[w].at = "ler" => job[w].ino = v.arquivos[job[w].i].ino)
    /\ \A r \in lidos : r[1] \in Arqs /\ r[2] = v.arquivos[r[1]].ino

\* A whole hash of a file nobody has changed since the walk is that of its bytes.
HashesOK ==
    /\ fase = "classificar" => \A k \in Arqs : ~ res[k].ok
    /\ fase \notin Andando =>
          \A k \in Arqs : res[k].ok /\ res[k].completo /\ Inalterado(k) => res[k].h = Atual(k).data
    /\ fase \in {"hash_completo", "fim"} => \A k \in Arqs : res[k].ok => res[k].completo

\* The groups are apart, each has one hash, and nobody reads their files again.
GruposOK ==
    /\ fase \notin {"hash_completo", "fim"} => grupos = {}
    /\ \A g \in grupos :
          /\ g \subseteq Lidos /\ \A i, j \in g : res[i].h = res[j].h
          /\ \A h \in grupos \ {g} : g \cap h = {}
          /\ g \cap todo = {} /\ \A w \in Workers : job[w].at # "idle" => job[w].i \notin g

IInv == TypeOK /\ DatasOK /\ RegistrosOK /\ ParadoOK /\ LeiturasOK /\ HashesOK /\ GruposOK

----------------------------------------------------------------------------
(***************************************************************************)
(* The walk.                                                               *)
(***************************************************************************)
\* What the walk may hold at a moment: its records are true of the files now.
Boas == {y \in Varreduras : \A k \in 1..Len(y.arquivos) : Vale(y.arquivos[k])}

LEMMA IgnorarBoa ==
    ASSUME NEW y \in Boas, NEW motivo \in Motivos, NEW did \in Nat, NEW n \in Nat
    PROVE  Ignorar(y, motivo, did, n) \in Boas
<1>1. <<motivo, did, n>> \in Motivos \X Nat \X Nat
  OBVIOUS
<1>2. Append(y.ignorados, <<motivo, did, n>>) \in Seq(Motivos \X Nat \X Nat)
  BY <1>1 DEF Boas, Varreduras
<1> QED
  BY <1>2 DEF Ignorar, Boas, Varreduras

LEMMA ArqVale ==
    ASSUME TypeOK, DatasOK, NEW did \in Nat, NEW n \in Names, NEW i \in Files
    PROVE  Arq(did, n, i) \in Registro /\ Vale(Arq(did, n, i))
<1>1. node[i] \in Conteudo
  BY DEF TypeOK
<1>2. node[i].data \in Seq(Nat) /\ node[i].mtime \in Nat /\ Len(node[i].data) \in Nat
  BY <1>1 DEF Conteudo
<1>3. node[i].mtime <= edits
  BY DEF DatasOK
<1> QED
  BY <1>2, <1>3 DEF Arq, Registro, Vale, Classes, Estados

LEMMA InventariarBoa ==
    ASSUME TypeOK, DatasOK, NEW y \in Boas, NEW did \in Nat, NEW n \in Names, NEW i \in Files
    PROVE  Inventariar(y, did, n, i) \in Boas
<1>1. /\ Arq(did, n, i) \in Registro /\ Vale(Arq(did, n, i))
      /\ y.arquivos \in Seq(Registro) /\ y.vistos \in SUBSET Nodes /\ y \in Varreduras
      /\ \A k \in 1..Len(y.arquivos) : Vale(y.arquivos[k])
  BY ArqVale DEF Boas, Varreduras
<1> DEFINE q == Append(y.arquivos, Arq(did, n, i))
<1>2. q \in Seq(Registro) /\ \A k \in 1..Len(q) : Vale(q[k])
  <2>1. q \in Seq(Registro) /\ Len(q) = Len(y.arquivos) + 1 /\ Len(y.arquivos) \in Nat
        /\ \A k \in 1..Len(q) : q[k] = IF k = Len(q) THEN Arq(did, n, i) ELSE y.arquivos[k]
    BY <1>1
  <2>2. \A k \in 1..Len(q) : k = Len(q) \/ k \in 1..Len(y.arquivos)
    BY <2>1
  <2> HIDE DEF q
  <2> QED
    BY <1>1, <2>1, <2>2
<1>3. ASSUME NEW z, NEW vs \in SUBSET Nodes, z = [y EXCEPT !.arquivos = q, !.vistos = vs]
      PROVE  z \in Boas
  <2> HIDE DEF q
  <2> QED
    BY <1>1, <1>2, <1>3 DEF Boas, Varreduras
<1>4. [y EXCEPT !.truncada = TRUE] \in Boas
  BY DEF Boas, Varreduras
<1>5. i \in Nodes
  BY DEF Files
<1>6. CASE MaxArquivos > 0 /\ Len(y.arquivos) >= MaxArquivos
  BY <1>4, <1>6 DEF Inventariar
<1>7. CASE ~(MaxArquivos > 0 /\ Len(y.arquivos) >= MaxArquivos) /\ NLink(i) > 1 /\ i \in y.vistos
  <2>1. Inventariar(y, did, n, i) = Ignorar(y, "hardlink_repetido", did, n)
    BY <1>7 DEF Inventariar
  <2>2. n \in Nat
    BY DEF Names
  <2> QED
    BY <2>1, <2>2, IgnorarBoa DEF Motivos
<1>8. CASE ~(MaxArquivos > 0 /\ Len(y.arquivos) >= MaxArquivos) /\ ~(NLink(i) > 1 /\ i \in y.vistos)
  <2>1. Inventariar(y, did, n, i)
          = [y EXCEPT !.arquivos = q, !.vistos = IF NLink(i) > 1 THEN @ \cup {i} ELSE @]
    BY <1>8 DEF Inventariar
  <2>2. (IF NLink(i) > 1 THEN y.vistos \cup {i} ELSE y.vistos) \in SUBSET Nodes
    BY <1>1, <1>5
  <2> HIDE DEF q
  <2> QED
    BY <1>3, <2>1, <2>2
<1> QED
  BY <1>6, <1>7, <1>8

LEMMA EntradaBoa ==
    ASSUME TypeOK, DatasOK, NEW y \in Boas, NEW d \in Dirs, NEW did \in Nat, NEW prof \in Nat,
           NEW n \in Names, tree[d][n] # None
    PROVE  Entrada(y, d, did, prof, n) \in Boas
<1>1. tree[d][n] \in Nodes /\ n \in Nat
  BY BoundsAssumption DEF TypeOK, Names
<1>2. \/ Tipo(d, n) \in {"l", "o", "e", "d"}
      \/ Tipo(d, n) = "f" /\ tree[d][n] \in Files
  <2>1. Kind[tree[d][n]] \in {"dir", "file", "link", "other"}
    BY <1>1, TreesAssumption
  <2> QED
    BY <1>1, <2>1 DEF Tipo, Files
<1>3. Descida(d, prof, n) = "entra" \/ Descida(d, prof, n) \in Motivos
  BY DEF Descida, Motivos
<1>4. CASE Tipo(d, n) \in {"l", "o", "e"}
  BY <1>1, <1>4, IgnorarBoa DEF Entrada, Motivos
<1>5. CASE Tipo(d, n) = "d"
  BY <1>1, <1>3, <1>5, IgnorarBoa DEF Entrada
<1>6. CASE Tipo(d, n) = "f" /\ tree[d][n] \in Files
  BY <1>6, InventariarBoa DEF Entrada
<1> QED
  BY <1>2, <1>4, <1>5, <1>6

\* What listar_dir gives are entries of the directory.
Presentes(d) == {n \in Names : tree[d][n] # None}

LEMMA ListaPresentes ==
    ASSUME NEW d
    PROVE  listar_dir(d) \in Seq(Presentes(d)) /\ listar_dir(d) \in Seq(Names)
<1>1. [n \in Names |-> n] \in Seq(Names)
  BY BoundsAssumption DEF Names
<1>2. listar_dir(d) \in Seq(Names \cap Presentes(d))
  BY <1>1, FiltrarSeq DEF listar_dir, Presentes
<1>3. Names \cap Presentes(d) = Presentes(d) /\ Presentes(d) \subseteq Names
  BY DEF Presentes
<1> HIDE DEF Names
<1> QED
  BY <1>2, <1>3

\* What the walk holds after each entry of a directory.
EntradaPasso(r, d, did, prof, m) ==
    r[m + 1] = Entrada(r[m], d, did, prof, listar_dir(d)[m + 1])

LEMMA EntradasPassos ==
    ASSUME NEW A, NEW y \in A, NEW d, NEW did, NEW prof,
           \A z \in A, n \in Presentes(d) : Entrada(z, d, did, prof, n) \in A
    PROVE  \E r \in [0..Len(listar_dir(d)) -> A] :
              /\ r[0] = y /\ Entradas(y, d, did, prof) = r[Len(listar_dir(d))]
              /\ \A m \in 0..(Len(listar_dir(d)) - 1) : EntradaPasso(r, d, did, prof, m)
<1> DEFINE s == listar_dir(d)
           n == Len(s)
           T(g) == [ss \in SUBSET DOMAIN s |->
                     IF ss = {} THEN y ELSE Entrada(g[ss \ {Max(ss)}], d, did, prof, s[Max(ss)])]
           g == CHOOSE g : g = T(g)
           Op == [p \in A \X (1..n) |-> Entrada(p[1], d, did, prof, s[p[2]])]
<1>0. n \in Nat /\ DOMAIN s = 1..n /\ \A i \in 1..n : s[i] \in Presentes(d)
  <2>1. s \in Seq(Presentes(d))
    BY ListaPresentes
  <2> HIDE DEF s
  <2> QED
    BY <2>1
<1> HIDE DEF s, n
<1>1. Op \in [A \X (1..n) -> A]
  <2>1. \A p \in A \X (1..n) : Entrada(p[1], d, did, prof, s[p[2]]) \in A
    <3> TAKE p \in A \X (1..n)
    <3>1. p[1] \in A /\ p[2] \in 1..n
      OBVIOUS
    <3> QED
      BY <1>0, <3>1
  <2> QED
    BY <2>1
<1>2. PICK h \in [SUBSET (1..n) -> A] : Passos(h, y, Op, n)
  <2> HIDE DEF Op
  <2> QED
    BY <1>0, <1>1, FoldIsDefined
<1>3. h = T(h)
  <2>1. ASSUME NEW ss \in SUBSET (1..n), ss # {}
        PROVE  Op[<<h[ss \ {Max(ss)}], Max(ss)>>] = Entrada(h[ss \ {Max(ss)}], d, did, prof, s[Max(ss)])
    <3>1. Max(ss) \in 1..n
      BY <1>0, <2>1, MaxOf
    <3>2. h[ss \ {Max(ss)}] \in A
      OBVIOUS
    <3>3. <<h[ss \ {Max(ss)}], Max(ss)>> \in A \X (1..n)
      BY <3>1, <3>2
    <3> QED
      BY <3>3
  <2>2. h = [ss \in SUBSET (1..n) |-> IF ss = {} THEN y ELSE Op[<<h[ss \ {Max(ss)}], Max(ss)>>]]
    BY <1>2, Zenon DEF Passos
  <2> HIDE DEF Op
  <2> QED
    BY <1>0, <2>1, <2>2
<1>4. Entradas(y, d, did, prof) = g[DOMAIN s]
  BY Zenon DEF Entradas, FoldLeft, MapThenFoldSet, s
<1>5. g = T(g)
  <2>1. \E f : f = T(f)
    BY <1>3
  <2> HIDE DEF T
  <2> QED
    BY <2>1
<1> HIDE DEF g
<1>6. g[1..0] = y
  <2>1. 1..0 = {} /\ {} \in SUBSET (1..n)
    OBVIOUS
  <2> QED
    BY <1>0, <1>5, <2>1
<1>7. ASSUME NEW m \in 0..(n - 1)
      PROVE  m + 1 \in 1..n /\ g[1..(m + 1)] = Entrada(g[1..m], d, did, prof, s[m + 1])
  <2>1. 1..(m + 1) \in SUBSET (1..n) /\ m \in Nat /\ m + 1 \in 1..n
    BY <1>0
  <2>2. Max(1..(m + 1)) = m + 1 /\ (1..(m + 1)) \ {m + 1} = 1..m /\ 1..(m + 1) # {}
    BY <2>1, MaxOfPrefix
  <2> QED
    BY <1>0, <1>5, <2>1, <2>2
<1> DEFINE S == {m \in 0..n : g[1..m] \in A}
           r == [m \in 0..n |-> g[1..m]]
<1>8. 0..n \subseteq S
  <2>1. 0 \in S
    BY <1>0, <1>6
  <2>2. ASSUME NEW m \in 0..(n - 1), m \in S PROVE m + 1 \in S
    <3>1. s[m + 1] \in Presentes(d) /\ m + 1 \in 0..n /\ g[1..m] \in A
      BY <1>0, <1>7, <2>2
    <3>2. g[1..(m + 1)] \in A
      BY <1>7, <3>1
    <3> QED
      BY <3>1, <3>2
  <2> HIDE DEF S
  <2> QED
    BY <1>0, <2>1, <2>2, PrefixInduction
<1>9. r \in [0..n -> A] /\ r[0] = y /\ Entradas(y, d, did, prof) = r[n]
  <2>1. \A m \in 0..n : g[1..m] \in A
    BY <1>8
  <2>2. 0 \in 0..n /\ n \in 0..n
    BY <1>0
  <2> QED
    BY <1>0, <1>4, <1>6, <2>1, <2>2
<1>10. \A m \in 0..(n - 1) : EntradaPasso(r, d, did, prof, m)
  <2> TAKE m \in 0..(n - 1)
  <2>1. m \in 0..n /\ m + 1 \in 0..n
    BY <1>0
  <2> QED
    BY <1>7, <2>1 DEF EntradaPasso, s
<1> HIDE DEF r
<1> QED
  BY <1>9, <1>10 DEF n, s

LEMMA EntradasBoas ==
    ASSUME TypeOK, DatasOK, NEW y \in Boas, NEW d \in Dirs, NEW did \in Nat, NEW prof \in Nat
    PROVE  Entradas(y, d, did, prof) \in Boas
<1>1. \A z \in Boas, n \in Presentes(d) : Entrada(z, d, did, prof, n) \in Boas
  BY EntradaBoa DEF Presentes
<1>2. PICK r \in [0..Len(listar_dir(d)) -> Boas] :
          /\ r[0] = y /\ Entradas(y, d, did, prof) = r[Len(listar_dir(d))]
          /\ \A m \in 0..(Len(listar_dir(d)) - 1) : EntradaPasso(r, d, did, prof, m)
  BY <1>1, EntradasPassos, Zenon
<1>3. Len(listar_dir(d)) \in 0..Len(listar_dir(d))
  <2>1. listar_dir(d) \in Seq(Names)
    BY ListaPresentes
  <2> QED
    BY <2>1
<1> QED
  BY <1>2, <1>3

LEMMA EntrarBoa ==
    ASSUME TypeOK, DatasOK, NEW y \in Boas, NEW d \in Dirs, NEW did \in 1..Len(y.dirs), NEW prof \in Nat
    PROVE  entrar(y, did, d, prof) \in Boas
<1>1. CASE Perm[d] = "io"
  <2>1. y.dirs[did] \in Nat \X Nat /\ did \in Nat
    BY DEF Boas, Varreduras
  <2>2. y.dirs[did][1] \in Nat /\ y.dirs[did][2] \in Nat /\ "erro_io" \in Motivos
    BY <2>1 DEF Motivos
  <2> QED
    BY <1>1, <2>2, IgnorarBoa DEF entrar
<1>2. CASE Perm[d] # "io"
  <2> DEFINE z == Entradas(y, d, did, prof)
             frame == [did |-> did, dir |-> d, prof |-> prof, subdirs |-> Subdirs(d, prof)]
  <2>0. did \in Nat
    BY DEF Boas, Varreduras
  <2>1. z \in Boas
    BY <2>0, EntradasBoas
  <2>2. Subdirs(d, prof) \in Seq(Names)
    <3> DEFINE ns == {n \in Names : /\ tree[d][n] # None /\ Tipo(d, n) = "d"
                                    /\ Descida(d, prof, n) = "entra"}
    <3>1. Subdirs(d, prof) \in Seq(Names \cap ns)
      BY ListaPresentes, FiltrarSeq DEF Subdirs
    <3>2. Names \cap ns \subseteq Names
      OBVIOUS
    <3> HIDE DEF ns, Names
    <3> QED
      BY <3>1, <3>2
  <2>3. frame \in Moldura
    BY <2>0, <2>2 DEF Moldura
  <2>4. entrar(y, did, d, prof) = [z EXCEPT !.pilha = Append(@, frame)]
    BY <1>2 DEF entrar
  <2> HIDE DEF z, frame
  <2>5. Append(z.pilha, frame) \in Seq(Moldura)
    BY <2>1, <2>3 DEF Boas, Varreduras
  <2> QED
    BY <2>1, <2>4, <2>5 DEF Boas, Varreduras
<1> QED
  BY <1>1, <1>2

LEMMA RaizBoa ==
    ASSUME TypeOK, DatasOK, v = Varredura
    PROVE  entrar(v, 1, Root, 0) \in Boas
<1>1. Varredura \in Boas
  BY DEF Boas, Varreduras, Varredura
<1>2. 1 \in 1..Len(v.dirs)
  BY DEF Varredura
<1>3. Root \in Dirs
  BY NodesAssumption, TreesAssumption DEF Dirs
<1> QED
  BY <1>1, <1>2, <1>3, EntrarBoa

LEMMA PilhaMudada ==
    ASSUME NEW y \in Boas, NEW p \in Seq(Moldura)
    PROVE  [y EXCEPT !.pilha = p] \in Boas
BY DEF Boas, Varreduras

\* What a walk has found does not depend on its stack, nor on the classes.
MesmoAchado(x, y) ==
    /\ y.dirs = x.dirs /\ y.ignorados = x.ignorados /\ y.vistos = x.vistos /\ y.truncada = x.truncada
    /\ Len(y.arquivos) = Len(x.arquivos)
    /\ \A k \in 1..Len(x.arquivos) : /\ y.arquivos[k].dir = x.arquivos[k].dir
                                     /\ y.arquivos[k].nome = x.arquivos[k].nome
                                     /\ y.arquivos[k].ino = x.arquivos[k].ino

\* The stack p once its last frame gives the first of its subdirectories.
Cortada(p, q) ==
    /\ Len(q) = Len(p) /\ \A f \in 1..Len(p) : f # Len(p) => q[f] = p[f]
    /\ q[Len(p)].did = p[Len(p)].did /\ q[Len(p)].dir = p[Len(p)].dir
    /\ q[Len(p)].prof = p[Len(p)].prof /\ q[Len(p)].subdirs = Tail(p[Len(p)].subdirs)

\* A directory more.
Avancada(x, z, par) ==
    /\ z.dirs = Append(x.dirs, par)
    /\ z.arquivos = x.arquivos /\ z.ignorados = x.ignorados /\ z.vistos = x.vistos
    /\ z.truncada = x.truncada /\ z.pilha = x.pilha

\* Descer, from the top frame fr, by the name n, with the stack cut in x.
DescerDe(fr, n, x) ==
    /\ v.pilha # <<>> /\ Len(v.pilha) \in 1..Len(v.pilha) /\ fr = v.pilha[Len(v.pilha)]
    /\ fr.subdirs \in Seq(Names) /\ fr.subdirs # <<>> /\ n = Head(fr.subdirs)
    /\ fr.did \in Nat /\ fr.dir \in Dirs /\ fr.prof \in Nat
    /\ tree[fr.dir][n] \in Nodes \cup {None}
    /\ MesmoAchado(v, x) /\ Cortada(v.pilha, x.pilha)
    /\ AbreDir(fr.dir, n) # "aberto" =>
          AbreDir(fr.dir, n) \in Motivos /\ v' = Ignorar(x, AbreDir(fr.dir, n), fr.did, n)
    /\ AbreDir(fr.dir, n) = "aberto" =>
          /\ tree[fr.dir][n] \in Dirs
          /\ \E z \in Boas : /\ Avancada(x, z, <<fr.did, n>>)
                             /\ v' = entrar(z, Len(x.dirs) + 1, tree[fr.dir][n], fr.prof + 1)

LEMMA DescerPasso ==
    ASSUME TypeOK, v \in Boas, Descer
    PROVE  \E fr \in Moldura, n \in Names, x \in Boas : DescerDe(fr, n, x)
<1> DEFINE fr == Last(v.pilha)
           n == Head(fr.subdirs)
           b == [fr EXCEPT !.subdirs = Tail(fr.subdirs)]
           p == [v.pilha EXCEPT ![Len(v.pilha)].subdirs = Tail(fr.subdirs)]
           x == [v EXCEPT !.pilha[Len(v.pilha)].subdirs = Tail(fr.subdirs)]
<1>1. v.pilha \in Seq(Moldura) /\ v.pilha # <<>> /\ v.dirs \in Seq(Nat \X Nat)
  BY DEF Descer, Boas, Varreduras
<1>2. Len(v.pilha) \in 1..Len(v.pilha) /\ fr = v.pilha[Len(v.pilha)] /\ fr \in Moldura
  BY <1>1 DEF Last
<1>3. fr.subdirs # <<>> /\ fr.subdirs \in Seq(Names) /\ fr.did \in Nat /\ fr.dir \in Dirs /\ fr.prof \in Nat
  BY <1>2 DEF Descer, Moldura
<1>4. n \in Names /\ Tail(fr.subdirs) \in Seq(Names) /\ n \in Nat
  <2>1. n \in Names /\ Tail(fr.subdirs) \in Seq(Names)
    BY <1>3
  <2> QED
    BY <2>1 DEF Names
<1>5. /\ b \in Moldura /\ b.did = fr.did /\ b.dir = fr.dir /\ b.prof = fr.prof
      /\ b.subdirs = Tail(fr.subdirs)
  <2> HIDE DEF fr
  <2> QED
    BY <1>2, <1>4 DEF Moldura
<1>6. p \in Seq(Moldura) /\ Cortada(v.pilha, p)
  <2>1. p = [v.pilha EXCEPT ![Len(v.pilha)] = b]
    BY <1>1, <1>2
  <2> HIDE DEF p, fr, b
  <2>2. p \in Seq(Moldura) /\ Len(p) = Len(v.pilha) /\ p[Len(v.pilha)] = b
        /\ \A f \in 1..Len(v.pilha) : f # Len(v.pilha) => p[f] = v.pilha[f]
    BY <1>1, <1>2, <1>5, <2>1
  <2> QED
    BY <1>2, <1>5, <2>2 DEF Cortada
<1>7. x = [v EXCEPT !.pilha = p] /\ x \in Boas /\ x.pilha = p /\ MesmoAchado(v, x)
  <2>1. x = [v EXCEPT !.pilha = p]
    OBVIOUS
  <2> HIDE DEF x, p
  <2>2. x \in Boas
    BY <1>6, <2>1, PilhaMudada
  <2>3. x.pilha = p /\ MesmoAchado(v, x)
    BY <2>1 DEF MesmoAchado, Boas, Varreduras
  <2> QED
    BY <2>1, <2>2, <2>3
<1>8. tree[fr.dir][n] \in Nodes \cup {None}
  BY <1>3, <1>4 DEF TypeOK
<1>9. v' = IF AbreDir(fr.dir, n) # "aberto"
           THEN Ignorar(x, AbreDir(fr.dir, n), fr.did, n)
           ELSE entrar([x EXCEPT !.dirs = Append(@, <<fr.did, n>>)],
                       Len(v.dirs) + 1, tree[fr.dir][n], fr.prof + 1)
  BY DEF Descer
<1>10. fr.subdirs # <<>> /\ n = Head(fr.subdirs)
  BY <1>3
<1> HIDE DEF x, fr, n, p
<1>11. AbreDir(fr.dir, n) # "aberto" =>
           AbreDir(fr.dir, n) \in Motivos /\ v' = Ignorar(x, AbreDir(fr.dir, n), fr.did, n)
  BY <1>9 DEF AbreDir, Motivos
<1>12. ASSUME AbreDir(fr.dir, n) = "aberto"
       PROVE  /\ tree[fr.dir][n] \in Dirs
              /\ \E z \in Boas : /\ Avancada(x, z, <<fr.did, n>>)
                                 /\ v' = entrar(z, Len(x.dirs) + 1, tree[fr.dir][n], fr.prof + 1)
  <2> DEFINE z == [x EXCEPT !.dirs = Append(@, <<fr.did, n>>)]
  <2>1. x.dirs = v.dirs
    BY <1>7 DEF MesmoAchado
  <2>2. Append(v.dirs, <<fr.did, n>>) \in Seq(Nat \X Nat)
    BY <1>1, <1>3, <1>4
  <2>3. z \in Boas /\ Avancada(x, z, <<fr.did, n>>)
    <3>1. z = [x EXCEPT !.dirs = Append(v.dirs, <<fr.did, n>>)]
      BY <2>1
    <3> HIDE DEF z
    <3>2. z \in Boas
      BY <1>7, <2>2, <3>1 DEF Boas, Varreduras
    <3>3. Avancada(x, z, <<fr.did, n>>)
      BY <1>7, <2>1, <3>1 DEF Avancada, Boas, Varreduras
    <3> QED
      BY <3>2, <3>3
  <2>4. tree[fr.dir][n] \in Dirs
    BY <1>8, <1>12 DEF AbreDir, Dirs
  <2>5. v' = entrar(z, Len(x.dirs) + 1, tree[fr.dir][n], fr.prof + 1)
    BY <1>9, <1>12, <2>1
  <2> HIDE DEF z
  <2> QED
    BY <2>3, <2>4, <2>5
<1>13. DescerDe(fr, n, x)
  BY <1>1, <1>2, <1>3, <1>6, <1>7, <1>8, <1>10, <1>11, <1>12 DEF DescerDe
<1> QED
  BY <1>2, <1>4, <1>7, <1>13

LEMMA DescerBoa ==
    ASSUME TypeOK, DatasOK, v \in Boas, Descer
    PROVE  v' \in Boas
<1>1. PICK fr \in Moldura, n \in Names, x \in Boas : DescerDe(fr, n, x)
  BY DescerPasso
<1>2. CASE AbreDir(fr.dir, n) # "aberto"
  <2>1. PICK m \in Motivos, k \in Nat : v' = Ignorar(x, m, k, n)
    BY <1>1, <1>2 DEF DescerDe
  <2>2. n \in Nat
    BY DEF Names
  <2> QED
    BY <2>1, <2>2, IgnorarBoa, Zenon
<1>3. CASE AbreDir(fr.dir, n) = "aberto"
  <2>1. PICK z \in Boas : /\ Avancada(x, z, <<fr.did, n>>) /\ tree[fr.dir][n] \in Dirs
                          /\ v' = entrar(z, Len(x.dirs) + 1, tree[fr.dir][n], fr.prof + 1)
    BY <1>1, <1>3 DEF DescerDe
  <2>2. x.dirs \in Seq(Nat \X Nat) /\ z.dirs = Append(x.dirs, <<fr.did, n>>)
    BY <2>1 DEF Avancada, Boas, Varreduras
  <2>3. Len(x.dirs) + 1 \in 1..Len(z.dirs)
    BY <2>2
  <2>4. fr.prof \in Nat
    BY DEF Moldura
  <2>5. fr.prof + 1 \in Nat
    BY <2>4
  <2> QED
    BY <2>1, <2>3, <2>5, EntrarBoa
<1> QED
  BY <1>2, <1>3

LEMMA SubirBoa ==
    ASSUME v \in Boas, Subir
    PROVE  v' \in Boas
<1>1. v.pilha \in Seq(Moldura) /\ v.pilha # <<>>
  BY DEF Subir, Boas, Varreduras
<1>2. Front(v.pilha) \in Seq(Moldura)
  BY <1>1 DEF Front
<1>3. v' = [v EXCEPT !.pilha = Front(v.pilha)]
  BY DEF Subir
<1> QED
  BY <1>2, <1>3, PilhaMudada

----------------------------------------------------------------------------
(***************************************************************************)
(* The steps.                                                              *)
(***************************************************************************)
LEMMA InitIInv == Init => IInv
<1> SUFFICES ASSUME Init PROVE IInv
  OBVIOUS
<1> USE DEF Init, Varredura
<1>1. PICK b \in Bytes : node = [f \in Files |-> [data |-> b[f], mtime |-> 0]]
  OBVIOUS
<1>2. b \in [Files -> Seq(Nat)]
  BY TreesAssumption
<1>3. node \in [Files -> Conteudo] /\ \A i \in Files : node[i].mtime = 0
  BY <1>1, <1>2 DEF Conteudo
<1>4. tree \in [Dirs -> [Names -> Nodes \cup {None}]] /\ Arqs = {}
  BY TreesAssumption DEF Arqs
<1>5. v \in Varreduras
  BY DEF Varreduras
<1>6. fase \in Andando /\ fase \in Fases
  BY DEF Andando, Fases
<1>7. job \in [Workers -> [i : Nat, at : {"idle", "abrir", "ler"}, ino : Nodes \cup {None}]]
      /\ \A w \in Workers : job[w].at = "idle"
  BY DEF NoJob
<1>8. TypeOK
  BY <1>3, <1>4, <1>5, <1>6, <1>7 DEF TypeOK
<1>9. DatasOK /\ RegistrosOK /\ ParadoOK /\ LeiturasOK /\ HashesOK /\ GruposOK
  BY <1>3, <1>4, <1>6, <1>7 DEF DatasOK, RegistrosOK, ParadoOK, LeiturasOK, HashesOK, GruposOK, Andando
<1> QED
  BY <1>8, <1>9 DEF IInv

\* What other programs change gets a stamp of its own.
LEMMA NovosCarimbos ==
    ASSUME TypeOK, Programs
    PROVE  /\ edits' = edits + 1 /\ tree' \in [Dirs -> [Names -> Nodes \cup {None}]]
           /\ node' \in [Files -> Conteudo]
           /\ \A i \in Files : node'[i] = node[i] \/ node'[i].mtime = edits + 1
           /\ UNCHANGED <<v, fase, todo, taskVars, grupos, lidos>>
<1>0. edits \in Nat /\ node \in [Files -> Conteudo] /\ tree \in [Dirs -> [Names -> Nodes \cup {None}]]
  BY DEF TypeOK
<1>1. ASSUME NEW i \in Files, NEW x \in Datas,
             edits' = edits + 1, node' = [node EXCEPT ![i] = [data |-> x, mtime |-> edits']]
      PROVE  node' \in [Files -> Conteudo] /\ \A f \in Files : node'[f] = node[f] \/ node'[f].mtime = edits + 1
  <2>1. [data |-> x, mtime |-> edits'] \in Conteudo
    BY <1>0, <1>1, TreesAssumption DEF Conteudo
  <2>2. \A f \in Files : node'[f] = IF f = i THEN [data |-> x, mtime |-> edits'] ELSE node[f]
    BY <1>0, <1>1
  <2> QED
    BY <1>0, <1>1, <2>1, <2>2
<1>2. CASE \E i \in Files, x \in Datas : Rewrite(i, x)
  BY <1>0, <1>1, <1>2 DEF Rewrite, Edit
<1>3. ASSUME NEW d \in Dirs, NEW n \in Names, NEW i \in Nodes \cup {None}, Relink(d, n, i)
      PROVE  /\ tree' \in [Dirs -> [Names -> Nodes \cup {None}]]
             /\ node' \in [Files -> Conteudo]
             /\ \A f \in Files : node'[f] = node[f] \/ node'[f].mtime = edits + 1
  <2>1. tree' = [tree EXCEPT ![d] = [tree[d] EXCEPT ![n] = i]] /\ edits' = edits + 1
    BY <1>3 DEF Relink, Edit
  <2>2. [tree[d] EXCEPT ![n] = i] \in [Names -> Nodes \cup {None}]
    BY <1>0
  <2>3. tree' \in [Dirs -> [Names -> Nodes \cup {None}]]
    BY <1>0, <2>1, <2>2
  <2>4. CASE i \in Files /\ NLink(i) = 0
    BY <1>1, <1>3, <2>1, <2>3, <2>4 DEF Relink
  <2>5. CASE ~(i \in Files /\ NLink(i) = 0)
    BY <1>0, <1>3, <2>3, <2>5 DEF Relink
  <2> QED
    BY <2>4, <2>5
<1>4. CASE \E d \in Dirs, n \in Names, i \in Nodes \cup {None} : Relink(d, n, i)
  <2>1. PICK d \in Dirs, n \in Names, i \in Nodes \cup {None} : Relink(d, n, i)
    BY <1>4
  <2>2. edits' = edits + 1 /\ UNCHANGED <<v, fase, todo, taskVars, grupos, lidos>>
    BY <2>1 DEF Relink, Edit
  <2> QED
    BY <1>3, <2>1, <2>2
<1> QED
  BY <1>2, <1>4 DEF Programs

LEMMA ProgramsIInv ==
    ASSUME IInv, Programs
    PROVE  IInv'
<1>1. /\ edits' = edits + 1 /\ tree' \in [Dirs -> [Names -> Nodes \cup {None}]]
      /\ node' \in [Files -> Conteudo]
      /\ \A i \in Files : node'[i] = node[i] \/ node'[i].mtime = edits + 1
      /\ v' = v /\ fase' = fase /\ todo' = todo /\ job' = job /\ res' = res
      /\ grupos' = grupos /\ lidos' = lidos
  BY NovosCarimbos DEF IInv, taskVars
<1>2. edits \in Nat /\ v.arquivos \in Seq(Registro) /\ Arqs' = Arqs
  BY <1>1 DEF IInv, TypeOK, Varreduras, Arqs
<1>3. \A k \in Arqs : v.arquivos[k] \in Registro
  BY <1>2 DEF Arqs
<1>4. \A k \in Arqs : v.arquivos[k].ino \in Files /\ v.arquivos[k].mtime \in Nat
  BY <1>3 DEF Registro
<1>5. TypeOK'
  BY <1>1, <1>2 DEF IInv, TypeOK
<1>6. DatasOK'
  <2>1. \A i \in Files : node[i].mtime <= edits /\ node[i].mtime \in Nat
    BY DEF IInv, DatasOK, TypeOK, Conteudo
  <2> QED
    BY <1>1, <1>2, <2>1 DEF DatasOK
<1>7. ASSUME NEW k \in Arqs, Inalterado(k)' PROVE Atual(k)' = Atual(k) /\ Inalterado(k)
  <2>1. v.arquivos[k].mtime <= edits
    BY DEF IInv, RegistrosOK, Vale
  <2>2. node'[v.arquivos[k].ino].mtime # edits + 1
    BY <1>1, <1>2, <1>4, <1>7, <2>1 DEF Inalterado, Atual
  <2> QED
    BY <1>1, <1>4, <1>7, <2>2 DEF Inalterado, Atual
<1>8. RegistrosOK'
  <2> SUFFICES ASSUME NEW k \in Arqs PROVE Vale(v.arquivos[k])'
    BY <1>1, <1>2 DEF RegistrosOK
  <2>1. v.arquivos[k].mtime <= edits + 1
    BY <1>2, <1>4 DEF IInv, RegistrosOK, Vale
  <2>2. Inalterado(k)' => Len(node'[v.arquivos[k].ino].data) = v.arquivos[k].tam
    <3> SUFFICES ASSUME Inalterado(k)' PROVE Len(node'[v.arquivos[k].ino].data) = v.arquivos[k].tam
      OBVIOUS
    <3>1. node'[v.arquivos[k].ino] = node[v.arquivos[k].ino] /\ node[v.arquivos[k].ino].mtime = v.arquivos[k].mtime
      BY <1>1, <1>7 DEF Inalterado, Atual
    <3> QED
      BY <3>1 DEF IInv, RegistrosOK, Vale
  <2> QED
    BY <1>1, <2>1, <2>2 DEF Vale, Inalterado, Atual
<1>9. ParadoOK' /\ LeiturasOK' /\ GruposOK'
  BY <1>1, <1>2 DEF IInv, ParadoOK, LeiturasOK, GruposOK, Lidos
<1>10. HashesOK'
  BY <1>1, <1>2, <1>7 DEF IInv, HashesOK
<1> QED
  BY <1>5, <1>6, <1>8, <1>9, <1>10 DEF IInv

\* A step of the walk changes v alone, and the phase when it is the first.
LEMMA PassoDaVarredura ==
    ASSUME IInv, fase \in Andando, v' \in Boas, fase' = "varrer",
           UNCHANGED <<fsVars, todo, taskVars, grupos, lidos>>
    PROVE  IInv'
<1>1. /\ node' = node /\ edits' = edits /\ tree' = tree /\ todo' = todo /\ job' = job /\ res' = res
      /\ grupos' = grupos /\ lidos' = lidos
  BY DEF fsVars, taskVars
<1>2. /\ todo = {} /\ \A w \in Workers : job[w].at = "idle"
      /\ lidos = {} /\ res = <<>> /\ grupos = {}
  BY DEF IInv, ParadoOK, TypeOK, GruposOK, Andando
<1>3. TypeOK'
  BY <1>1, <1>2 DEF IInv, TypeOK, Boas, Fases, Andando
<1>4. DatasOK' /\ RegistrosOK'
  BY <1>1 DEF IInv, DatasOK, RegistrosOK, Boas, Vale, Arqs
<1>5. ParadoOK' /\ LeiturasOK' /\ GruposOK'
  BY <1>1, <1>2 DEF IInv, ParadoOK, LeiturasOK, GruposOK
<1>6. HashesOK'
  BY DEF HashesOK, Andando
<1> QED
  BY <1>3, <1>4, <1>5, <1>6 DEF IInv

LEMMA VarrerIInv ==
    ASSUME IInv, varrer_arvore
    PROVE  IInv'
<1>1. TypeOK /\ DatasOK /\ v \in Boas
  BY DEF IInv, TypeOK, RegistrosOK, Boas, Arqs
<1>2. CASE Descer
  <2>1. v' \in Boas /\ fase \in Andando /\ fase' = "varrer"
    BY <1>1, <1>2, DescerBoa DEF Descer, Andando
  <2> QED
    BY <1>2, <2>1, PassoDaVarredura DEF Descer
<1>3. CASE Subir
  <2>1. v' \in Boas /\ fase \in Andando /\ fase' = "varrer"
    BY <1>1, <1>3, SubirBoa DEF Subir, Andando
  <2> QED
    BY <1>3, <2>1, PassoDaVarredura DEF Subir
<1>4. CASE VarrerRaiz
  <2>1. fase \in Andando /\ fase' = "varrer" /\ v' = entrar(v, 1, Root, 0)
    BY <1>4 DEF VarrerRaiz, Andando
  <2>2. v' \in Boas
    BY <1>1, <1>4, <2>1, RaizBoa DEF VarrerRaiz, IInv, ParadoOK
  <2> QED
    BY <1>4, <2>1, <2>2, PassoDaVarredura DEF VarrerRaiz
<1> QED
  BY <1>2, <1>3, <1>4 DEF varrer_arvore

\* What the walk found in an entry.
Achado(a, b) ==
    a.dir = b.dir /\ a.nome = b.nome /\ a.tam = b.tam /\ a.mtime = b.mtime /\ a.ino = b.ino

\* The records keep what the walk found; only their class and status may change.
MesmosArquivos ==
    /\ v' \in Varreduras /\ Len(v'.arquivos) = Len(v.arquivos)
    /\ \A k \in Arqs : Achado(v'.arquivos[k], v.arquivos[k])
    /\ v'.dirs = v.dirs /\ v'.ignorados = v.ignorados /\ v'.vistos = v.vistos
    /\ v'.truncada = v.truncada /\ v'.pilha = v.pilha

\* And of all the records only that of i changes, and its class becomes c.
SoMuda(i, c) ==
    /\ MesmosArquivos /\ v'.arquivos[i].classe = c
    /\ \A k \in Arqs : k # i => v'.arquivos[k].classe = v.arquivos[k].classe

LEMMA RegistroMudado ==
    ASSUME v \in Varreduras, NEW i \in Arqs, NEW a \in Registro,
           Achado(a, v.arquivos[i]),
           v' = [v EXCEPT !.arquivos = [@ EXCEPT ![i] = a]]
    PROVE  SoMuda(i, a.classe)
<1> DEFINE q == [v.arquivos EXCEPT ![i] = a]
<1>1. v.arquivos \in Seq(Registro) /\ i \in 1..Len(v.arquivos)
  BY DEF Varreduras, Arqs
<1>2. q \in Seq(Registro) /\ Len(q) = Len(v.arquivos)
      /\ \A k \in 1..Len(v.arquivos) : q[k] = IF k = i THEN a ELSE v.arquivos[k]
  BY <1>1
<1>3. v' = [v EXCEPT !.arquivos = q]
  OBVIOUS
<1> HIDE DEF q
<1>4. /\ v' \in Varreduras /\ v'.arquivos = q
      /\ v'.dirs = v.dirs /\ v'.ignorados = v.ignorados /\ v'.vistos = v.vistos
      /\ v'.truncada = v.truncada /\ v'.pilha = v.pilha
  BY <1>2, <1>3 DEF Varreduras
<1>5. \A k \in 1..Len(v.arquivos) : Achado(v.arquivos[k], v.arquivos[k])
  BY DEF Achado
<1> QED
  BY <1>2, <1>4, <1>5 DEF SoMuda, MesmosArquivos, Arqs

LEMMA TipoDeRegistro ==
    ASSUME v \in Varreduras, NEW i \in Arqs
    PROVE  v.arquivos[i] \in Registro
BY DEF Varreduras, Arqs

\* The two statements that set the class and the status of a file.
Marcada(i, c, s) == [v EXCEPT !.arquivos[i].classe = c, !.arquivos[i].status = s]

LEMMA DuasMudancas ==
    ASSUME v \in Varreduras, NEW i \in Arqs, NEW c \in Classes, NEW s \in Estados, v' = Marcada(i, c, s)
    PROVE  SoMuda(i, c)
<1> DEFINE a == v.arquivos[i]
           e == [a EXCEPT !.classe = c]
           x == [v EXCEPT !.arquivos = [v.arquivos EXCEPT ![i] = e]]
           z == [x EXCEPT !.arquivos = [x.arquivos EXCEPT ![i] = [x.arquivos[i] EXCEPT !.status = s]]]
           b == [e EXCEPT !.status = s]
<1>0. v' = z
  BY DEF Marcada
<1>1. v.arquivos \in Seq(Registro) /\ DOMAIN v.arquivos = 1..Len(v.arquivos)
      /\ i \in 1..Len(v.arquivos) /\ a \in Registro
  BY DEF Varreduras, Arqs
<1> HIDE DEF a, e
<1>2. x.arquivos = [v.arquivos EXCEPT ![i] = e] /\ x.arquivos[i] = e
  BY <1>1 DEF Varreduras
<1>3. z = [v EXCEPT !.arquivos = [x.arquivos EXCEPT ![i] = [x.arquivos[i] EXCEPT !.status = s]]]
  <2>1. \A p, q : [[v EXCEPT !.arquivos = p] EXCEPT !.arquivos = q] = [v EXCEPT !.arquivos = q]
    BY DEF Varreduras
  <2> QED
    BY <2>1
<1>4. [x.arquivos EXCEPT ![i] = [x.arquivos[i] EXCEPT !.status = s]] = [v.arquivos EXCEPT ![i] = b]
  <2> HIDE DEF x
  <2> QED
    BY <1>1, <1>2
<1>5. b \in Registro /\ Achado(b, a) /\ b.classe = c
  BY <1>1 DEF Registro, Achado, e
<1>6. v' = [v EXCEPT !.arquivos = [@ EXCEPT ![i] = b]]
  <2> HIDE DEF x, z, b
  <2> QED
    BY <1>0, <1>3, <1>4
<1> HIDE DEF b
<1>7. Achado(b, v.arquivos[i]) /\ b \in Registro /\ b.classe = c
  BY <1>5 DEF a
<1> QED
  BY <1>6, <1>7, RegistroMudado

LEMMA MesmaVarredura ==
    ASSUME v \in Varreduras, v' = v
    PROVE  MesmosArquivos
BY DEF MesmosArquivos, Achado, Arqs

\* What a task may do to the hash of a file.
NovoHash(k) ==
    /\ fase \in {"hash_amostra", "hash_completo"}
    /\ \A g \in grupos : k \notin g
    /\ res'[k].completo /\ Inalterado(k) => res'[k].h = Atual(k).data
    /\ fase = "hash_completo" => res'[k].completo

LEMMA PassoDeTarefa ==
    ASSUME IInv, MesmosArquivos, fase \notin Andando \cup {"fim"}, UNCHANGED <<fsVars, fase, grupos>>,
           todo' \subseteq todo, NEW w \in Workers,
           NEW j \in [i : Nat, at : {"idle", "abrir", "ler"}, ino : Nodes \cup {None}],
           job' = [job EXCEPT ![w] = j],
           j.at # "idle" => /\ j.i \in Arqs /\ \A g \in grupos : j.i \notin g
                            /\ j.at = "ler" => j.ino = v.arquivos[j.i].ino,
           res' \in [Arqs -> Resultado], \A k \in Arqs : res'[k] = res[k] \/ NovoHash(k),
           \A r \in lidos' : r \in lidos \/ (r[1] \in Arqs /\ r[2] = v.arquivos[r[1]].ino)
    PROVE  IInv'
<1>1. /\ node' = node /\ edits' = edits /\ tree' = tree /\ fase' = fase /\ grupos' = grupos
  BY DEF fsVars
<1>2. /\ Arqs' = Arqs
      /\ \A k \in Arqs : Atual(k)' = Atual(k) /\ (Inalterado(k)' <=> Inalterado(k)) /\ v.arquivos[k] \in Registro
  BY <1>1 DEF MesmosArquivos, Achado, Arqs, Atual, Inalterado, IInv, TypeOK, Varreduras
<1>3. \A u \in Workers : job'[u] = IF u = w THEN j ELSE job[u]
  BY DEF IInv, TypeOK
<1>4. TypeOK'
  <2>1. todo' \subseteq Arqs'
    BY <1>2 DEF IInv, TypeOK
  <2>2. job' \in [Workers -> [i : Nat, at : {"idle", "abrir", "ler"}, ino : Nodes \cup {None}]]
    BY DEF IInv, TypeOK
  <2>3. res' \in IF fase' \in Andando THEN {<<>>} ELSE [Arqs' -> Resultado]
    BY <1>1, <1>2
  <2>4. v' \in Varreduras
    BY DEF MesmosArquivos
  <2> QED
    BY <1>1, <2>1, <2>2, <2>3, <2>4 DEF IInv, TypeOK
<1>5. DatasOK'
  BY <1>1 DEF IInv, DatasOK
<1>6. RegistrosOK'
  BY <1>1, <1>2 DEF IInv, RegistrosOK, Vale, MesmosArquivos, Achado
<1>7. ParadoOK'
  BY <1>1 DEF ParadoOK, Andando
<1>8. LeiturasOK'
  <2>1. \A u \in Workers : job'[u].at # "idle" =>
          job'[u].i \in Arqs /\ (job'[u].at = "ler" => job'[u].ino = v.arquivos[job'[u].i].ino)
    BY <1>3 DEF IInv, LeiturasOK
  <2>2. \A r \in lidos' : r[1] \in Arqs /\ r[2] = v.arquivos[r[1]].ino
    BY DEF IInv, LeiturasOK
  <2>3. \A k \in Arqs : v'.arquivos[k].ino = v.arquivos[k].ino
    BY DEF MesmosArquivos, Achado
  <2>4. \A u \in Workers : job'[u].at # "idle" =>
          job'[u].i \in Arqs' /\ (job'[u].at = "ler" => job'[u].ino = v'.arquivos[job'[u].i].ino)
    BY <1>2, <2>1, <2>3
  <2>5. \A r \in lidos' : r[1] \in Arqs' /\ r[2] = v'.arquivos[r[1]].ino
    BY <1>2, <2>2, <2>3
  <2> QED
    BY <2>4, <2>5 DEF LeiturasOK
<1>9. HashesOK'
  <2>1. fase = "classificar" => \A k \in Arqs : ~ res'[k].ok
    BY DEF IInv, HashesOK, NovoHash
  <2>2. \A k \in Arqs : res'[k].ok /\ res'[k].completo /\ Inalterado(k) => res'[k].h = Atual(k).data
    BY DEF IInv, HashesOK, NovoHash
  <2>3. fase = "hash_completo" => \A k \in Arqs : res'[k].ok => res'[k].completo
    BY DEF IInv, HashesOK, NovoHash
  <2> QED
    BY <1>1, <1>2, <2>1, <2>2, <2>3 DEF HashesOK
<1>10. GruposOK'
  <2>1. \A g \in grupos : \A k \in g : res'[k] = res[k] /\ k \in Arqs
    BY DEF IInv, GruposOK, Lidos, NovoHash
  <2>2. \A g \in grupos :
          /\ g \subseteq Lidos' /\ \A a, b \in g : res'[a].h = res'[b].h
          /\ g \cap todo' = {} /\ \A u \in Workers : job'[u].at # "idle" => job'[u].i \notin g
    <3> TAKE g \in grupos
    <3>0. g \subseteq Lidos /\ \A a, b \in g : res[a].h = res[b].h
      BY DEF IInv, GruposOK
    <3>a. \A k \in g : k \in Arqs' /\ res'[k].ok /\ res'[k].h = res[k].h
      BY <1>2, <2>1, <3>0 DEF Lidos
    <3>1. g \subseteq Lidos' /\ \A a, b \in g : res'[a].h = res'[b].h
      BY <3>0, <3>a DEF Lidos
    <3>2. g \cap todo' = {} /\ \A u \in Workers : job'[u].at # "idle" => job'[u].i \notin g
      BY <1>3 DEF IInv, GruposOK
    <3> QED
      BY <3>1, <3>2
  <2> QED
    BY <1>1, <2>2 DEF IInv, GruposOK
<1> QED
  BY <1>4, <1>5, <1>6, <1>7, <1>8, <1>9, <1>10 DEF IInv

\* Of who has a task.
LEMMA TarefaEmCurso ==
    ASSUME IInv, NEW w \in Workers, job[w].at # "idle"
    PROVE  /\ fase \in {"classificar", "hash_amostra", "hash_completo"}
           /\ job[w].i \in Arqs /\ job[w].i \in Nat /\ job[w].ino \in Nodes \cup {None}
           /\ \A g \in grupos : job[w].i \notin g
           /\ job[w].at = "ler" => job[w].ino = v.arquivos[job[w].i].ino
           /\ v \in Varreduras /\ v.arquivos[job[w].i] \in Registro
           /\ res \in [Arqs -> Resultado]
<1>1. fase \in {"classificar", "hash_amostra", "hash_completo"}
  BY DEF IInv, TypeOK, ParadoOK, Fases, Andando
<1>2. job[w].i \in Arqs /\ v \in Varreduras
  BY DEF IInv, TypeOK, LeiturasOK
<1>3. job[w].i \in Nat /\ job[w].ino \in Nodes \cup {None}
  BY DEF IInv, TypeOK
<1>4. res \in [Arqs -> Resultado]
  BY <1>1 DEF IInv, TypeOK, Andando
<1> QED
  BY <1>1, <1>2, <1>3, <1>4, TipoDeRegistro DEF IInv, LeiturasOK, GruposOK

LEMMA JobOcioso ==
    /\ NoJob \in [i : Nat, at : {"idle", "abrir", "ler"}, ino : Nodes \cup {None}]
    /\ NoJob.at = "idle"
BY DEF NoJob

\* A task that fails: of the records only that of its file changes.
LEMMA FalhaMuda ==
    ASSUME IInv, NEW w \in Workers, job[w].at # "idle", NEW motivo \in Motivos, Falha(w, motivo)
    PROVE  /\ SoMuda(job[w].i, IF fase = "classificar" THEN "ilegivel" ELSE v.arquivos[job[w].i].classe)
           /\ job' = [job EXCEPT ![w] = NoJob]
<1> DEFINE i == job[w].i
           a == v.arquivos[i]
           c == IF fase = "classificar" THEN "ilegivel" ELSE a.classe
           s == IF fase = "classificar" \/ a.status = "-" THEN motivo ELSE a.status
<1>1. i \in Arqs /\ a \in Registro /\ v \in Varreduras
  BY TarefaEmCurso
<1>2. v' = Marcada(i, c, s)
  BY DEF Falha, Marcada
<1>3. c \in Classes /\ s \in Estados
  BY <1>1 DEF Registro, Classes, Estados
<1>4. SoMuda(i, c)
  <2> HIDE DEF c, s, a
  <2> QED
    BY <1>1, <1>2, <1>3, DuasMudancas
<1>5. job' = [job EXCEPT ![w] = NoJob]
  BY DEF Falha
<1> QED
  BY <1>4, <1>5

LEMMA FalhaIInv ==
    ASSUME IInv, NEW w \in Workers, job[w].at # "idle", NEW motivo \in Motivos, Falha(w, motivo),
           UNCHANGED <<fsVars, fase, todo, res, grupos, lidos>>
    PROVE  IInv'
<1>1. MesmosArquivos /\ job' = [job EXCEPT ![w] = NoJob]
  BY FalhaMuda DEF SoMuda
<1>2. res \in [Arqs -> Resultado] /\ fase \notin Andando \cup {"fim"}
  BY TarefaEmCurso DEF Andando
<1> QED
  BY <1>1, <1>2, JobOcioso, PassoDeTarefa

\* A worker takes a file, which is empty or which it has to open.
PegarPasso(w, i) ==
    /\ todo' = todo \ {i}
    /\ \/ fase = "classificar" /\ Tam(i) = 0 /\ job' = job /\ SoMuda(i, "vazio")
       \/ /\ ~(fase = "classificar" /\ Tam(i) = 0) /\ v' = v
          /\ job' = [job EXCEPT ![w] = [i |-> i, at |-> "abrir", ino |-> None]]

LEMMA PegarMuda ==
    ASSUME IInv, NEW w \in Workers, Pegar(w)
    PROVE  \E i \in todo : PegarPasso(w, i)
<1> DEFINE i == CHOOSE k \in todo : \A m \in todo : k <= m
<1>1. todo \subseteq Arqs /\ Arqs \subseteq Nat /\ todo # {} /\ v \in Varreduras
  BY DEF IInv, TypeOK, Arqs, Pegar
<1>2. i \in todo
  <2>1. \E k \in todo : \A m \in todo : k <= m
    BY <1>1, LeastNatural
  <2> QED
    BY <2>1
<1> HIDE DEF i
<1>3. i \in Arqs /\ v.arquivos[i] \in Registro /\ todo' = todo \ {i}
  BY <1>1, <1>2, TipoDeRegistro DEF Pegar, i
<1>4. CASE fase = "classificar" /\ Tam(i) = 0
  <2> DEFINE b == [v.arquivos[i] EXCEPT !.classe = "vazio"]
  <2>1. v' = [v EXCEPT !.arquivos = [@ EXCEPT ![i] = b]] /\ job' = job
    BY <1>1, <1>4 DEF Pegar, i
  <2>2. b \in Registro /\ Achado(b, v.arquivos[i]) /\ b.classe = "vazio"
    BY <1>3 DEF Registro, Classes, Achado
  <2>3. SoMuda(i, "vazio")
    <3> HIDE DEF b
    <3> QED
      BY <1>1, <1>3, <2>1, <2>2, RegistroMudado
  <2> QED
    BY <1>2, <1>3, <1>4, <2>1, <2>3 DEF PegarPasso
<1>5. CASE ~(fase = "classificar" /\ Tam(i) = 0)
  <2>1. v' = v /\ job' = [job EXCEPT ![w] = [i |-> i, at |-> "abrir", ino |-> None]]
    BY <1>5 DEF Pegar, i
  <2> QED
    BY <1>2, <1>3, <1>5, <2>1 DEF PegarPasso
<1> QED
  BY <1>4, <1>5

LEMMA PegarIInv ==
    ASSUME IInv, NEW w \in Workers, Pegar(w)
    PROVE  IInv'
<1>1. PICK i \in todo : PegarPasso(w, i)
  BY PegarMuda
<1>2. todo \subseteq Arqs /\ Arqs \subseteq Nat /\ v \in Varreduras
  BY DEF IInv, TypeOK, Arqs
<1>3. fase \in {"classificar", "hash_amostra", "hash_completo"} /\ res \in [Arqs -> Resultado]
  BY <1>1 DEF IInv, ParadoOK, TypeOK, Fases, Andando
<1>4. i \in Arqs /\ i \in Nat /\ \A g \in grupos : i \notin g
  BY <1>1, <1>2 DEF IInv, GruposOK
<1>5. UNCHANGED <<fsVars, fase, grupos>> /\ res' = res /\ lidos' = lidos /\ todo' \subseteq todo
  BY DEF Pegar
<1>6. CASE job' = job /\ SoMuda(i, "vazio")
  <2>1. job[w] \in [i : Nat, at : {"idle", "abrir", "ler"}, ino : Nodes \cup {None}] /\ job' = [job EXCEPT ![w] = job[w]]
    BY <1>6 DEF IInv, TypeOK
  <2>2. job[w].at = "idle"
    BY DEF Pegar
  <2> QED
    BY <1>3, <1>5, <1>6, <2>1, <2>2, PassoDeTarefa DEF Andando, SoMuda
<1>7. CASE v' = v /\ job' = [job EXCEPT ![w] = [i |-> i, at |-> "abrir", ino |-> None]]
  <2> DEFINE j == [i |-> i, at |-> "abrir", ino |-> None]
  <2>1. job' = [job EXCEPT ![w] = j]
    BY <1>7
  <2>2. j \in [i : Nat, at : {"idle", "abrir", "ler"}, ino : Nodes \cup {None}] /\ j.i = i /\ j.at = "abrir"
    BY <1>4
  <2> HIDE DEF j
  <2> QED
    BY <1>2, <1>3, <1>4, <1>5, <1>7, <2>1, <2>2, MesmaVarredura, PassoDeTarefa DEF Andando
<1> QED
  BY <1>1, <1>6, <1>7 DEF PegarPasso

\* What opening a directory or a file can answer.
LEMMA Respostas ==
    /\ \A d, n : AbreDir(d, n) = "aberto" \/ AbreDir(d, n) \in Motivos
    /\ \A a, i : Conferir(a, i) \in Motivos \/ (Conferir(a, i) = "aberto" /\ i = a.ino)
BY DEF AbreDir, Conferir, Motivos

LEMMA FdDirIInv ==
    ASSUME IInv, NEW w \in Workers, fd_dir(w)
    PROVE  IInv'
<1>1. PICK pai, n :
        /\ job[w].at = "abrir" /\ UNCHANGED <<fsVars, fase, todo, res, grupos, lidos>>
        /\ IF AbreDir(pai, n) = "aberto" THEN UNCHANGED <<job, v>> ELSE Falha(w, AbreDir(pai, n))
  BY Zenon DEF fd_dir
<1>2. CASE AbreDir(pai, n) = "aberto"
  <2>1. v' = v /\ job' = job
    BY <1>1, <1>2
  <2>2. /\ job[w] \in [i : Nat, at : {"idle", "abrir", "ler"}, ino : Nodes \cup {None}]
        /\ job' = [job EXCEPT ![w] = job[w]]
    BY <2>1 DEF IInv, TypeOK
  <2>3. MesmosArquivos
    BY <1>1, <2>1, TarefaEmCurso, MesmaVarredura
  <2> QED
    BY <1>1, <2>2, <2>3, TarefaEmCurso, PassoDeTarefa DEF Andando
<1>3. CASE AbreDir(pai, n) # "aberto"
  <2>1. AbreDir(pai, n) \in Motivos /\ Falha(w, AbreDir(pai, n)) /\ job[w].at # "idle"
    BY <1>1, <1>3, Respostas
  <2> QED
    BY <1>1, <2>1, FalhaIInv
<1> QED
  BY <1>2, <1>3

LEMMA AbrirIInv ==
    ASSUME IInv, NEW w \in Workers, abrir(w)
    PROVE  IInv'
<1> DEFINE a == v.arquivos[job[w].i]
<1>1. PICK i :
        /\ job[w].at = "abrir" /\ UNCHANGED <<fsVars, fase, todo, res, grupos, lidos>>
        /\ IF Conferir(a, i) = "aberto"
              THEN job' = [job EXCEPT ![w].at = "ler", ![w].ino = i] /\ v' = v
              ELSE Falha(w, Conferir(a, i))
  BY Zenon DEF abrir
<1>2. job[w] \in [i : Nat, at : {"idle", "abrir", "ler"}, ino : Nodes \cup {None}]
      /\ a \in Registro /\ job[w].i \in Arqs /\ a.ino \in Nodes
  <2>1. a \in Registro /\ job[w].i \in Arqs
    BY <1>1, TarefaEmCurso
  <2> HIDE DEF a
  <2> QED
    BY <2>1 DEF IInv, TypeOK, Registro, Files
<1>3. CASE Conferir(a, i) = "aberto"
  <2> DEFINE j == [job[w] EXCEPT !.at = "ler", !.ino = i]
  <2>1. v' = v /\ job' = [job EXCEPT ![w] = j]
    BY <1>1, <1>3 DEF IInv, TypeOK
  <2>2. i = a.ino
    BY <1>3, Respostas DEF Motivos
  <2>3. i \in Nodes
    BY <1>2, <2>2
  <2> HIDE DEF a
  <2>4. /\ j \in [i : Nat, at : {"idle", "abrir", "ler"}, ino : Nodes \cup {None}]
        /\ j.i = job[w].i /\ j.ino = i
    BY <1>2, <2>3
  <2> HIDE DEF j
  <2> QED
    BY <1>1, <2>1, <2>2, <2>4, TarefaEmCurso, MesmaVarredura, PassoDeTarefa DEF Andando, a
<1>4. CASE Conferir(a, i) # "aberto"
  <2>1. Conferir(a, i) \in Motivos /\ Falha(w, Conferir(a, i)) /\ job[w].at # "idle"
    BY <1>1, <1>4, Respostas
  <2> HIDE DEF a
  <2> QED
    BY <1>1, <2>1, FalhaIInv
<1> QED
  BY <1>3, <1>4

LEMMA LerTipo ==
    ASSUME NEW dados \in Seq(Nat), NEW off \in Nat, NEW n \in Nat
    PROVE  ler(dados, off, n) \in Seq(Nat)
<1> DEFINE fim == IF off + n < Len(dados) THEN off + n ELSE Len(dados)
<1>1. fim \in Nat /\ fim <= Len(dados) /\ off + 1 \in Nat \ {0}
  OBVIOUS
<1> HIDE DEF fim
<1>2. \A k \in (off + 1)..fim : dados[k] \in Nat
  BY <1>1
<1>3. SubSeq(dados, off + 1, fim) \in Seq(Nat)
  <2>1. CASE off + 1 <= fim + 1
    BY <1>1, <2>1, SubSeqProperties
  <2>2. CASE ~(off + 1 <= fim + 1)
    <3>1. SubSeq(dados, off + 1, fim) = <<>>
      BY <1>1, <2>2
    <3>2. <<>> \in Seq(Nat)
      OBVIOUS
    <3> QED
      BY <3>1, <3>2, Zenon
  <2> QED
    BY <2>1, <2>2
<1> QED
  BY <1>3 DEF ler, fim

LEMMA LerTudo ==
    ASSUME NEW dados \in Seq(Nat)
    PROVE  ler(dados, 0, Len(dados)) = dados
<1>1. ler(dados, 0, Len(dados)) = SubSeq(dados, 1, Len(dados))
  BY DEF ler
<1> QED
  BY <1>1

\* A sample is typed, and whole only when it is all of a file of the size recorded.
LEMMA AmostraTipo ==
    ASSUME NEW a \in Registro, NEW dados \in Seq(Nat)
    PROVE  LET r == tarefa_hash_amostra(a, dados)
           IN  r \in Resultado /\ (r.completo /\ Len(dados) = a.tam => r.h = dados)
<1>0. a.tam \in Nat
  BY DEF Registro
<1>1. CASE a.tam <= 3
  <2>1. ler(dados, 0, a.tam) \in Seq(Nat)
    BY <1>0, LerTipo
  <2>2. Len(dados) = a.tam => ler(dados, 0, a.tam) = dados
    BY LerTudo
  <2> QED
    BY <1>1, <2>1, <2>2 DEF tarefa_hash_amostra, Resultado
<1>2. CASE ~(a.tam <= 3)
  <2>1. a.tam - 1 \in Nat /\ (a.tam - 1) \div 2 \in Nat
    <3>1. \A m \in Nat : m \div 2 \in Nat
      OBVIOUS
    <3>2. a.tam - 1 \in Nat
      BY <1>0, <1>2
    <3> QED
      BY <3>1, <3>2
  <2> DEFINE p == ler(dados, 0, 1)
             q == ler(dados, (a.tam - 1) \div 2, 1)
             s == ler(dados, a.tam - 1, 1)
  <2>2. p \in Seq(Nat) /\ q \in Seq(Nat) /\ s \in Seq(Nat)
    BY <2>1, LerTipo
  <2>3. tarefa_hash_amostra(a, dados) = [h |-> p \o q \o s, completo |-> FALSE, ok |-> TRUE]
    BY <1>2 DEF tarefa_hash_amostra
  <2> HIDE DEF p, q, s
  <2>4. p \o q \o s \in Seq(Nat)
    BY <2>2
  <2> QED
    BY <2>3, <2>4 DEF Resultado
<1> QED
  BY <1>1, <1>2

\* What reading a file changes: its class, or its hash.
LerPasso(i, a, dados) ==
    /\ fase = "classificar" => res' = res /\ \E c \in {"vazio", "conteudo"} : SoMuda(i, c)
    /\ fase = "hash_amostra" => v' = v /\ res' = [res EXCEPT ![i] = tarefa_hash_amostra(a, dados)]
    /\ fase = "hash_completo" => v' = v /\ res' = [res EXCEPT ![i] = tarefa_hash_completo(a, dados)]

LEMMA LerMuda ==
    ASSUME IInv, NEW w \in Workers, Ler(w)
    PROVE  LerPasso(job[w].i, v.arquivos[job[w].i], node[job[w].ino].data)
<1> DEFINE i == job[w].i
           a == v.arquivos[i]
           f == node[job[w].ino]
           c == tarefa_classificar(a, f.data, f.mtime)
<1>1. i \in Arqs /\ v \in Varreduras
  BY TarefaEmCurso DEF Ler
<1>2. ASSUME fase = "classificar" PROVE res' = res /\ \E k \in {"vazio", "conteudo"} : SoMuda(i, k)
  <2>1. v' = Marcada(i, c.classe, c.status) /\ res' = res
    BY <1>2, Zenon DEF Ler, Marcada
  <2>2. c.classe \in {"vazio", "conteudo"} /\ c.classe \in Classes /\ c.status \in Estados
    BY DEF tarefa_classificar, Classes, Estados
  <2> HIDE DEF c
  <2>3. SoMuda(i, c.classe)
    BY <1>1, <2>1, <2>2, DuasMudancas
  <2> QED
    BY <2>1, <2>2, <2>3
<1>3. fase = "hash_amostra" => v' = v /\ res' = [res EXCEPT ![i] = tarefa_hash_amostra(a, f.data)]
  BY DEF Ler
<1>4. fase = "hash_completo" => v' = v /\ res' = [res EXCEPT ![i] = tarefa_hash_completo(a, f.data)]
  BY DEF Ler
<1> QED
  BY <1>2, <1>3, <1>4 DEF LerPasso

LEMMA LerIInv ==
    ASSUME IInv, NEW w \in Workers, Ler(w)
    PROVE  IInv'
<1> DEFINE i == job[w].i
           a == v.arquivos[i]
           f == node[job[w].ino]
<1>1. /\ job[w].at = "ler" /\ job' = [job EXCEPT ![w] = NoJob]
      /\ lidos' = lidos \cup {<<i, job[w].ino>>}
      /\ UNCHANGED <<fsVars, fase, todo, cache, grupos>>
  BY DEF Ler
<1>2. /\ i \in Arqs /\ a \in Registro /\ v \in Varreduras /\ res \in [Arqs -> Resultado]
      /\ fase \in {"classificar", "hash_amostra", "hash_completo"} /\ fase \notin Andando \cup {"fim"}
      /\ job[w].ino = a.ino /\ \A g \in grupos : i \notin g
  BY <1>1, TarefaEmCurso DEF Andando
<1>3. a.ino \in Files /\ f \in Conteudo /\ f.data \in Seq(Nat) /\ f = Atual(i)
  <2>1. a.ino \in Files
    BY <1>2 DEF Registro
  <2>2. f \in Conteudo
    BY <1>2, <2>1 DEF IInv, TypeOK
  <2> QED
    BY <1>2, <2>1, <2>2 DEF Conteudo, Atual
<1>4. Inalterado(i) => Len(f.data) = a.tam
  BY <1>2, <1>3 DEF IInv, RegistrosOK, Vale, Inalterado, Atual
<1>5. \A r \in lidos' : r \in lidos \/ (r[1] \in Arqs /\ r[2] = v.arquivos[r[1]].ino)
  BY <1>1, <1>2
<1>a. LerPasso(i, a, f.data)
  BY LerMuda
<1>6. CASE fase = "classificar"
  <2>1. res' = res
    BY <1>6, <1>a DEF LerPasso
  <2>3. MesmosArquivos
    BY <1>6, <1>a DEF LerPasso, SoMuda
  <2>4. \A k \in Arqs : res'[k] = res[k]
    BY <2>1
  <2>5. todo' = todo /\ UNCHANGED <<fsVars, fase, grupos>>
    BY <1>1
  <2> HIDE DEF i, f
  <2> QED
    BY <1>1, <1>2, <1>5, <2>1, <2>3, <2>4, <2>5, JobOcioso, PassoDeTarefa
<1>7. ASSUME NEW t \in Resultado, fase \in {"hash_amostra", "hash_completo"},
             v' = v, res' = [res EXCEPT ![i] = t],
             t.completo /\ Len(f.data) = a.tam => t.h = f.data,
             fase = "hash_completo" => t.completo
      PROVE  IInv'
  <2>1. res' \in [Arqs -> Resultado] /\ \A k \in Arqs : res'[k] = IF k = i THEN t ELSE res[k]
    BY <1>2, <1>7
  <2>2. NovoHash(i)
    BY <1>2, <1>3, <1>4, <1>7, <2>1 DEF NovoHash
  <2>3. \A k \in Arqs : res'[k] = res[k] \/ NovoHash(k)
    BY <2>1, <2>2
  <2>4. MesmosArquivos
    BY <1>2, <1>7, MesmaVarredura
  <2> QED
    BY <1>1, <1>2, <1>5, <2>1, <2>3, <2>4, JobOcioso, PassoDeTarefa
<1>8. CASE fase = "hash_amostra"
  <2> DEFINE t == tarefa_hash_amostra(a, f.data)
  <2>1. v' = v /\ res' = [res EXCEPT ![i] = t]
    BY <1>8, <1>a DEF LerPasso
  <2>2. t \in Resultado /\ (t.completo /\ Len(f.data) = a.tam => t.h = f.data)
    BY <1>2, <1>3, AmostraTipo
  <2> HIDE DEF t
  <2> QED
    BY <1>7, <1>8, <2>1, <2>2
<1>9. CASE fase = "hash_completo"
  <2> DEFINE t == tarefa_hash_completo(a, f.data)
  <2>1. v' = v /\ res' = [res EXCEPT ![i] = t]
    BY <1>9, <1>a DEF LerPasso
  <2>2. t \in Resultado /\ t.h = f.data /\ t.completo
    BY <1>3 DEF tarefa_hash_completo, Resultado
  <2> HIDE DEF t
  <2> QED
    BY <1>7, <1>9, <2>1, <2>2
<1> QED
  BY <1>2, <1>6, <1>8, <1>9

----------------------------------------------------------------------------
(***************************************************************************)
(* etapa_dedup.                                                            *)
(***************************************************************************)
\* Files are put together by size and hash, so the classes are apart.
LEMMA ClassesApartadas ==
    ASSUME NEW ids, NEW g \in Agrupar(ids)
    PROVE  /\ g \subseteq ids /\ \A a, b \in g : res[a].h = res[b].h
           /\ \A f \in Agrupar(ids) \ {g} : g \cap f = {}
<1> DEFINE com(i) == {j \in ids : Tam(j) = Tam(i) /\ res[j].h = res[i].h}
<1>1. PICK i \in ids : g = com(i)
  BY DEF Agrupar
<1>2. g \subseteq ids /\ \A a, b \in g : res[a].h = res[b].h
  BY <1>1
<1>3. ASSUME NEW f \in Agrupar(ids), NEW k, k \in g, k \in f PROVE f = g
  <2>1. PICK j \in ids : f = com(j)
    BY DEF Agrupar
  <2>2. Tam(k) = Tam(i) /\ res[k].h = res[i].h /\ Tam(k) = Tam(j) /\ res[k].h = res[j].h
    BY <1>1, <1>3, <2>1
  <2> QED
    BY <1>1, <2>1, <2>2
<1> QED
  BY <1>2, <1>3

\* Between two phases nobody reads.
LEMMA PassoDeFase ==
    ASSUME IInv, fase \notin {"inicio"}, todo = {}, \A w \in Workers : job[w].at = "idle",
           UNCHANGED <<fsVars, v, job, lidos>>,
           fase' \in {"classificar", "hash_amostra", "hash_completo", "fim"},
           todo' \subseteq Arqs, fase' = "fim" => todo' = {}, res' \in [Arqs -> Resultado],
           HashesOK', GruposOK'
    PROVE  IInv'
<1>1. /\ node' = node /\ edits' = edits /\ tree' = tree /\ v' = v /\ job' = job /\ lidos' = lidos
      /\ Arqs' = Arqs
  BY DEF fsVars, Arqs
<1>2. TypeOK'
  BY <1>1 DEF IInv, TypeOK, Fases, Andando
<1>3. DatasOK' /\ RegistrosOK'
  BY <1>1 DEF IInv, DatasOK, RegistrosOK, Vale
<1>4. ParadoOK' /\ LeiturasOK'
  BY <1>1 DEF IInv, ParadoOK, LeiturasOK, Andando
<1> QED
  BY <1>2, <1>3, <1>4 DEF IInv

LEMMA SemHash == NoHash \in Resultado /\ ~ NoHash.ok
BY DEF NoHash, Resultado

LEMMA ClassificarIInv ==
    ASSUME IInv, Classificar
    PROVE  IInv'
<1>1. /\ fase = "varrer" /\ fase' = "classificar" /\ todo' = Arqs /\ UNCHANGED <<fsVars, v, job, lidos>>
      /\ res' = [i \in Arqs |-> NoHash] /\ grupos' = grupos
  BY DEF Classificar, ComecarFase
<1>2. todo = {} /\ (\A w \in Workers : job[w].at = "idle") /\ grupos = {}
  BY <1>1 DEF IInv, ParadoOK, GruposOK, Andando
<1>3. Arqs' = Arqs /\ res' \in [Arqs -> Resultado] /\ \A k \in Arqs : ~ res'[k].ok
  BY <1>1, SemHash DEF Arqs
<1>4. HashesOK'
  BY <1>1, <1>3 DEF HashesOK
<1>5. GruposOK'
  BY <1>1, <1>2 DEF GruposOK
<1> QED
  BY <1>1, <1>2, <1>3, <1>4, <1>5, PassoDeFase

LEMMA HashAmostraIInv ==
    ASSUME IInv, HashAmostra
    PROVE  IInv'
<1>1. /\ fase = "classificar" /\ fase' \in {"hash_amostra", "hash_completo"}
      /\ todo' = Candidatos /\ UNCHANGED <<fsVars, v, job, lidos>>
      /\ res' = res /\ grupos' = grupos
      /\ todo = {} /\ \A w \in Workers : job[w].at = "idle"
  BY DEF HashAmostra, ComecarFase, Ociosos
<1>2. Candidatos \subseteq Arqs
  BY DEF Candidatos
<1>3. grupos = {} /\ (\A k \in Arqs : ~ res[k].ok) /\ res \in [Arqs -> Resultado] /\ Arqs' = Arqs
  BY <1>1 DEF IInv, GruposOK, HashesOK, TypeOK, Andando, Arqs
<1>4. HashesOK'
  BY <1>1, <1>3 DEF HashesOK
<1>5. GruposOK'
  BY <1>1, <1>3 DEF GruposOK
<1> QED
  BY <1>1, <1>2, <1>3, <1>4, <1>5, PassoDeFase

LEMMA HashCompletosIInv ==
    ASSUME IInv, HashCompletos
    PROVE  IInv'
<1> DEFINE gs == Agrupar(Lidos)
           inteiros == {g \in gs : \A i \in g : res[i].completo}
           pend == UNION (gs \ inteiros)
<1>1. /\ fase = "hash_amostra" /\ fase' = "hash_completo"
      /\ todo' = pend /\ UNCHANGED <<fsVars, v, job, lidos>>
      /\ res' = [i \in Arqs |-> IF i \in UNION inteiros THEN res[i] ELSE NoHash]
      /\ grupos' = inteiros
      /\ todo = {} /\ \A w \in Workers : job[w].at = "idle"
  BY DEF HashCompletos, ComecarFase, Ociosos
<1>2. /\ res \in [Arqs -> Resultado] /\ Arqs' = Arqs /\ node' = node /\ v' = v /\ job' = job
      /\ \A k \in Arqs : res[k].ok /\ res[k].completo /\ Inalterado(k) => res[k].h = Atual(k).data
  BY <1>1 DEF IInv, HashesOK, TypeOK, Andando, Arqs, fsVars
<1>3. \A g \in gs : /\ g \subseteq Lidos /\ \A a, b \in g : res[a].h = res[b].h
                    /\ \A f \in gs \ {g} : g \cap f = {}
  BY ClassesApartadas
<1>4. Lidos \subseteq Arqs /\ \A k \in Lidos : res[k].ok
  BY DEF Lidos
<1> HIDE DEF gs
<1>5. inteiros \subseteq gs /\ (\A g \in inteiros : \A i \in g : res[i].completo) /\ pend \subseteq Arqs
  BY <1>3, <1>4
<1>6. \A g \in inteiros : g \cap pend = {}
  BY <1>3
<1> HIDE DEF inteiros, pend
<1>7. /\ res' \in [Arqs -> Resultado]
      /\ \A k \in Arqs : res'[k].ok => res'[k] = res[k] /\ res'[k].completo
  <2>1. res' \in [Arqs -> Resultado]
    BY <1>1, <1>2, SemHash
  <2>2. ASSUME NEW k \in Arqs, res'[k].ok PROVE res'[k] = res[k] /\ res'[k].completo
    <3>1. k \in UNION inteiros
      BY <1>1, <2>2, SemHash
    <3> QED
      BY <1>1, <1>5, <3>1
  <2> QED
    BY <2>1, <2>2
<1>8. HashesOK'
  <2>1. \A k \in Arqs : (Inalterado(k)' <=> Inalterado(k)) /\ Atual(k)' = Atual(k)
    BY <1>2 DEF Inalterado, Atual
  <2> QED
    BY <1>1, <1>2, <1>7, <2>1 DEF HashesOK
<1>9. GruposOK'
  <2>1. ASSUME NEW g \in inteiros
        PROVE  /\ g \subseteq Lidos' /\ \A a, b \in g : res'[a].h = res'[b].h
               /\ \A f \in inteiros \ {g} : g \cap f = {}
               /\ g \cap todo' = {}
    <3>1. \A k \in g : k \in Arqs /\ res'[k] = res[k] /\ res[k].ok
      BY <1>1, <1>3, <1>4, <1>5, <2>1
    <3>2. g \subseteq Lidos'
      BY <1>2, <3>1 DEF Lidos
    <3>3. \A a, b \in g : res'[a].h = res'[b].h
      BY <1>3, <1>5, <2>1, <3>1
    <3>4. \A f \in inteiros \ {g} : g \cap f = {}
      BY <1>3, <1>5, <2>1
    <3> QED
      BY <1>1, <1>6, <2>1, <3>2, <3>3, <3>4
  <2> QED
    BY <1>1, <1>2, <2>1 DEF GruposOK
<1> QED
  BY <1>1, <1>2, <1>5, <1>7, <1>8, <1>9, PassoDeFase

LEMMA FimDedupIInv ==
    ASSUME IInv, FimDedup
    PROVE  IInv'
<1> DEFINE ids == Lidos \ UNION grupos
           gs == Agrupar(ids)
<1>1. /\ fase = "hash_completo" /\ fase' = "fim"
      /\ todo' = todo /\ UNCHANGED <<fsVars, v, job, lidos>>
      /\ res' = res /\ grupos' = grupos \cup gs
      /\ todo = {} /\ \A w \in Workers : job[w].at = "idle"
  BY DEF FimDedup, taskVars, Ociosos
<1>2. /\ res \in [Arqs -> Resultado] /\ Arqs' = Arqs /\ node' = node /\ v' = v /\ job' = job /\ Lidos' = Lidos
  BY <1>1 DEF IInv, TypeOK, Andando, Arqs, fsVars, Lidos
<1>3. HashesOK'
  BY <1>1, <1>2 DEF IInv, HashesOK, Inalterado, Atual, Andando
<1>4. \A g \in gs : /\ g \subseteq ids /\ \A a, b \in g : res[a].h = res[b].h
                    /\ \A f \in gs \ {g} : g \cap f = {}
  BY ClassesApartadas
<1>5. \A g \in grupos : /\ g \subseteq Lidos /\ \A a, b \in g : res[a].h = res[b].h
                        /\ \A f \in grupos \ {g} : g \cap f = {}
  BY DEF IInv, GruposOK
<1>6. ids \subseteq Lidos /\ \A g \in grupos : g \cap ids = {}
  OBVIOUS
<1> HIDE DEF ids, gs
<1>7. GruposOK'
  <2>1. ASSUME NEW g \in grupos \cup gs
        PROVE  /\ g \subseteq Lidos /\ \A a, b \in g : res[a].h = res[b].h
               /\ \A f \in (grupos \cup gs) \ {g} : g \cap f = {}
    BY <1>4, <1>5, <1>6
  <2> QED
    BY <1>1, <1>2, <2>1 DEF GruposOK
<1>8. todo' \subseteq Arqs
  BY <1>1
<1> QED
  BY <1>1, <1>2, <1>3, <1>7, <1>8, PassoDeFase

----------------------------------------------------------------------------
(***************************************************************************)
(* Every step.                                                             *)
(***************************************************************************)
LEMMA StepIInv == IInv /\ [Next]_vars => IInv'
<1> SUFFICES ASSUME IInv, [Next]_vars PROVE IInv'
  OBVIOUS
<1>1. CASE Programs
  BY <1>1, ProgramsIInv
<1>2. CASE varrer_arvore
  BY <1>2, VarrerIInv
<1>3. CASE etapa_dedup
  BY <1>3, ClassificarIInv, HashAmostraIInv, HashCompletosIInv, FimDedupIInv DEF etapa_dedup
<1>4. CASE \E w \in Workers : Worker(w)
  BY <1>4, PegarIInv, FdDirIInv, AbrirIInv, LerIInv DEF Worker
<1>5. CASE UNCHANGED vars
  <2>1. UNCHANGED <<tree, node, edits, v, fase, todo, job, res, grupos, lidos>>
    BY <1>5 DEF vars, fsVars, taskVars
  <2>2. TypeOK' /\ DatasOK' /\ RegistrosOK' /\ ParadoOK' /\ LeiturasOK'
    BY <2>1 DEF IInv, TypeOK, DatasOK, RegistrosOK, ParadoOK, LeiturasOK, Arqs, Vale
  <2>3. HashesOK' /\ GruposOK'
    BY <2>1 DEF IInv, HashesOK, GruposOK, Lidos, Inalterado, Atual, Arqs
  <2> QED
    BY <2>2, <2>3 DEF IInv
<1> QED
  BY <1>1, <1>2, <1>3, <1>4, <1>5 DEF Next

LEMMA GruposSaoCopias == IInv => RedundantIsCopy
<1> SUFFICES ASSUME IInv PROVE RedundantIsCopy
  OBVIOUS
<1>1. \A r \in lidos : r[2] = v.arquivos[r[1]].ino
  BY DEF IInv, LeiturasOK
<1>2. ASSUME fase = "fim", NEW g \in grupos
      PROVE  /\ \A i, j \in g : Inalterado(i) /\ Inalterado(j) => Atual(i).data = Atual(j).data
             /\ \A h \in grupos \ {g} : g \cap h = {}
  <2>1. /\ \A i \in g : i \in Arqs /\ res[i].ok
        /\ \A i, j \in g : res[i].h = res[j].h
        /\ \A h \in grupos \ {g} : g \cap h = {}
    BY DEF IInv, GruposOK, Lidos
  <2>2. \A i \in g : Inalterado(i) => res[i].h = Atual(i).data
    BY <1>2, <2>1 DEF IInv, HashesOK, Andando
  <2> QED
    BY <2>1, <2>2
<1> QED
  BY <1>1, <1>2 DEF RedundantIsCopy

----------------------------------------------------------------------------
(***************************************************************************)
(* A tree that nobody changes.  D is the directory behind each number of    *)
(* dirs, P its depth, and L the entries the walk has still to look at.      *)
(***************************************************************************)
Numeros(x) == 1..Len(x.dirs)
Entrados(x) == {x.dirs[k] : k \in 2..Len(x.dirs)}
Arquivo(x, k) == <<x.arquivos[k].dir, x.arquivos[k].nome>>
Registrados(x) == {Arquivo(x, k) : k \in 1..Len(x.arquivos)}
Ignorado2(x, k) == <<x.ignorados[k][2], x.ignorados[k][3]>>
Ignorados(x) == {Ignorado2(x, k) : k \in 1..Len(x.ignorados)}
Inos(x) == {x.arquivos[k].ino : k \in 1..Len(x.arquivos)}

\* The walk may go from directory d, by the name n, to directory c.
Desce(d, n, c) == c = tree[d][n] /\ Perm[d] = "rx" /\ Perm[c] # "none" /\ Dev[c] = Dev[Root]

\* The numbers of dirs lead to different directories, from the root.
Mapa(x, D, P) ==
    /\ x.dirs # <<>>
    /\ D \in [Numeros(x) -> Dirs] /\ P \in [Numeros(x) -> 0..ProfMax]
    /\ D[1] = Root /\ P[1] = 0
    /\ \A k \in 2..Len(x.dirs) :
          /\ x.dirs[k][1] \in 1..(k - 1) /\ x.dirs[k][2] \in Names
          /\ Desce(D[x.dirs[k][1]], x.dirs[k][2], D[k])
          /\ P[k] = P[x.dirs[k][1]] + 1
    /\ \A j, k \in Numeros(x) : D[j] = D[k] => j = k

\* Each record is an entry of its directory, and no inode is recorded twice.
ArquivosOK(x, D) ==
    /\ \A k \in 1..Len(x.arquivos) :
          /\ x.arquivos[k].dir \in Numeros(x) /\ Perm[D[x.arquivos[k].dir]] = "rx"
          /\ tree[D[x.arquivos[k].dir]][x.arquivos[k].nome] = x.arquivos[k].ino
          /\ NLink(x.arquivos[k].ino) > 1 => x.arquivos[k].ino \in x.vistos
    /\ \A j, k \in 1..Len(x.arquivos) : x.arquivos[j].ino = x.arquivos[k].ino => j = k
    /\ x.vistos \subseteq Inos(x)
    /\ MaxArquivos > 0 => Len(x.arquivos) <= MaxArquivos
    /\ x.truncada => MaxArquivos > 0 /\ Len(x.arquivos) = MaxArquivos

\* No entry is ignored twice, nor ignored and recorded.
Separados(x) ==
    /\ Registrados(x) \cap Ignorados(x) = {}
    /\ \A j, k \in 1..Len(x.ignorados) : Ignorado2(x, j) = Ignorado2(x, k) => j = k
    /\ Ignorados(x) \subseteq ({0} \cup Numeros(x)) \X Nat

\* What the walk owes an entry it has looked at.
Feito(x, D, P, did, n) ==
    /\ tree[D[did]][n] \in Files => x.truncada \/ tree[D[did]][n] \in Inos(x)
    /\ /\ tree[D[did]][n] \in Dirs /\ P[did] < ProfMax
       /\ Perm[tree[D[did]][n]] # "none" /\ Dev[tree[D[did]][n]] = Dev[Root]
       => <<did, n>> \in Entrados(x)

Livres(x, L) ==
    /\ L \subseteq Numeros(x) \X Names
    /\ L \cap (Registrados(x) \cup Ignorados(x) \cup Entrados(x)) = {}

Cumprido(x, D, P, L) ==
    \A did \in Numeros(x), n \in Names :
        Perm[D[did]] = "rx" /\ tree[D[did]][n] # None
            => <<did, n>> \in L \/ Feito(x, D, P, did, n)

Percurso(x, D, P, L) ==
    Mapa(x, D, P) /\ ArquivosOK(x, D) /\ Separados(x) /\ Livres(x, L) /\ Cumprido(x, D, P, L)

\* The frames of the stack: the subdirectories still to open, each once.
Entravel(d, prof, n) == tree[d][n] # None /\ Tipo(d, n) = "d" /\ Descida(d, prof, n) = "entra"

PilhaOK(p, D, P) ==
    /\ \A f \in 1..Len(p) :
          /\ p[f].did \in DOMAIN D /\ p[f].dir = D[p[f].did] /\ p[f].prof = P[p[f].did]
          /\ Perm[p[f].dir] # "io"
          /\ \A q \in 1..Len(p[f].subdirs) : Entravel(p[f].dir, p[f].prof, p[f].subdirs[q])
    /\ \A f, g \in 1..Len(p) : \A q \in 1..Len(p[f].subdirs), r \in 1..Len(p[g].subdirs) :
          p[f].did = p[g].did /\ p[f].subdirs[q] = p[g].subdirs[r] => f = g /\ q = r

Pendentes(p) == UNION {{<<p[f].did, p[f].subdirs[q]>> : q \in 1..Len(p[f].subdirs)} : f \in 1..Len(p)}

----------------------------------------------------------------------------
(***************************************************************************)
(* Lists without repetitions.                                              *)
(***************************************************************************)
Elementos(t) == {t[k] : k \in 1..Len(t)}
SemRepetir(t) == \A j, k \in 1..Len(t) : t[j] = t[k] => j = k

LEMMA ComMaisUm ==
    ASSUME NEW E, NEW t \in Seq(E), NEW e \in E
    PROVE  /\ Append(t, e) \in Seq(E) /\ Elementos(Append(t, e)) = Elementos(t) \cup {e}
           /\ SemRepetir(t) /\ e \notin Elementos(t) => SemRepetir(Append(t, e))
<1> DEFINE q == Append(t, e)
<1>1. /\ q \in Seq(E) /\ Len(q) = Len(t) + 1 /\ Len(t) \in Nat
      /\ q[Len(t) + 1] = e /\ \A k \in 1..Len(t) : q[k] = t[k]
  OBVIOUS
<1>2. \A k : k \in 1..(Len(t) + 1) <=> k \in 1..Len(t) \/ k = Len(t) + 1
  BY <1>1
<1> HIDE DEF q
<1>3. Elementos(q) = Elementos(t) \cup {e}
  BY <1>1, <1>2 DEF Elementos
<1>4. SemRepetir(t) /\ e \notin Elementos(t) => SemRepetir(q)
  BY <1>1, <1>2 DEF Elementos, SemRepetir
<1> QED
  BY <1>1, <1>3, <1>4 DEF q

LEMMA FiltroExato ==
    ASSUME NEW E, NEW s \in Seq(E), SemRepetir(s), NEW ns
    PROVE  /\ Filtrar(s, ns) \in Seq(E \cap ns) /\ SemRepetir(Filtrar(s, ns))
           /\ Elementos(Filtrar(s, ns)) = Elementos(s) \cap ns
<1> DEFINE n == Len(s)
<1>1. PICK r \in [0..n -> Seq(E \cap ns)] :
          /\ r[0] = <<>> /\ Filtrar(s, ns) = r[n]
          /\ \A m \in 0..(n - 1) : FiltroPasso(r, s, ns, m)
  BY FiltrarPassos, Zenon
<1>2. n \in Nat /\ \A k \in 1..n : s[k] \in E
  OBVIOUS
<1> DEFINE Ate(m) == {s[k] : k \in 1..m} \cap ns
           S == {m \in 0..n : SemRepetir(r[m]) /\ Elementos(r[m]) = Ate(m)}
<1> HIDE DEF n
<1>3. 0 \in S
  <2>1. r[0] = <<>> /\ 1..0 = {} /\ 0 \in 0..n /\ Len(<<>>) = 0
    BY <1>1, <1>2
  <2>2. SemRepetir(r[0]) /\ Elementos(r[0]) = {} /\ Ate(0) = {}
    BY <2>1 DEF SemRepetir, Elementos
  <2> QED
    BY <2>1, <2>2
<1>4. ASSUME NEW m \in 0..(n - 1), m \in S PROVE m + 1 \in S
  <2>1. /\ m + 1 \in 1..n /\ m + 1 \in 0..n /\ m \in 0..n /\ m \in Nat
        /\ \A k : k \in 1..(m + 1) <=> k \in 1..m \/ k = m + 1
    BY <1>2
  <2>2. s[m + 1] \in E /\ r[m] \in Seq(E \cap ns) /\ SemRepetir(r[m]) /\ Elementos(r[m]) = Ate(m)
    BY <1>1, <1>2, <1>4, <2>1
  <2>3. r[m + 1] = IF s[m + 1] \in ns THEN Append(r[m], s[m + 1]) ELSE r[m]
    BY <1>1 DEF FiltroPasso
  <2>4. Ate(m + 1) = Ate(m) \cup ({s[m + 1]} \cap ns)
    BY <2>1
  <2>5. s[m + 1] \notin Ate(m)
    <3>1. \A k \in 1..m : k \in 1..n /\ k # m + 1
      BY <1>2, <2>1
    <3>2. \A k \in 1..m : s[k] # s[m + 1]
      BY <2>1, <3>1 DEF SemRepetir, n
    <3> QED
      BY <3>2
  <2> HIDE DEF Ate
  <2>6. SemRepetir(r[m + 1]) /\ Elementos(r[m + 1]) = Ate(m + 1)
    <3>1. CASE s[m + 1] \in ns
      <4>1. s[m + 1] \in E \cap ns
        BY <2>2, <3>1
      <4>2. /\ Elementos(Append(r[m], s[m + 1])) = Elementos(r[m]) \cup {s[m + 1]}
            /\ SemRepetir(Append(r[m], s[m + 1]))
        BY <2>2, <2>5, <4>1, ComMaisUm
      <4> QED
        BY <2>2, <2>3, <2>4, <3>1, <4>2
    <3>2. CASE s[m + 1] \notin ns
      BY <2>2, <2>3, <2>4, <3>2
    <3> QED
      BY <3>1, <3>2
  <2> QED
    BY <2>1, <2>6
<1> HIDE DEF Ate
<1>5. 0..n \subseteq S
  <2> HIDE DEF S
  <2> QED
    BY <1>2, <1>3, <1>4, PrefixInduction
<1>6. n \in 0..n
  BY <1>2
<1>7. SemRepetir(r[n]) /\ Elementos(r[n]) = Ate(n) /\ r[n] \in Seq(E \cap ns)
  BY <1>1, <1>5, <1>6
<1> QED
  BY <1>1, <1>7 DEF Ate, Elementos, n

LEMMA ListaExata ==
    ASSUME NEW d
    PROVE  /\ listar_dir(d) \in Seq(Names) /\ SemRepetir(listar_dir(d))
           /\ Elementos(listar_dir(d)) = Presentes(d)
<1> DEFINE s == [n \in Names |-> n]
<1>1. s \in Seq(Names) /\ Len(s) = MaxNome /\ \A k \in 1..Len(s) : s[k] = k
  BY BoundsAssumption DEF Names
<1>2. SemRepetir(s) /\ Elementos(s) = Names
  <2> HIDE DEF s
  <2> QED
    BY <1>1 DEF SemRepetir, Elementos, Names
<1>3. listar_dir(d) = Filtrar(s, Presentes(d))
  BY DEF listar_dir, Presentes
<1>4. Presentes(d) \subseteq Names
  BY DEF Presentes
<1> HIDE DEF s
<1>5. /\ SemRepetir(Filtrar(s, Presentes(d)))
      /\ Elementos(Filtrar(s, Presentes(d))) = Elementos(s) \cap Presentes(d)
  <2> HIDE DEF Names
  <2> QED
    BY <1>1, <1>2, FiltroExato
<1> QED
  BY <1>2, <1>3, <1>4, <1>5, ListaPresentes

LEMMA SubdirsExatos ==
    ASSUME NEW d, NEW prof
    PROVE  /\ Subdirs(d, prof) \in Seq(Names) /\ SemRepetir(Subdirs(d, prof))
           /\ Elementos(Subdirs(d, prof)) = {n \in Names : Entravel(d, prof, n)}
<1> DEFINE ns == {n \in Names : Entravel(d, prof, n)}
<1>1. Subdirs(d, prof) = Filtrar(listar_dir(d), ns)
  BY DEF Subdirs, Entravel
<1>2. ns \subseteq Presentes(d) /\ ns \subseteq Names /\ Names \cap ns = ns
  BY DEF Presentes, Entravel
<1> HIDE DEF ns
<1>3. /\ Subdirs(d, prof) \in Seq(Names \cap ns) /\ SemRepetir(Subdirs(d, prof))
      /\ Elementos(Subdirs(d, prof)) = Presentes(d) \cap ns
  BY <1>1, ListaExata, FiltroExato
<1>4. Subdirs(d, prof) \in Seq(Names)
  <2> HIDE DEF Names
  <2> QED
    BY <1>2, <1>3
<1> QED
  BY <1>2, <1>3, <1>4 DEF ns

----------------------------------------------------------------------------
(***************************************************************************)
(* An entry of a directory the walk lists.                                 *)
(***************************************************************************)
LEMMA DoisElementos ==
    ASSUME NEW S, IsFiniteSet(S), NEW a \in S, NEW b \in S, a # b
    PROVE  Cardinality(S) > 1
<1> DEFINE T == {a} \cup {b}
<1>1. IsFiniteSet({a}) /\ Cardinality({a}) = 1 /\ b \notin {a}
  BY FS_Singleton
<1>2. IsFiniteSet(T) /\ Cardinality(T) = 2
  <2>1. Cardinality(T) = Cardinality({a}) + 1 /\ IsFiniteSet(T)
    BY <1>1, FS_AddElement
  <2> QED
    BY <1>1, <2>1
<1>3. T \subseteq S
  OBVIOUS
<1> HIDE DEF T
<1>4. Cardinality(T) <= Cardinality(S) /\ Cardinality(S) \in Nat
  BY <1>3, FS_Subset, FS_CardinalityType
<1> QED
  BY <1>2, <1>4

\* A file with one name is met under it only.
LEMMA UmNome ==
    ASSUME TypeOK, NEW d \in Dirs, NEW e \in Dirs, NEW m \in Names, NEW n \in Names, NEW i \in Nodes,
           tree[d][m] = i, tree[e][n] = i, ~(NLink(i) > 1)
    PROVE  d = e /\ m = n
<1> DEFINE S == {x \in Entries : tree[x[1]][x[2]] = i}
<1>1. IsFiniteSet(S)
  <2>1. IsFiniteSet(Dirs)
    BY NodesAssumption, FS_Subset DEF Dirs
  <2>2. IsFiniteSet(Names)
    BY BoundsAssumption, FS_Interval DEF Names
  <2>3. IsFiniteSet(Dirs \X Names)
    BY <2>1, <2>2, FS_Product
  <2>4. S \subseteq Dirs \X Names
    BY DEF Entries
  <2> HIDE DEF S
  <2> QED
    BY <2>3, <2>4, FS_Subset
<1>2. <<d, m>> \in S /\ <<e, n>> \in S
  BY NodesAssumption DEF Entries
<1>3. NLink(i) = Cardinality(S)
  BY DEF NLink
<1> HIDE DEF S
<1>4. SUFFICES ASSUME <<d, m>> # <<e, n>> PROVE FALSE
  OBVIOUS
<1>5. Cardinality(S) > 1
  BY <1>1, <1>2, <1>4, DoisElementos
<1> QED
  BY <1>3, <1>5

LEMMA IgnorarCampos ==
    ASSUME NEW x \in Boas, NEW motivo \in Motivos, NEW did \in Nat, NEW n \in Nat,
           NEW y, y = Ignorar(x, motivo, did, n)
    PROVE  /\ y \in Boas /\ y.arquivos = x.arquivos /\ y.dirs = x.dirs /\ y.vistos = x.vistos
           /\ y.truncada = x.truncada /\ y.pilha = x.pilha
           /\ Len(x.ignorados) \in Nat /\ Len(y.ignorados) = Len(x.ignorados) + 1
           /\ Ignorado2(y, Len(x.ignorados) + 1) = <<did, n>>
           /\ \A k \in 1..Len(x.ignorados) : Ignorado2(y, k) = Ignorado2(x, k)
<1> DEFINE t == <<motivo, did, n>>
           q == Append(x.ignorados, t)
<1>1. y \in Boas
  BY IgnorarBoa
<1>2. x \in Varreduras /\ x.ignorados \in Seq(Motivos \X Nat \X Nat) /\ t[2] = did /\ t[3] = n
  BY DEF Boas, Varreduras
<1>3. y = [x EXCEPT !.ignorados = q]
  BY DEF Ignorar
<1> HIDE DEF t
<1>4. /\ Len(q) = Len(x.ignorados) + 1 /\ Len(x.ignorados) \in Nat
      /\ q[Len(x.ignorados) + 1] = t /\ \A k \in 1..Len(x.ignorados) : q[k] = x.ignorados[k]
  BY <1>2
<1> HIDE DEF q
<1>5. /\ y.ignorados = q /\ y.arquivos = x.arquivos /\ y.dirs = x.dirs /\ y.vistos = x.vistos
      /\ y.truncada = x.truncada /\ y.pilha = x.pilha
  BY <1>2, <1>3 DEF Varreduras
<1> QED
  BY <1>1, <1>2, <1>4, <1>5 DEF Ignorado2

\* What an entry can be, if the walk has not to record it.
LEMMA PercursoIgnorar ==
    ASSUME NEW x \in Boas, NEW D, NEW P, NEW L, Percurso(x, D, P, L),
           NEW motivo \in Motivos, NEW did \in {0} \cup Numeros(x), NEW n \in Nat,
           <<did, n>> \notin Registrados(x) \cup Ignorados(x),
           did \in Numeros(x) /\ n \in Names /\ Perm[D[did]] = "rx" /\ tree[D[did]][n] # None
              => Feito(x, D, P, did, n)
    PROVE  Percurso(Ignorar(x, motivo, did, n), D, P, L \ {<<did, n>>})
<1> DEFINE M == L \ {<<did, n>>}
           N == Len(x.ignorados)
<1>0. PICK y : y = Ignorar(x, motivo, did, n)
  OBVIOUS
<1>1. did \in Nat
  BY DEF Numeros
<1>2. /\ y \in Boas /\ y.arquivos = x.arquivos /\ y.dirs = x.dirs /\ y.vistos = x.vistos
      /\ y.truncada = x.truncada
      /\ N \in Nat /\ Len(y.ignorados) = N + 1
      /\ Ignorado2(y, N + 1) = <<did, n>>
      /\ \A k \in 1..N : Ignorado2(y, k) = Ignorado2(x, k)
  BY <1>0, <1>1, IgnorarCampos
<1>3. Numeros(y) = Numeros(x) /\ Entrados(y) = Entrados(x) /\ Registrados(y) = Registrados(x) /\ Inos(y) = Inos(x)
  BY <1>2 DEF Numeros, Entrados, Registrados, Arquivo, Inos
<1>4. \A k : k \in 1..(N + 1) <=> k \in 1..N \/ k = N + 1
  BY <1>2
<1>5. Ignorados(y) = Ignorados(x) \cup {<<did, n>>}
  BY <1>2, <1>4 DEF Ignorados
<1>6. Mapa(y, D, P) /\ ArquivosOK(y, D)
  <2>1. Mapa(x, D, P) /\ ArquivosOK(x, D)
    BY DEF Percurso
  <2>2. Mapa(y, D, P)
    BY <1>2, <1>3, <2>1 DEF Mapa
  <2>3. ArquivosOK(y, D)
    BY <1>2, <1>3, <2>1 DEF ArquivosOK
  <2> QED
    BY <2>2, <2>3
<1>7. Separados(y)
  <2>1. Registrados(y) \cap Ignorados(y) = {}
    BY <1>3, <1>5 DEF Percurso, Separados
  <2>2. \A j, k \in 1..(N + 1) : Ignorado2(y, j) = Ignorado2(y, k) => j = k
    <3>1. \A k \in 1..N : Ignorado2(x, k) # <<did, n>>
      BY DEF Ignorados
    <3> QED
      BY <1>2, <1>4, <3>1 DEF Percurso, Separados
  <2>3. Ignorados(y) \subseteq ({0} \cup Numeros(y)) \X Nat
    BY <1>3, <1>5 DEF Percurso, Separados
  <2> QED
    BY <1>2, <2>1, <2>2, <2>3 DEF Separados
<1>8. Livres(y, M)
  BY <1>3, <1>5 DEF Percurso, Livres
<1>9. Cumprido(y, D, P, M)
  <2>1. \A e \in Numeros(x), m \in Names : Feito(y, D, P, e, m) <=> Feito(x, D, P, e, m)
    BY <1>2, <1>3 DEF Feito
  <2> QED
    BY <1>3, <2>1 DEF Percurso, Cumprido
<1> HIDE DEF M
<1>10. Percurso(y, D, P, M)
  BY <1>6, <1>7, <1>8, <1>9 DEF Percurso
<1> QED
  BY <1>0, <1>10 DEF M

LEMMA PercursoTruncar ==
    ASSUME NEW x \in Boas, NEW D, NEW P, NEW L, Percurso(x, D, P, L),
           MaxArquivos > 0, Len(x.arquivos) >= MaxArquivos,
           NEW did \in Numeros(x), NEW n \in Names, tree[D[did]][n] \in Files
    PROVE  /\ Percurso([x EXCEPT !.truncada = TRUE], D, P, L \ {<<did, n>>})
           /\ [x EXCEPT !.truncada = TRUE].dirs = x.dirs /\ [x EXCEPT !.truncada = TRUE].pilha = x.pilha
<1> DEFINE y == [x EXCEPT !.truncada = TRUE]
           M == L \ {<<did, n>>}
<1>1. /\ y.arquivos = x.arquivos /\ y.dirs = x.dirs /\ y.vistos = x.vistos
      /\ y.ignorados = x.ignorados /\ y.truncada = TRUE /\ y.pilha = x.pilha
      /\ Len(x.arquivos) \in Nat
  BY DEF Boas, Varreduras
<1> HIDE DEF y
<1>2. /\ Numeros(y) = Numeros(x) /\ Entrados(y) = Entrados(x) /\ Registrados(y) = Registrados(x)
      /\ Inos(y) = Inos(x) /\ Ignorados(y) = Ignorados(x)
      /\ \A k : Ignorado2(y, k) = Ignorado2(x, k)
  BY <1>1 DEF Numeros, Entrados, Registrados, Arquivo, Inos, Ignorados, Ignorado2
<1>3. Len(x.arquivos) = MaxArquivos
  BY <1>1, BoundsAssumption DEF Percurso, ArquivosOK
<1>4. Mapa(y, D, P)
  BY <1>1, <1>2 DEF Percurso, Mapa
<1>5. ArquivosOK(y, D)
  BY <1>1, <1>2, <1>3 DEF Percurso, ArquivosOK
<1>6. Separados(y) /\ Livres(y, M)
  BY <1>1, <1>2 DEF Percurso, Separados, Livres
<1>7. Cumprido(y, D, P, M)
  <2>1. Feito(y, D, P, did, n)
    BY <1>1 DEF Feito, Files, Dirs
  <2>2. \A e \in Numeros(x), m \in Names : Feito(x, D, P, e, m) => Feito(y, D, P, e, m)
    BY <1>1, <1>2 DEF Feito
  <2> QED
    BY <1>2, <2>1, <2>2 DEF Percurso, Cumprido
<1> HIDE DEF M
<1>8. Percurso(y, D, P, M)
  BY <1>4, <1>5, <1>6, <1>7 DEF Percurso
<1> QED
  BY <1>1, <1>8 DEF y, M

LEMMA TipoDe ==
    ASSUME NEW d, NEW n
    PROVE  /\ Kind[tree[d][n]] = "link" => Tipo(d, n) = "l"
           /\ Kind[tree[d][n]] = "other" => Tipo(d, n) = "o"
           /\ Kind[tree[d][n]] \in {"file", "dir"} /\ Perm[d] = "r" => Tipo(d, n) = "e"
           /\ Kind[tree[d][n]] = "dir" /\ Perm[d] # "r" => Tipo(d, n) = "d"
           /\ Kind[tree[d][n]] = "file" /\ Perm[d] # "r" => Tipo(d, n) = "f"
BY DEF Tipo

\* A file the walk records: the statement of Inventariar that appends it.
ComRegistro(x, did, n, i) ==
    [x EXCEPT !.arquivos = Append(@, Arq(did, n, i)),
              !.vistos = IF NLink(i) > 1 THEN @ \cup {i} ELSE @]

Acrescido(x, y, a, vs) ==
    /\ y.dirs = x.dirs /\ y.ignorados = x.ignorados /\ y.truncada = x.truncada /\ y.pilha = x.pilha
    /\ y.vistos = vs
    /\ Len(x.arquivos) \in Nat /\ Len(y.arquivos) = Len(x.arquivos) + 1
    /\ y.arquivos[Len(x.arquivos) + 1] = a
    /\ \A k \in 1..Len(x.arquivos) : y.arquivos[k] = x.arquivos[k]

LEMMA ComRegistroCampos ==
    ASSUME NEW x \in Boas, NEW did, NEW n, NEW i
    PROVE  Acrescido(x, ComRegistro(x, did, n, i), Arq(did, n, i),
                     IF NLink(i) > 1 THEN x.vistos \cup {i} ELSE x.vistos)
<1>0. PICK y : y = ComRegistro(x, did, n, i)
  OBVIOUS
<1> DEFINE a == Arq(did, n, i)
           q == Append(x.arquivos, a)
           vs == IF NLink(i) > 1 THEN x.vistos \cup {i} ELSE x.vistos
<1>1. y = [x EXCEPT !.arquivos = q, !.vistos = vs]
  BY <1>0 DEF ComRegistro
<1>2. x \in Varreduras /\ x.arquivos \in Seq(Registro)
  BY DEF Boas, Varreduras
<1> HIDE DEF a
<1>3. /\ Len(q) = Len(x.arquivos) + 1 /\ Len(x.arquivos) \in Nat
      /\ q[Len(x.arquivos) + 1] = a /\ \A k \in 1..Len(x.arquivos) : q[k] = x.arquivos[k]
  BY <1>2
<1> HIDE DEF q, vs
<1>4. /\ y.arquivos = q /\ y.vistos = vs /\ y.dirs = x.dirs /\ y.ignorados = x.ignorados
      /\ y.truncada = x.truncada /\ y.pilha = x.pilha
  BY <1>1, <1>2 DEF Varreduras
<1> QED
  BY <1>0, <1>3, <1>4 DEF Acrescido, a, vs

LEMMA PercursoArquivar ==
    ASSUME TypeOK, NEW x \in Boas, NEW D, NEW P, NEW L, Percurso(x, D, P, L),
           ~(MaxArquivos > 0 /\ Len(x.arquivos) >= MaxArquivos),
           NEW did \in Numeros(x), NEW n \in Names, NEW i \in Files, <<did, n>> \in L,
           tree[D[did]][n] = i, Perm[D[did]] = "rx", ~(NLink(i) > 1 /\ i \in x.vistos)
    PROVE  Percurso(ComRegistro(x, did, n, i), D, P, L \ {<<did, n>>})
<1> DEFINE M == L \ {<<did, n>>}
           N == Len(x.arquivos)
<1>0. PICK y : y = ComRegistro(x, did, n, i)
  OBVIOUS
<1>a. Acrescido(x, y, Arq(did, n, i), IF NLink(i) > 1 THEN x.vistos \cup {i} ELSE x.vistos)
  BY <1>0, ComRegistroCampos
<1>1. /\ y.dirs = x.dirs /\ y.ignorados = x.ignorados /\ y.truncada = x.truncada
      /\ y.vistos = (IF NLink(i) > 1 THEN x.vistos \cup {i} ELSE x.vistos)
      /\ N \in Nat /\ Len(y.arquivos) = N + 1
      /\ y.arquivos[N + 1].dir = did /\ y.arquivos[N + 1].nome = n /\ y.arquivos[N + 1].ino = i
      /\ \A k \in 1..N : y.arquivos[k] = x.arquivos[k]
  BY <1>a DEF Acrescido, Arq
<1>2. \A k : k \in 1..(N + 1) <=> k \in 1..N \/ k = N + 1
  BY <1>1
<1>3. /\ Numeros(y) = Numeros(x) /\ Entrados(y) = Entrados(x) /\ Ignorados(y) = Ignorados(x)
      /\ \A k : Ignorado2(y, k) = Ignorado2(x, k)
  BY <1>1 DEF Numeros, Entrados, Ignorados, Ignorado2
<1>4. Registrados(y) = Registrados(x) \cup {<<did, n>>} /\ Inos(y) = Inos(x) \cup {i}
  <2>1. /\ Arquivo(y, N + 1) = <<did, n>> /\ \A k \in 1..N : Arquivo(y, k) = Arquivo(x, k)
        /\ y.arquivos[N + 1].ino = i /\ \A k \in 1..N : y.arquivos[k].ino = x.arquivos[k].ino
    BY <1>1 DEF Arquivo
  <2>2. Len(y.arquivos) = N + 1 /\ N + 1 \in 1..(N + 1) /\ 1..N \subseteq 1..(N + 1)
    BY <1>1
  <2>3. Registrados(y) = Registrados(x) \cup {<<did, n>>}
    BY <1>2, <2>1, <2>2, ZenonT(40) DEF Registrados
  <2>4. Inos(y) = Inos(x) \cup {i}
    BY <1>2, <2>1, <2>2, ZenonT(40) DEF Inos
  <2> QED
    BY <2>3, <2>4
<1>5. Mapa(y, D, P)
  BY <1>1, <1>3 DEF Percurso, Mapa
<1>6. <<did, n>> \notin Registrados(x) /\ <<did, n>> \notin Ignorados(x)
  BY DEF Percurso, Livres
<1>7. i \notin Inos(x)
  <2> SUFFICES ASSUME NEW k \in 1..N, x.arquivos[k].ino = i PROVE FALSE
    BY DEF Inos
  <2>1. ~(NLink(i) > 1)
    BY DEF Percurso, ArquivosOK
  <2> DEFINE e == x.arquivos[k].dir
             m == x.arquivos[k].nome
  <2>2. e \in Numeros(x) /\ tree[D[e]][m] = i /\ <<e, m>> \in Registrados(x)
    BY DEF Percurso, ArquivosOK, Registrados, Arquivo
  <2>3. m \in Names /\ i \in Nodes
    <3>1. x.arquivos[k] \in Registro
      BY DEF Boas, Varreduras
    <3> QED
      BY <3>1 DEF Registro, Files
  <2> HIDE DEF e, m
  <2>4. D[e] \in Dirs /\ D[did] \in Dirs
    BY <2>2 DEF Percurso, Mapa
  <2>5. D[e] = D[did] /\ m = n
    BY <2>1, <2>2, <2>3, <2>4, UmNome
  <2>6. e = did
    BY <2>2, <2>5 DEF Percurso, Mapa
  <2> QED
    BY <1>6, <2>2, <2>5, <2>6
<1>8. ArquivosOK(y, D)
  <2>1. \A k \in 1..Len(y.arquivos) :
          /\ y.arquivos[k].dir \in Numeros(y) /\ Perm[D[y.arquivos[k].dir]] = "rx"
          /\ tree[D[y.arquivos[k].dir]][y.arquivos[k].nome] = y.arquivos[k].ino
          /\ NLink(y.arquivos[k].ino) > 1 => y.arquivos[k].ino \in y.vistos
    <3> SUFFICES ASSUME NEW k \in 1..(N + 1)
                 PROVE  /\ y.arquivos[k].dir \in Numeros(x) /\ Perm[D[y.arquivos[k].dir]] = "rx"
                        /\ tree[D[y.arquivos[k].dir]][y.arquivos[k].nome] = y.arquivos[k].ino
                        /\ NLink(y.arquivos[k].ino) > 1 => y.arquivos[k].ino \in y.vistos
      BY <1>1, <1>3
    <3>1. CASE k = N + 1
      BY <1>1, <3>1
    <3>2. CASE k \in 1..N
      <4>1. y.arquivos[k] = x.arquivos[k] /\ x.vistos \subseteq y.vistos
        BY <1>1, <3>2
      <4> QED
        BY <3>2, <4>1 DEF Percurso, ArquivosOK
    <3> QED
      BY <1>2, <3>1, <3>2
  <2>2. \A j, k \in 1..Len(y.arquivos) : y.arquivos[j].ino = y.arquivos[k].ino => j = k
    <3>1. \A k \in 1..N : x.arquivos[k].ino # i
      BY <1>7 DEF Inos
    <3>2. \A j, k \in 1..N : x.arquivos[j].ino = x.arquivos[k].ino => j = k
      BY DEF Percurso, ArquivosOK
    <3>3. \A k \in 1..N : y.arquivos[k].ino = x.arquivos[k].ino
      BY <1>1
    <3>4. ASSUME NEW j \in 1..(N + 1), NEW k \in 1..(N + 1), y.arquivos[j].ino = y.arquivos[k].ino
          PROVE  j = k
      <4>1. CASE j \in 1..N /\ k \in 1..N
        BY <3>2, <3>3, <3>4, <4>1
      <4>2. CASE j = N + 1 \/ k = N + 1
        <5>1. CASE j = N + 1 /\ k \in 1..N
          BY <1>1, <3>1, <3>3, <3>4, <5>1
        <5>2. CASE k = N + 1 /\ j \in 1..N
          BY <1>1, <3>1, <3>3, <3>4, <5>2
        <5> QED
          BY <1>2, <4>2, <5>1, <5>2
      <4> QED
        BY <1>2, <4>1, <4>2
    <3> QED
      BY <1>1, <3>4
  <2>3. y.vistos \subseteq Inos(y)
    BY <1>1, <1>4 DEF Percurso, ArquivosOK
  <2>4. MaxArquivos > 0 => Len(y.arquivos) <= MaxArquivos
    BY <1>1, BoundsAssumption
  <2>5. ~ x.truncada
    BY <1>1, BoundsAssumption DEF Percurso, ArquivosOK
  <2> QED
    BY <1>1, <2>1, <2>2, <2>3, <2>4, <2>5 DEF ArquivosOK
<1>9. Separados(y) /\ Livres(y, M)
  <2>1. Separados(y)
    BY <1>1, <1>3, <1>4, <1>6 DEF Percurso, Separados
  <2>2. Livres(y, M)
    BY <1>3, <1>4 DEF Percurso, Livres
  <2> QED
    BY <2>1, <2>2
<1>10. Cumprido(y, D, P, M)
  <2>1. Feito(y, D, P, did, n)
    BY <1>4 DEF Feito, Files, Dirs
  <2>2. \A e \in Numeros(x), m \in Names : Feito(x, D, P, e, m) => Feito(y, D, P, e, m)
    BY <1>1, <1>3, <1>4 DEF Feito
  <2> QED
    BY <1>3, <2>1, <2>2 DEF Percurso, Cumprido
<1> HIDE DEF M
<1>11. Percurso(y, D, P, M)
  BY <1>5, <1>8, <1>9, <1>10 DEF Percurso
<1> QED
  BY <1>0, <1>11 DEF M

\* The rest of a walk that has looked at entry n of directory number did.
Restantes(L, d, did, prof, n) == IF Entravel(d, prof, n) THEN L ELSE L \ {<<did, n>>}

LEMMA EntradaPercurso ==
    ASSUME TypeOK, NEW x \in Boas, NEW D, NEW P, NEW L, Percurso(x, D, P, L),
           NEW did \in Numeros(x), NEW d, NEW prof, d = D[did], prof = P[did],
           Perm[d] \notin {"io", "none"}, NEW n \in Presentes(d), <<did, n>> \in L,
           NEW y, y = Entrada(x, d, did, prof, n)
    PROVE  y.dirs = x.dirs /\ y.pilha = x.pilha /\ Percurso(y, D, P, Restantes(L, d, did, prof, n))
<1> DEFINE i == tree[d][n]
           M == L \ {<<did, n>>}
<1>0. d \in Dirs /\ n \in Names /\ i \in Nodes /\ did \in Nat /\ n \in Nat /\ Perm[d] \in {"rx", "r"}
  <2>1. d \in Dirs /\ n \in Names /\ i # None /\ did \in Nat /\ n \in Nat
    BY DEF Percurso, Mapa, Presentes, Numeros, Names
  <2>2. d \in Nodes
    BY <2>1 DEF Dirs
  <2> QED
    BY <2>1, <2>2, RootAssumption DEF TypeOK
<1>1. Kind[i] \in {"dir", "file", "link", "other"}
  BY <1>0, TreesAssumption
<1>2. <<did, n>> \notin Registrados(x) \cup Ignorados(x)
  BY DEF Percurso, Livres
<1>3. ASSUME NEW motivo \in Motivos, y = Ignorar(x, motivo, did, n), ~ Entravel(d, prof, n),
             Perm[d] = "rx" => Feito(x, D, P, did, n)
      PROVE  y.dirs = x.dirs /\ y.pilha = x.pilha /\ Percurso(y, D, P, Restantes(L, d, did, prof, n))
  <2>1. y.dirs = x.dirs /\ y.pilha = x.pilha
    BY <1>0, <1>3, IgnorarCampos
  <2>2. Percurso(Ignorar(x, motivo, did, n), D, P, L \ {<<did, n>>})
    BY <1>0, <1>2, <1>3, PercursoIgnorar
  <2> QED
    BY <1>3, <2>1, <2>2 DEF Restantes
<1>4. CASE Kind[i] \in {"link", "other"}
  <2>1. i \notin Files /\ i \notin Dirs
    BY <1>4 DEF Files, Dirs
  <2>2. Feito(x, D, P, did, n)
    BY <2>1 DEF Feito
  <2>3. Tipo(d, n) \in {"l", "o"}
    BY <1>4, TipoDe
  <2>4. ~ Entravel(d, prof, n)
    BY <2>3 DEF Entravel
  <2>5. PICK motivo \in Motivos : y = Ignorar(x, motivo, did, n)
    BY <2>3 DEF Entrada, Motivos
  <2> QED
    BY <1>3, <2>2, <2>4, <2>5
<1>5. CASE Kind[i] \in {"file", "dir"} /\ Perm[d] = "r"
  <2>1. Tipo(d, n) = "e"
    BY <1>5, TipoDe
  <2>2. ~ Entravel(d, prof, n)
    BY <2>1 DEF Entravel
  <2>3. y = Ignorar(x, "erro_stat", did, n) /\ "erro_stat" \in Motivos
    BY <2>1 DEF Entrada, Motivos
  <2> QED
    BY <1>3, <1>5, <2>2, <2>3
<1>6. CASE Kind[i] = "dir" /\ Perm[d] = "rx"
  <2>1. Tipo(d, n) = "d"
    BY <1>6, TipoDe
  <2>2. y = IF Descida(d, prof, n) = "entra" THEN x ELSE Ignorar(x, Descida(d, prof, n), did, n)
    BY <2>1 DEF Entrada
  <2>3. CASE Descida(d, prof, n) = "entra"
    <3>1. Entravel(d, prof, n)
      BY <2>1, <2>3 DEF Entravel, Presentes
    <3> QED
      BY <2>2, <2>3, <3>1 DEF Restantes
  <2>4. CASE Descida(d, prof, n) # "entra"
    <3>1. ~ Entravel(d, prof, n) /\ Descida(d, prof, n) \in Motivos
      BY <2>4 DEF Entravel, Descida, Motivos
    <3>2. ~(prof < ProfMax) \/ Dev[i] # Dev[Root]
      <4>1. prof \in Nat /\ ProfMax \in Nat
        BY BoundsAssumption DEF Percurso, Mapa
      <4>2. prof + 1 > ProfMax \/ Dev[i] # Dev[Root]
        BY <2>4 DEF Descida
      <4> QED
        BY <4>1, <4>2
    <3>3. Feito(x, D, P, did, n)
      BY <1>6, <3>2 DEF Feito, Files
    <3> QED
      BY <1>3, <2>2, <2>4, <3>1, <3>3
  <2> QED
    BY <2>3, <2>4
<1>7. CASE Kind[i] = "file" /\ Perm[d] = "rx"
  <2>1. Tipo(d, n) = "f" /\ i \in Files
    BY <1>0, <1>7, TipoDe DEF Files
  <2>2. y = Inventariar(x, did, n, i) /\ ~ Entravel(d, prof, n)
    BY <2>1 DEF Entrada, Entravel
  <2>3. CASE MaxArquivos > 0 /\ Len(x.arquivos) >= MaxArquivos
    <3>1. y = [x EXCEPT !.truncada = TRUE]
      BY <2>2, <2>3 DEF Inventariar
    <3> QED
      BY <1>0, <2>1, <2>2, <2>3, <3>1, PercursoTruncar DEF Restantes
  <2>4. CASE ~(MaxArquivos > 0 /\ Len(x.arquivos) >= MaxArquivos) /\ NLink(i) > 1 /\ i \in x.vistos
    <3>1. y = Ignorar(x, "hardlink_repetido", did, n) /\ "hardlink_repetido" \in Motivos
      BY <2>2, <2>4 DEF Inventariar, Motivos
    <3>2. i \in Inos(x)
      BY <2>4 DEF Percurso, ArquivosOK
    <3>3. Feito(x, D, P, did, n)
      BY <1>7, <3>2 DEF Feito, Dirs
    <3> QED
      BY <1>3, <2>2, <3>1, <3>3
  <2>5. CASE ~(MaxArquivos > 0 /\ Len(x.arquivos) >= MaxArquivos) /\ ~(NLink(i) > 1 /\ i \in x.vistos)
    <3>1. y = ComRegistro(x, did, n, i)
      BY <2>2, <2>5 DEF Inventariar, ComRegistro
    <3>2. Percurso(ComRegistro(x, did, n, i), D, P, L \ {<<did, n>>})
      BY <1>0, <1>7, <2>1, <2>5, PercursoArquivar
    <3>a. Acrescido(x, ComRegistro(x, did, n, i), Arq(did, n, i),
                    IF NLink(i) > 1 THEN x.vistos \cup {i} ELSE x.vistos)
      BY ComRegistroCampos
    <3>3. y.dirs = x.dirs /\ y.pilha = x.pilha
      BY <3>1, <3>a DEF Acrescido
    <3> QED
      BY <2>2, <3>1, <3>2, <3>3 DEF Restantes
  <2> QED
    BY <2>3, <2>4, <2>5
<1> QED
  BY <1>0, <1>1, <1>4, <1>5, <1>6, <1>7

LEMMA EntradasPercurso ==
    ASSUME TypeOK, DatasOK, NEW x \in Boas, NEW D, NEW P, NEW L, Percurso(x, D, P, L),
           NEW did \in Numeros(x), NEW d, NEW prof, d = D[did], prof = P[did],
           Perm[d] \notin {"io", "none"}, \A n \in Presentes(d) : <<did, n>> \in L,
           NEW y, y = Entradas(x, d, did, prof)
    PROVE  /\ y \in Boas /\ y.dirs = x.dirs /\ y.pilha = x.pilha
           /\ Percurso(y, D, P,
                       L \ {<<did, n>> : n \in {m \in Presentes(d) : ~ Entravel(d, prof, m)}})
<1>0. did \in Nat /\ d \in Dirs /\ prof \in Nat
  BY DEF Percurso, Mapa, Numeros
<1>1. \A z \in Boas, e \in Presentes(d) : Entrada(z, d, did, prof, e) \in Boas
  BY <1>0, EntradaBoa DEF Presentes
<1>a. PICK r \in [0..Len(listar_dir(d)) -> Boas] :
          /\ r[0] = x /\ Entradas(x, d, did, prof) = r[Len(listar_dir(d))]
          /\ \A m \in 0..(Len(listar_dir(d)) - 1) : EntradaPasso(r, d, did, prof, m)
  <2> HIDE DEF Boas
  <2> QED
    BY <1>1, EntradasPassos
<1> DEFINE s == listar_dir(d)
           n == Len(s)
           Fora(m) == {<<did, s[k]>> : k \in {j \in 1..m : ~ Entravel(d, prof, s[j])}}
<1>2. /\ r \in [0..n -> Boas] /\ r[0] = x /\ Entradas(x, d, did, prof) = r[n]
      /\ \A m \in 0..(n - 1) : EntradaPasso(r, d, did, prof, m)
  BY <1>a
<1>3. s \in Seq(Names) /\ SemRepetir(s) /\ Elementos(s) = Presentes(d) /\ n \in Nat
  <2>1. s \in Seq(Names) /\ SemRepetir(s) /\ Elementos(s) = Presentes(d)
    BY ListaExata
  <2> HIDE DEF s
  <2> QED
    BY <2>1
<1> HIDE DEF s
<1>4. \A k \in 1..n : s[k] \in Presentes(d)
  BY <1>3 DEF Elementos
<1> DEFINE S == {m \in 0..n : /\ r[m].dirs = x.dirs /\ r[m].pilha = x.pilha
                              /\ Percurso(r[m], D, P, L \ Fora(m))}
<1> HIDE DEF n
<1>5. 0 \in S
  <2>1. 0 \in 0..n /\ 1..0 = {}
    BY <1>3
  <2>2. Fora(0) = {}
    BY <2>1
  <2>3. L \ Fora(0) = L
    BY <2>2
  <2> HIDE DEF Fora
  <2> QED
    BY <1>2, <2>1, <2>3
<1>6. ASSUME NEW m \in 0..(n - 1), m \in S PROVE m + 1 \in S
  <2>1. /\ m + 1 \in 1..n /\ m + 1 \in 0..n /\ m \in 0..n /\ m \in Nat
        /\ \A k : k \in 1..(m + 1) <=> k \in 1..m \/ k = m + 1
    BY <1>3
  <2> DEFINE e == s[m + 1]
             M == L \ Fora(m)
  <2>2. e \in Presentes(d)
    BY <1>4, <2>1
  <2>3. /\ r[m].dirs = x.dirs /\ r[m].pilha = x.pilha /\ r[m] \in Boas /\ r[m + 1] \in Boas
        /\ Percurso(r[m], D, P, M)
    BY <1>2, <1>6, <2>1
  <2>4. r[m + 1] = Entrada(r[m], d, did, prof, e)
    BY <1>2 DEF EntradaPasso, s
  <2>5. <<did, e>> \in M
    <3>1. \A k \in 1..m : k \in 1..n /\ k # m + 1
      BY <1>3, <2>1
    <3>2. \A k \in 1..m : s[k] # e
      BY <1>3, <2>1, <3>1 DEF SemRepetir, n
    <3>3. <<did, e>> \notin Fora(m)
      BY <3>2
    <3> QED
      BY <2>2, <3>3
  <2>6. Restantes(M, d, did, prof, e) = L \ Fora(m + 1)
    <3>1. Fora(m + 1) = Fora(m) \cup (IF Entravel(d, prof, e) THEN {} ELSE {<<did, e>>})
      BY <2>1
    <3> HIDE DEF Fora, e
    <3> QED
      BY <3>1 DEF Restantes
  <2> HIDE DEF M, e, Fora
  <2>7. did \in Numeros(r[m])
    BY <2>3 DEF Numeros
  <2>8. /\ r[m + 1].dirs = r[m].dirs /\ r[m + 1].pilha = r[m].pilha
        /\ Percurso(r[m + 1], D, P, Restantes(M, d, did, prof, e))
    BY <2>2, <2>3, <2>4, <2>5, <2>7, EntradaPercurso
  <2> QED
    BY <2>1, <2>3, <2>6, <2>8
<1>7. 0..n \subseteq S
  <2> HIDE DEF S
  <2> QED
    BY <1>3, <1>5, <1>6, PrefixInduction
<1>8. n \in 0..n
  BY <1>3
<1>9. Fora(n) = {<<did, e>> : e \in {m \in Presentes(d) : ~ Entravel(d, prof, m)}}
  <2> DEFINE T == {<<did, e>> : e \in {m \in Presentes(d) : ~ Entravel(d, prof, m)}}
  <2>1. \A z : z \in Fora(n) <=> \E k \in 1..n : ~ Entravel(d, prof, s[k]) /\ z = <<did, s[k]>>
    OBVIOUS
  <2>2. \A z : z \in T <=> \E e \in Presentes(d) : ~ Entravel(d, prof, e) /\ z = <<did, e>>
    OBVIOUS
  <2>3. \A e \in Presentes(d) : \E k \in 1..n : e = s[k]
    BY <1>3 DEF Elementos, n
  <2> HIDE DEF Fora, T, n
  <2>4. \A z : z \in Fora(n) <=> z \in T
    BY <1>4, <2>1, <2>2, <2>3
  <2>5. Fora(n) = T
    BY <2>4
  <2> QED
    BY <2>5 DEF T
<1> HIDE DEF Fora
<1>10. /\ r[n] \in Boas /\ r[n].dirs = x.dirs /\ r[n].pilha = x.pilha
       /\ Percurso(r[n], D, P, L \ Fora(n))
  BY <1>2, <1>7, <1>8
<1> QED
  BY <1>2, <1>9, <1>10

----------------------------------------------------------------------------
(***************************************************************************)
(* The steps of the walk.                                                  *)
(***************************************************************************)
LEMMA PercursoIgual ==
    ASSUME NEW x, NEW y, MesmoAchado(x, y), NEW D, NEW P, NEW L, Percurso(x, D, P, L)
    PROVE  Percurso(y, D, P, L)
<1>1. /\ Numeros(y) = Numeros(x) /\ Entrados(y) = Entrados(x) /\ Ignorados(y) = Ignorados(x)
      /\ \A k : Ignorado2(y, k) = Ignorado2(x, k)
      /\ Registrados(y) = Registrados(x) /\ Inos(y) = Inos(x)
  <2>1. Registrados(y) = Registrados(x) /\ Inos(y) = Inos(x)
    BY DEF MesmoAchado, Registrados, Arquivo, Inos
  <2> QED
    BY <2>1 DEF MesmoAchado, Numeros, Entrados, Ignorados, Ignorado2
<1>2. Mapa(y, D, P)
  BY <1>1 DEF MesmoAchado, Percurso, Mapa
<1>3. ArquivosOK(y, D)
  BY <1>1 DEF MesmoAchado, Percurso, ArquivosOK
<1>4. Separados(y) /\ Livres(y, L)
  BY <1>1 DEF MesmoAchado, Percurso, Separados, Livres
<1>5. Cumprido(y, D, P, L)
  BY <1>1 DEF MesmoAchado, Percurso, Cumprido, Feito
<1> QED
  BY <1>2, <1>3, <1>4, <1>5 DEF Percurso

LEMMA MudaPilha ==
    ASSUME NEW x \in Boas, NEW p \in Seq(Moldura), NEW y, y = [x EXCEPT !.pilha = p]
    PROVE  y \in Boas /\ MesmoAchado(x, y) /\ y.pilha = p
BY PilhaMudada DEF Boas, Varreduras, MesmoAchado

LEMMA PendentesDe ==
    \A p, e : e \in Pendentes(p) <=>
        \E f \in 1..Len(p) : \E k \in 1..Len(p[f].subdirs) : e = <<p[f].did, p[f].subdirs[k]>>
BY DEF Pendentes

LEMMA PilhaComMais ==
    ASSUME NEW p \in Seq(Moldura), NEW D, NEW P, PilhaOK(p, D, P), NEW fr \in Moldura,
           fr.did \in DOMAIN D, fr.dir = D[fr.did], fr.prof = P[fr.did], Perm[fr.dir] # "io",
           \A n \in Elementos(fr.subdirs) : Entravel(fr.dir, fr.prof, n), SemRepetir(fr.subdirs),
           \A n : <<fr.did, n>> \notin Pendentes(p)
    PROVE  /\ Append(p, fr) \in Seq(Moldura) /\ PilhaOK(Append(p, fr), D, P)
           /\ Pendentes(Append(p, fr)) = Pendentes(p) \cup ({fr.did} \X Elementos(fr.subdirs))
<1> DEFINE q == Append(p, fr)
           N == Len(p)
<1>1. /\ q \in Seq(Moldura) /\ Len(q) = N + 1 /\ N \in Nat /\ q[N + 1] = fr
      /\ \A k \in 1..N : q[k] = p[k]
  OBVIOUS
<1>2. \A k : k \in 1..(N + 1) <=> k \in 1..N \/ k = N + 1
  BY <1>1
<1> HIDE DEF q
<1>3. PilhaOK(q, D, P)
  <2>1. ASSUME NEW f \in 1..Len(q)
        PROVE  /\ q[f].did \in DOMAIN D /\ q[f].dir = D[q[f].did] /\ q[f].prof = P[q[f].did]
               /\ Perm[q[f].dir] # "io"
               /\ \A k \in 1..Len(q[f].subdirs) : Entravel(q[f].dir, q[f].prof, q[f].subdirs[k])
    <3>1. CASE f \in 1..N
      BY <1>1, <3>1 DEF PilhaOK
    <3>2. CASE f = N + 1
      BY <1>1, <3>2 DEF Elementos
    <3> QED
      BY <1>1, <1>2, <3>1, <3>2
  <2>2. ASSUME NEW f \in 1..Len(q), NEW g \in 1..Len(q),
               NEW j \in 1..Len(q[f].subdirs), NEW k \in 1..Len(q[g].subdirs),
               q[f].did = q[g].did, q[f].subdirs[j] = q[g].subdirs[k]
        PROVE  f = g /\ j = k
    <3>0. \A h \in 1..N : \A i \in 1..Len(p[h].subdirs) :
             <<p[h].did, p[h].subdirs[i]>> \in Pendentes(p)
      BY PendentesDe
    <3>1. CASE f \in 1..N /\ g \in 1..N
      <4>1. \A h, i \in 1..N : \A a \in 1..Len(p[h].subdirs), b \in 1..Len(p[i].subdirs) :
               p[h].did = p[i].did /\ p[h].subdirs[a] = p[i].subdirs[b] => h = i /\ a = b
        BY DEF PilhaOK
      <4>2. q[f] = p[f] /\ q[g] = p[g]
        BY <1>1, <3>1
      <4> QED
        BY <2>2, <3>1, <4>1, <4>2
    <3>2. CASE f = N + 1 /\ g = N + 1
      <4>1. q[f] = fr /\ q[g] = fr
        BY <1>1, <3>2
      <4> QED
        BY <2>2, <3>2, <4>1 DEF SemRepetir
    <3>3. CASE f \in 1..N /\ g = N + 1
      <4>1. q[f] = p[f] /\ q[g] = fr
        BY <1>1, <3>3
      <4>2. <<p[f].did, p[f].subdirs[j]>> \in Pendentes(p)
        BY <2>2, <3>0, <3>3, <4>1
      <4> QED
        BY <2>2, <4>1, <4>2
    <3>4. CASE f = N + 1 /\ g \in 1..N
      <4>1. q[g] = p[g] /\ q[f] = fr
        BY <1>1, <3>4
      <4>2. <<p[g].did, p[g].subdirs[k]>> \in Pendentes(p)
        BY <2>2, <3>0, <3>4, <4>1
      <4> QED
        BY <2>2, <4>1, <4>2
    <3>5. (f \in 1..N \/ f = N + 1) /\ (g \in 1..N \/ g = N + 1)
      BY <1>1, <1>2
    <3> QED
      BY <3>1, <3>2, <3>3, <3>4, <3>5
  <2> QED
    BY <2>1, <2>2, SMTT(30) DEF PilhaOK
<1>4. Pendentes(q) = Pendentes(p) \cup ({fr.did} \X Elementos(fr.subdirs))
  <2> DEFINE Nova == {fr.did} \X Elementos(fr.subdirs)
  <2>1. \A e : e \in Nova <=> \E k \in 1..Len(fr.subdirs) : e = <<fr.did, fr.subdirs[k]>>
    BY DEF Elementos
  <2> HIDE DEF Nova
  <2>2. ASSUME NEW e, e \in Pendentes(q) PROVE e \in Pendentes(p) \cup Nova
    <3>1. PICK f \in 1..(N + 1) : \E k \in 1..Len(q[f].subdirs) : e = <<q[f].did, q[f].subdirs[k]>>
      BY <1>1, <2>2, PendentesDe
    <3>2. CASE f \in 1..N
      BY <1>1, <3>1, <3>2, PendentesDe
    <3>3. CASE f = N + 1
      BY <1>1, <2>1, <3>1, <3>3
    <3> QED
      BY <1>2, <3>1, <3>2, <3>3
  <2>3. ASSUME NEW e, e \in Pendentes(p) PROVE e \in Pendentes(q)
    <3>1. PICK f \in 1..N : \E k \in 1..Len(p[f].subdirs) : e = <<p[f].did, p[f].subdirs[k]>>
      BY <2>3, PendentesDe
    <3>2. f \in 1..Len(q) /\ q[f] = p[f]
      BY <1>1, <1>2
    <3> QED
      BY <3>1, <3>2, PendentesDe
  <2>4. ASSUME NEW e, e \in Nova PROVE e \in Pendentes(q)
    <3>1. N + 1 \in 1..Len(q)
      BY <1>1
    <3> QED
      BY <1>1, <2>1, <2>4, <3>1, PendentesDe
  <2>5. Pendentes(q) = Pendentes(p) \cup Nova
    BY <2>2, <2>3, <2>4
  <2> QED
    BY <2>5 DEF Nova
<1> QED
  BY <1>1, <1>3, <1>4 DEF q

\* A directory the walk lists, or cannot list.
LEMMA EntrarPercurso ==
    ASSUME TypeOK, DatasOK, NEW x \in Boas, NEW D, NEW P, NEW did \in Numeros(x),
           Percurso(x, D, P, Pendentes(x.pilha) \cup ({did} \X Presentes(D[did]))),
           \A n : <<did, n>> \notin Pendentes(x.pilha),
           x.dirs[did] \notin Registrados(x) \cup Ignorados(x) \cup Pendentes(x.pilha),
           did = 1 => x.dirs[did] = <<0, 0>>, PilhaOK(x.pilha, D, P), Perm[D[did]] # "none",
           NEW y, y = entrar(x, did, D[did], P[did])
    PROVE  /\ y \in Boas /\ y.dirs = x.dirs /\ PilhaOK(y.pilha, D, P)
           /\ Percurso(y, D, P, Pendentes(y.pilha))
<1> DEFINE d == D[did]
           prof == P[did]
           L == Pendentes(x.pilha)
           M == L \cup ({did} \X Presentes(d))
<1>0. /\ did \in Nat /\ d \in Dirs /\ prof \in Nat /\ did \in 1..Len(x.dirs) /\ did \in DOMAIN D
      /\ x.pilha \in Seq(Moldura) /\ x.dirs \in Seq(Nat \X Nat) /\ x.dirs[did] \in Nat \X Nat
  <2>1. D \in [Numeros(x) -> Dirs] /\ P \in [Numeros(x) -> 0..ProfMax]
    BY DEF Percurso, Mapa
  <2>2. x.pilha \in Seq(Moldura) /\ x.dirs \in Seq(Nat \X Nat)
    BY DEF Boas, Varreduras
  <2>3. did \in 1..Len(x.dirs) /\ did \in Nat
    BY DEF Numeros
  <2>4. x.dirs[did] \in Nat \X Nat
    BY <2>2, <2>3
  <2> QED
    BY <2>1, <2>2, <2>3, <2>4
<1>1. y \in Boas
  BY <1>0, EntrarBoa
<1>2. CASE Perm[d] = "io"
  <2> DEFINE a == x.dirs[did][1]
             b == x.dirs[did][2]
  <2>0. a \in Nat /\ b \in Nat /\ x.dirs[did] = <<a, b>>
    <3>1. x.dirs[did] \in Nat \X Nat
      BY <1>0, ElementOfSeq
    <3> QED
      BY <3>1
  <2>1. y = Ignorar(x, "erro_io", a, b) /\ "erro_io" \in Motivos
    BY <1>2 DEF entrar, Motivos
  <2>2. Percurso(x, D, P, L)
    <3>1. Livres(x, L)
      BY DEF Percurso, Livres
    <3>2. Cumprido(x, D, P, L)
      BY <1>2 DEF Percurso, Cumprido
    <3> QED
      BY <3>1, <3>2 DEF Percurso
  <2>3. did = 1 \/ did \in 2..Len(x.dirs)
    BY <1>0
  <2>4. a \in {0} \cup Numeros(x)
    <3>1. CASE did = 1
      BY <3>1
    <3>2. CASE did \in 2..Len(x.dirs)
      <4>1. a \in 1..(did - 1)
        BY <3>2 DEF Percurso, Mapa
      <4>2. x.dirs \in Seq(Nat \X Nat) /\ Len(x.dirs) \in Nat
        BY <1>0
      <4>3. PICK m \in Nat : m = Len(x.dirs)
        BY <4>2
      <4>4. did \in 2..m /\ Numeros(x) = 1..m
        BY <3>2, <4>3 DEF Numeros
      <4> HIDE DEF a
      <4> QED
        BY <4>1, <4>4
    <3> QED
      BY <2>3, <3>1, <3>2
  <2>5. a \in Numeros(x) /\ b \in Names => Feito(x, D, P, a, b)
    <3> SUFFICES ASSUME a \in Numeros(x), b \in Names PROVE Feito(x, D, P, a, b)
      OBVIOUS
    <3>1. did \in 2..Len(x.dirs)
      BY <2>3 DEF Numeros
    <3>2. <<a, b>> \in Entrados(x)
      BY <2>0, <3>1 DEF Entrados
    <3>3. D[did] = tree[D[a]][b]
      BY <3>1 DEF Percurso, Mapa, Desce
    <3>4. tree[D[a]][b] \notin Files
      BY <1>0, <3>3 DEF Files, Dirs
    <3> QED
      BY <3>2, <3>4 DEF Feito
  <2> HIDE DEF a, b, L
  <2>6. <<a, b>> \notin Registrados(x) \cup Ignorados(x) /\ <<a, b>> \notin L
    BY <2>0 DEF L
  <2>7. Percurso(y, D, P, L \ {<<a, b>>})
    BY <2>0, <2>1, <2>2, <2>4, <2>5, <2>6, PercursoIgnorar
  <2>8. L \ {<<a, b>>} = L /\ y.dirs = x.dirs /\ y.pilha = x.pilha
    BY <2>0, <2>1, <2>6, IgnorarCampos
  <2> QED
    BY <1>1, <2>7, <2>8 DEF L
<1>3. CASE Perm[d] # "io"
  <2> DEFINE z == Entradas(x, d, did, prof)
             fr == [did |-> did, dir |-> d, prof |-> prof, subdirs |-> Subdirs(d, prof)]
             Nao == {<<did, n>> : n \in {m \in Presentes(d) : ~ Entravel(d, prof, m)}}
  <2>1. y = [z EXCEPT !.pilha = Append(@, fr)]
    BY <1>3 DEF entrar
  <2>2. z \in Boas /\ z.dirs = x.dirs /\ z.pilha = x.pilha /\ Percurso(z, D, P, M \ Nao)
    <3>1. \A n \in Presentes(d) : <<did, n>> \in M
      OBVIOUS
    <3> HIDE DEF M, z, d, prof
    <3>2. Percurso(x, D, P, M) /\ Perm[d] \notin {"io", "none"} /\ d = D[did] /\ prof = P[did]
      BY <1>3 DEF M, d, prof, L
    <3> QED
      BY <3>1, <3>2, EntradasPercurso, SMTT(30) DEF z
  <2> HIDE DEF z
  <2>3. /\ Subdirs(d, prof) \in Seq(Names) /\ SemRepetir(Subdirs(d, prof))
        /\ Elementos(Subdirs(d, prof)) = {n \in Names : Entravel(d, prof, n)}
    BY SubdirsExatos
  <2>4. /\ fr \in Moldura /\ fr.did = did /\ fr.dir = d /\ fr.prof = prof
        /\ fr.subdirs = Subdirs(d, prof)
    BY <1>0, <2>3 DEF Moldura
  <2> HIDE DEF fr
  <2>5. /\ Append(x.pilha, fr) \in Seq(Moldura) /\ PilhaOK(Append(x.pilha, fr), D, P)
        /\ Pendentes(Append(x.pilha, fr)) = L \cup ({fr.did} \X Elementos(fr.subdirs))
    <3>1. /\ fr.did \in DOMAIN D /\ fr.dir = D[fr.did] /\ fr.prof = P[fr.did] /\ Perm[fr.dir] # "io"
          /\ \A n : <<fr.did, n>> \notin Pendentes(x.pilha)
      BY <1>0, <1>3, <2>4
    <3>2. /\ \A n \in Elementos(fr.subdirs) : Entravel(fr.dir, fr.prof, n)
          /\ SemRepetir(fr.subdirs)
      BY <2>3, <2>4
    <3>3. fr \in Moldura /\ x.pilha \in Seq(Moldura) /\ PilhaOK(x.pilha, D, P)
      BY <1>0, <2>4
    <3> HIDE DEF d, prof
    <3> QED
      BY <3>1, <3>2, <3>3, PilhaComMais
  <2>6. M \ Nao = L \cup ({did} \X Elementos(Subdirs(d, prof)))
    <3>1. L \cap Nao = {}
      OBVIOUS
    <3>2. \A n \in Names : Entravel(d, prof, n) => n \in Presentes(d)
      BY DEF Entravel, Presentes
    <3>3. Presentes(d) \subseteq Names
      BY DEF Presentes
    <3> HIDE DEF L, Names
    <3> QED
      BY <2>3, <3>1, <3>2, <3>3
  <2>7. y = [z EXCEPT !.pilha = Append(x.pilha, fr)]
    BY <2>1, <2>2
  <2>8. MesmoAchado(z, y) /\ y.pilha = Append(x.pilha, fr)
    <3>1. z \in Boas /\ Append(x.pilha, fr) \in Seq(Moldura)
      BY <2>2, <2>5
    <3> HIDE DEF d, prof
    <3> QED
      BY <3>1, <2>7, MudaPilha
  <2> HIDE DEF M, L, Nao, d, prof
  <2>9. Percurso(y, D, P, M \ Nao)
    BY <2>2, <2>8, PercursoIgual
  <2> QED
    BY <1>1, <2>2, <2>4, <2>5, <2>6, <2>8, <2>9 DEF MesmoAchado
<1> QED
  BY <1>2, <1>3

LEMMA PilhaCortada ==
    ASSUME NEW p \in Seq(Moldura), NEW D, NEW P, PilhaOK(p, D, P), Len(p) \in 1..Len(p),
           NEW q, Cortada(p, q), NEW fr, fr = p[Len(p)],
           fr.subdirs \in Seq(Names), fr.subdirs # <<>>, NEW n, n = Head(fr.subdirs)
    PROVE  /\ PilhaOK(q, D, P) /\ Pendentes(q) = Pendentes(p) \ {<<fr.did, n>>}
           /\ <<fr.did, n>> \in Pendentes(p) /\ Entravel(fr.dir, fr.prof, n)
           /\ fr.did \in DOMAIN D /\ fr.dir = D[fr.did] /\ fr.prof = P[fr.did] /\ Perm[fr.dir] # "io"
<1> DEFINE N == Len(p)
           Pula(f) == IF f = N THEN 1 ELSE 0
<1>0. /\ Len(fr.subdirs) \in Nat \ {0} /\ fr.subdirs[1] = n /\ Len(Tail(fr.subdirs)) = Len(fr.subdirs) - 1
      /\ \A k \in 1..(Len(fr.subdirs) - 1) : Tail(fr.subdirs)[k] = fr.subdirs[k + 1]
  <2> DEFINE t == fr.subdirs
  <2>1. t \in Seq(Names) /\ t # <<>>
    OBVIOUS
  <2> HIDE DEF t
  <2>2. /\ Len(t) \in Nat \ {0} /\ t[1] = Head(t) /\ Len(Tail(t)) = Len(t) - 1
        /\ \A k \in 1..(Len(t) - 1) : Tail(t)[k] = t[k + 1]
    BY <2>1
  <2> QED
    BY <2>2 DEF t
<1>1. ASSUME NEW f \in 1..N
      PROVE  /\ q[f].did = p[f].did /\ q[f].dir = p[f].dir /\ q[f].prof = p[f].prof
             /\ Len(p[f].subdirs) \in Nat /\ Len(q[f].subdirs) = Len(p[f].subdirs) - Pula(f)
             /\ \A k \in 1..Len(q[f].subdirs) :
                   k + Pula(f) \in 1..Len(p[f].subdirs) /\ q[f].subdirs[k] = p[f].subdirs[k + Pula(f)]
  <2>1. p[f] \in Moldura
    OBVIOUS
  <2>2. Len(p[f].subdirs) \in Nat
    BY <2>1 DEF Moldura
  <2>3. CASE f = N
    <3>1. q[f].subdirs = Tail(fr.subdirs) /\ p[f] = fr /\ Pula(f) = 1
      BY <2>3 DEF Cortada
    <3>2. Len(q[f].subdirs) = Len(fr.subdirs) - 1
      BY <1>0, <3>1
    <3>3. \A k \in 1..(Len(fr.subdirs) - 1) : k + 1 \in 1..Len(fr.subdirs)
      BY <1>0
    <3>4. q[f].did = p[f].did /\ q[f].dir = p[f].dir /\ q[f].prof = p[f].prof
      BY <2>3 DEF Cortada
    <3> HIDE DEF Pula
    <3> QED
      BY <1>0, <2>2, <3>1, <3>2, <3>3, <3>4
  <2>4. CASE f # N
    <3>1. q[f] = p[f] /\ Pula(f) = 0
      BY <2>4 DEF Cortada
    <3> HIDE DEF Pula
    <3> QED
      BY <2>2, <3>1
  <2> QED
    BY <2>3, <2>4
<1>2. /\ \A f \in 1..N : Pula(f) \in Nat
      /\ Pula(N) = 1 /\ \A f \in 1..N : f # N => Pula(f) = 0
      /\ Len(q) = N /\ N \in 1..N /\ N \in Nat
  BY DEF Cortada
<1> HIDE DEF Pula, N
<1>3. /\ \A f \in 1..N :
            /\ p[f].did \in DOMAIN D /\ p[f].dir = D[p[f].did] /\ p[f].prof = P[p[f].did]
            /\ Perm[p[f].dir] # "io"
            /\ \A k \in 1..Len(p[f].subdirs) : Entravel(p[f].dir, p[f].prof, p[f].subdirs[k])
      /\ \A f, g \in 1..N : \A j \in 1..Len(p[f].subdirs), k \in 1..Len(p[g].subdirs) :
            p[f].did = p[g].did /\ p[f].subdirs[j] = p[g].subdirs[k] => f = g /\ j = k
  BY DEF PilhaOK, N
<1>4. PilhaOK(q, D, P)
  <2>1. ASSUME NEW f \in 1..N
        PROVE  /\ q[f].did \in DOMAIN D /\ q[f].dir = D[q[f].did] /\ q[f].prof = P[q[f].did]
               /\ Perm[q[f].dir] # "io"
               /\ \A k \in 1..Len(q[f].subdirs) : Entravel(q[f].dir, q[f].prof, q[f].subdirs[k])
    BY <1>1, <1>3, SMTT(30)
  <2>2. ASSUME NEW f \in 1..N, NEW g \in 1..N,
               NEW j \in 1..Len(q[f].subdirs), NEW k \in 1..Len(q[g].subdirs),
               q[f].did = q[g].did, q[f].subdirs[j] = q[g].subdirs[k]
        PROVE  f = g /\ j = k
    <3>1. p[f].did = p[g].did /\ p[f].subdirs[j + Pula(f)] = p[g].subdirs[k + Pula(g)]
      BY <1>1, <2>2
    <3>a. j + Pula(f) \in 1..Len(p[f].subdirs) /\ k + Pula(g) \in 1..Len(p[g].subdirs)
      BY <1>1
    <3>2. f = g /\ j + Pula(f) = k + Pula(g)
      <4> DEFINE a == j + Pula(f)
                 b == k + Pula(g)
      <4> HIDE DEF a, b
      <4>1. p[f].did = p[g].did /\ p[f].subdirs[a] = p[g].subdirs[b]
            /\ a \in 1..Len(p[f].subdirs) /\ b \in 1..Len(p[g].subdirs)
        BY <3>1, <3>a DEF a, b
      <4>2. f = g /\ a = b
        BY <1>3, <4>1
      <4> QED
        BY <4>2 DEF a, b
    <3> QED
      BY <1>2, <3>2
  <2> QED
    BY <1>2, <2>1, <2>2, SMTT(30) DEF PilhaOK
<1>5. <<fr.did, n>> \in Pendentes(p) /\ Entravel(fr.dir, fr.prof, n)
  <2>1. 1 \in 1..Len(p[N].subdirs) /\ p[N].subdirs[1] = n /\ p[N] = fr
    BY <1>0 DEF N
  <2>2. N \in 1..Len(p)
    BY <1>2 DEF N
  <2> QED
    BY <1>2, <1>3, <2>1, <2>2, PendentesDe
<1>6. Pendentes(q) = Pendentes(p) \ {<<fr.did, n>>}
  <2>1. ASSUME NEW e \in Pendentes(q) PROVE e \in Pendentes(p) /\ e # <<fr.did, n>>
    <3>1. PICK f \in 1..N : \E k \in 1..Len(q[f].subdirs) : e = <<q[f].did, q[f].subdirs[k]>>
      BY <1>2, <2>1, PendentesDe
    <3>a. PICK k \in 1..Len(q[f].subdirs) : e = <<q[f].did, q[f].subdirs[k]>>
      BY <3>1
    <3>2. e = <<p[f].did, p[f].subdirs[k + Pula(f)]>> /\ k + Pula(f) \in 1..Len(p[f].subdirs)
      BY <1>1, <3>a
    <3>3. e \in Pendentes(p)
      BY <3>2, PendentesDe DEF N
    <3>4. ASSUME e = <<fr.did, n>> PROVE FALSE
      <4>a. fr = p[N] /\ n = fr.subdirs[1] /\ 1 \in 1..Len(fr.subdirs)
        BY <1>0 DEF N
      <4>b. p[f].did = fr.did /\ p[f].subdirs[k + Pula(f)] = n
        BY <3>2, <3>4
      <4>1. p[f].did = p[N].did /\ p[f].subdirs[k + Pula(f)] = p[N].subdirs[1] /\ 1 \in 1..Len(p[N].subdirs)
        BY <4>a, <4>b
      <4>2. f = N /\ k + Pula(f) = 1
        BY <1>2, <1>3, <3>2, <4>1, SMTT(30)
      <4> QED
        BY <1>2, <3>a, <4>2
    <3> QED
      BY <3>3, <3>4
  <2>2. ASSUME NEW e \in Pendentes(p), e # <<fr.did, n>> PROVE e \in Pendentes(q)
    <3>1. PICK f \in 1..N : \E k \in 1..Len(p[f].subdirs) : e = <<p[f].did, p[f].subdirs[k]>>
      BY PendentesDe DEF N
    <3>a. PICK k \in 1..Len(p[f].subdirs) : e = <<p[f].did, p[f].subdirs[k]>>
      BY <3>1
    <3>2. Pula(f) \in Nat /\ Len(p[f].subdirs) \in Nat
      BY <1>1, <1>2
    <3>3. k > Pula(f)
      <4>1. CASE f = N
        <5>1. k # 1
          BY <1>0, <2>2, <3>a, <4>1 DEF N
        <5> QED
          BY <1>2, <4>1, <5>1
      <4>2. CASE f # N
        BY <1>2, <4>2
      <4> QED
        BY <4>1, <4>2
    <3>4. k - Pula(f) \in 1..Len(q[f].subdirs) /\ (k - Pula(f)) + Pula(f) = k
      BY <1>1, <3>2, <3>3, SMTT(30)
    <3>5. e = <<q[f].did, q[f].subdirs[k - Pula(f)]>>
      BY <1>1, <3>a, <3>4
    <3> QED
      BY <1>2, <3>4, <3>5, PendentesDe
  <2> QED
    BY <1>5, <2>1, <2>2
<1> QED
  BY <1>2, <1>3, <1>4, <1>5, <1>6 DEF N

LEMMA PilhaFront ==
    ASSUME NEW p \in Seq(Moldura), p # <<>>, NEW D, NEW P, PilhaOK(p, D, P), p[Len(p)].subdirs = <<>>
    PROVE  /\ Front(p) \in Seq(Moldura) /\ PilhaOK(Front(p), D, P) /\ Pendentes(Front(p)) = Pendentes(p)
<1> DEFINE q == Front(p)
           N == Len(p)
<1>0. N \in Nat \ {0} /\ \A k \in 1..N : p[k] \in Moldura
  OBVIOUS
<1>a. q = [k \in 1..(N - 1) |-> p[k]]
  BY DEF Front
<1> HIDE DEF q, N
<1>1. q \in Seq(Moldura) /\ Len(q) = N - 1 /\ N \in Nat \ {0} /\ \A k \in 1..(N - 1) : q[k] = p[k]
  BY <1>0, <1>a
<1>2. \A k : k \in 1..N <=> k \in 1..(N - 1) \/ k = N
  BY <1>1
<1>3. PilhaOK(q, D, P)
  <2>1. \A f \in 1..Len(q) : f \in 1..Len(p) /\ q[f] = p[f]
    BY <1>1, <1>2 DEF N
  <2>2. /\ \A f \in 1..Len(q) :
             /\ q[f].did \in DOMAIN D /\ q[f].dir = D[q[f].did] /\ q[f].prof = P[q[f].did]
             /\ Perm[q[f].dir] # "io"
             /\ \A k \in 1..Len(q[f].subdirs) : Entravel(q[f].dir, q[f].prof, q[f].subdirs[k])
    BY <2>1 DEF PilhaOK
  <2>3. ASSUME NEW f \in 1..Len(q), NEW g \in 1..Len(q),
               NEW j \in 1..Len(q[f].subdirs), NEW k \in 1..Len(q[g].subdirs),
               q[f].did = q[g].did, q[f].subdirs[j] = q[g].subdirs[k]
        PROVE  f = g /\ j = k
    <3>1. q[f] = p[f] /\ q[g] = p[g] /\ f \in 1..Len(p) /\ g \in 1..Len(p)
      BY <2>1
    <3>2. /\ j \in 1..Len(p[f].subdirs) /\ k \in 1..Len(p[g].subdirs)
          /\ p[f].did = p[g].did /\ p[f].subdirs[j] = p[g].subdirs[k]
      BY <2>3, <3>1
    <3> QED
      BY <3>1, <3>2 DEF PilhaOK
  <2> QED
    BY <2>2, <2>3 DEF PilhaOK
<1>4. Len(p[N].subdirs) = 0
  BY DEF N
<1>5. ASSUME NEW e PROVE e \in Pendentes(q) <=> e \in Pendentes(p)
  <2>1. e \in Pendentes(q) => e \in Pendentes(p)
    <3> SUFFICES ASSUME e \in Pendentes(q) PROVE e \in Pendentes(p)
      OBVIOUS
    <3>1. PICK f \in 1..Len(q) : \E k \in 1..Len(q[f].subdirs) : e = <<q[f].did, q[f].subdirs[k]>>
      BY PendentesDe
    <3>2. f \in 1..Len(p) /\ q[f] = p[f]
      BY <1>1, <1>2 DEF N
    <3> QED
      BY <3>1, <3>2, PendentesDe
  <2>2. e \in Pendentes(p) => e \in Pendentes(q)
    <3> SUFFICES ASSUME e \in Pendentes(p) PROVE e \in Pendentes(q)
      OBVIOUS
    <3>1. PICK f \in 1..N : \E k \in 1..Len(p[f].subdirs) : e = <<p[f].did, p[f].subdirs[k]>>
      BY PendentesDe DEF N
    <3>2. f # N
      <4>1. 1..0 = {}
        OBVIOUS
      <4> QED
        BY <1>4, <3>1, <4>1
    <3>3. f \in 1..Len(q) /\ q[f] = p[f]
      BY <1>1, <1>2, <3>2
    <3> QED
      BY <3>1, <3>3, PendentesDe
  <2> QED
    BY <2>1, <2>2
<1> QED
  BY <1>1, <1>3, <1>5 DEF q

\* The same stack with more directories known.
LEMMA PilhaEstende ==
    ASSUME NEW p, NEW D, NEW P, PilhaOK(p, D, P), NEW E, NEW Q, DOMAIN D \subseteq DOMAIN E,
           \A k \in DOMAIN D : E[k] = D[k] /\ Q[k] = P[k]
    PROVE  PilhaOK(p, E, Q)
BY DEF PilhaOK

ComNovo(z, K, c, D) == [k \in Numeros(z) |-> IF k = K THEN c ELSE D[k]]

Adiante(L, did, n, K, c) == (L \ {<<did, n>>}) \cup ({K} \X Presentes(c))

Estendida(x, z, D, P, E, Q, K) ==
    /\ K \in Numeros(z) /\ K > 1 /\ K \notin Numeros(x)
    /\ DOMAIN D = Numeros(x) /\ DOMAIN D \subseteq DOMAIN E
    /\ \A k \in DOMAIN D : E[k] = D[k] /\ Q[k] = P[k]

\* The walk goes into one of the directories it had still to open.
LEMMA PercursoAvancar ==
    ASSUME tree \in Trees, NEW x \in Boas, NEW D, NEW P, NEW L, Percurso(x, D, P, L),
           NEW did \in Numeros(x), NEW n \in Names, <<did, n>> \in L,
           NEW c \in Dirs, Desce(D[did], n, c), P[did] + 1 \in 0..ProfMax,
           NEW z, Avancada(x, z, <<did, n>>), NEW K, K = Len(x.dirs) + 1,
           NEW E, E = ComNovo(z, K, c, D), NEW Q, Q = ComNovo(z, K, P[did] + 1, P)
    PROVE  Percurso(z, E, Q, Adiante(L, did, n, K, c)) /\ Estendida(x, z, D, P, E, Q, K)
<1> DEFINE M == (L \ {<<did, n>>}) \cup ({K} \X Presentes(c))
           par == <<did, n>>
<1>1. /\ x.dirs \in Seq(Nat \X Nat) /\ x.dirs # <<>> /\ z.dirs = Append(x.dirs, par) /\ par \in Nat \X Nat
  <2>1. x.dirs \in Seq(Nat \X Nat)
    BY DEF Boas, Varreduras
  <2>2. x.dirs # <<>>
    BY DEF Percurso, Mapa
  <2>3. z.dirs = Append(x.dirs, par)
    BY DEF Avancada
  <2>4. did \in Nat /\ n \in Nat
    BY DEF Numeros, Names
  <2> QED
    BY <2>1, <2>2, <2>3, <2>4
<1>2. /\ Len(x.dirs) \in Nat \ {0} /\ Len(z.dirs) = K /\ K \in Nat /\ K > 1
      /\ z.dirs[K] = par /\ \A k \in 1..Len(x.dirs) : z.dirs[k] = x.dirs[k] /\ x.dirs[k] \in Nat \X Nat
  <2> HIDE DEF par
  <2> DEFINE s == x.dirs
             t == z.dirs
  <2>1. s \in Seq(Nat \X Nat) /\ s # <<>> /\ t = Append(s, par) /\ par \in Nat \X Nat /\ K = Len(s) + 1
    BY <1>1
  <2> HIDE DEF s, t
  <2>2. /\ Len(s) \in Nat \ {0} /\ \A k \in 1..Len(s) : s[k] \in Nat \X Nat
        /\ Len(t) = Len(s) + 1 /\ t[Len(s) + 1] = par /\ \A k \in 1..Len(s) : t[k] = s[k]
    BY <2>1, EmptySeq, ElementOfSeq, AppendProperties
  <2> QED
    BY <2>1, <2>2 DEF s, t
<1>3. /\ \A k : k \in Numeros(z) <=> k \in Numeros(x) \/ k = K
      /\ \A k : k \in 2..Len(z.dirs) <=> k \in 2..Len(x.dirs) \/ k = K
      /\ K \notin Numeros(x) /\ 1 \in Numeros(x) /\ K # 1
      /\ \A k \in Numeros(x) : z.dirs[k] = x.dirs[k] /\ 1..(k - 1) \subseteq Numeros(x)
      /\ \A k \in 2..Len(x.dirs) : k \in Numeros(x)
      /\ \A k \in Numeros(x) : k # 1 => k \in 2..Len(x.dirs)
  BY <1>2 DEF Numeros
<1>4. /\ z.arquivos = x.arquivos /\ z.ignorados = x.ignorados /\ z.vistos = x.vistos
      /\ z.truncada = x.truncada
      /\ Registrados(z) = Registrados(x) /\ Ignorados(z) = Ignorados(x) /\ Inos(z) = Inos(x)
      /\ \A k : Ignorado2(z, k) = Ignorado2(x, k)
  BY DEF Avancada, Registrados, Arquivo, Ignorados, Ignorado2, Inos
<1>5. Entrados(z) = Entrados(x) \cup {par}
  <2>0. \A k \in 2..Len(x.dirs) : z.dirs[k] = x.dirs[k] /\ k \in 2..Len(z.dirs)
    BY <1>3
  <2>a. K \in 2..Len(z.dirs) /\ z.dirs[K] = par
    BY <1>2, <1>3
  <2> HIDE DEF par
  <2>1. ASSUME NEW e \in Entrados(z) PROVE e \in Entrados(x) \cup {par}
    <3>1. PICK k \in 2..Len(z.dirs) : e = z.dirs[k]
      BY DEF Entrados
    <3>2. k \in 2..Len(x.dirs) \/ k = K
      BY <1>3
    <3> QED
      BY <2>0, <2>a, <3>1, <3>2 DEF Entrados
  <2>2. ASSUME NEW e \in Entrados(x) \cup {par} PROVE e \in Entrados(z)
    BY <2>0, <2>a, <2>2 DEF Entrados
  <2> QED
    BY <2>1, <2>2
<1>6. /\ D \in [Numeros(x) -> Dirs] /\ P \in [Numeros(x) -> 0..ProfMax]
      /\ D[1] = Root /\ P[1] = 0
      /\ \A k \in 2..Len(x.dirs) :
            /\ x.dirs[k][1] \in 1..(k - 1) /\ x.dirs[k][2] \in Names
            /\ Desce(D[x.dirs[k][1]], x.dirs[k][2], D[k])
            /\ P[k] = P[x.dirs[k][1]] + 1
      /\ \A j, k \in Numeros(x) : D[j] = D[k] => j = k
  BY DEF Percurso, Mapa
<1>7. /\ E \in [Numeros(z) -> Dirs] /\ Q \in [Numeros(z) -> 0..ProfMax]
      /\ E[K] = c /\ Q[K] = P[did] + 1 /\ \A k \in Numeros(x) : E[k] = D[k] /\ Q[k] = P[k]
  <2>1. \A k \in Numeros(z) : k = K \/ k \in Numeros(x)
    BY <1>3
  <2>2. \A k \in Numeros(x) : D[k] \in Dirs /\ P[k] \in 0..ProfMax
    BY <1>6
  <2> QED
    BY <1>3, <2>1, <2>2 DEF ComNovo
<1>8. ASSUME NEW j \in Numeros(x) PROVE D[j] # c
  <2> SUFFICES ASSUME D[j] = c PROVE FALSE
    OBVIOUS
  <2>1. c = tree[D[did]][n] /\ D[did] \in Dirs
    BY <1>6 DEF Desce
  <2>2. j # 1
    BY <1>6, <2>1, RootAssumption
  <2>3. j \in 2..Len(x.dirs)
    BY <1>3, <2>2
  <2> DEFINE a == x.dirs[j][1]
             b == x.dirs[j][2]
  <2>4. a \in Numeros(x) /\ b \in Names /\ D[j] = tree[D[a]][b] /\ x.dirs[j] = <<a, b>>
    <3>1. a \in 1..(j - 1) /\ b \in Names /\ Desce(D[a], b, D[j])
      BY <1>6, <2>3
    <3>2. x.dirs[j] \in Nat \X Nat
      BY <1>2 DEF Numeros
    <3>3. j \in Numeros(x) /\ a \in Numeros(x)
      BY <1>3, <3>1
    <3>4. x.dirs[j] = <<a, b>>
      BY <3>2
    <3> HIDE DEF a, b
    <3> QED
      BY <3>1, <3>3, <3>4 DEF Desce
  <2> HIDE DEF a, b
  <2>5. D[a] \in Dirs
    BY <1>6, <2>4
  <2>6. D[a] = D[did] /\ b = n
    BY <2>1, <2>4, <2>5, RootAssumption
  <2>7. a = did
    BY <1>6, <2>4, <2>6
  <2>8. par \in Entrados(x)
    BY <2>3, <2>4, <2>6, <2>7 DEF Entrados
  <2> QED
    BY <2>8 DEF Percurso, Livres
<1>9. Mapa(z, E, Q)
  <2>1. z.dirs # <<>>
    BY <1>2
  <2>2. ASSUME NEW k \in 2..Len(z.dirs)
        PROVE  /\ z.dirs[k][1] \in 1..(k - 1) /\ z.dirs[k][2] \in Names
               /\ Desce(E[z.dirs[k][1]], z.dirs[k][2], E[k]) /\ Q[k] = Q[z.dirs[k][1]] + 1
    <3>1. CASE k = K
      <4>1. z.dirs[k][1] = did /\ z.dirs[k][2] = n /\ did \in 1..(K - 1)
        BY <1>2, <3>1 DEF Numeros
      <4> QED
        BY <1>7, <3>1, <4>1
    <3>2. CASE k \in 2..Len(x.dirs)
      <4>1. /\ z.dirs[k] = x.dirs[k] /\ k \in Numeros(x) /\ x.dirs[k][1] \in 1..(k - 1)
            /\ x.dirs[k][2] \in Names /\ Desce(D[x.dirs[k][1]], x.dirs[k][2], D[k])
            /\ P[k] = P[x.dirs[k][1]] + 1
        BY <1>3, <1>6, <3>2
      <4>2. x.dirs[k][1] \in Numeros(x)
        BY <1>3, <4>1
      <4> QED
        BY <1>7, <4>1, <4>2
    <3> QED
      BY <1>3, <3>1, <3>2
  <2>3. ASSUME NEW j \in Numeros(z), NEW k \in Numeros(z), E[j] = E[k] PROVE j = k
    BY <1>3, <1>6, <1>7, <1>8, <2>3
  <2> QED
    BY <1>3, <1>6, <1>7, <2>1, <2>2, <2>3 DEF Mapa
<1>10. ArquivosOK(z, E)
  <2>1. \A k \in 1..Len(x.arquivos) :
          /\ x.arquivos[k].dir \in Numeros(x) /\ Perm[D[x.arquivos[k].dir]] = "rx"
          /\ tree[D[x.arquivos[k].dir]][x.arquivos[k].nome] = x.arquivos[k].ino
          /\ NLink(x.arquivos[k].ino) > 1 => x.arquivos[k].ino \in x.vistos
    BY DEF Percurso, ArquivosOK
  <2>2. \A k \in 1..Len(x.arquivos) :
          /\ x.arquivos[k].dir \in Numeros(z) /\ Perm[E[x.arquivos[k].dir]] = "rx"
          /\ tree[E[x.arquivos[k].dir]][x.arquivos[k].nome] = x.arquivos[k].ino
    BY <1>3, <1>7, <2>1
  <2>3. /\ \A j, k \in 1..Len(x.arquivos) : x.arquivos[j].ino = x.arquivos[k].ino => j = k
        /\ x.vistos \subseteq Inos(x)
        /\ MaxArquivos > 0 => Len(x.arquivos) <= MaxArquivos
        /\ x.truncada => MaxArquivos > 0 /\ Len(x.arquivos) = MaxArquivos
    BY DEF Percurso, ArquivosOK
  <2> QED
    BY <1>4, <2>1, <2>2, <2>3 DEF ArquivosOK
<1>11. Separados(z)
  BY <1>3, <1>4 DEF Percurso, Separados
<1>12. Livres(z, M)
  <2>1. M \subseteq Numeros(z) \X Names
    <3>1. L \subseteq Numeros(x) \X Names /\ Presentes(c) \subseteq Names /\ Numeros(x) \subseteq Numeros(z)
      BY <1>3 DEF Percurso, Livres, Presentes
    <3>2. K \in Numeros(z)
      BY <1>3
    <3> HIDE DEF Names
    <3> QED
      BY <3>1, <3>2
  <2>2. ASSUME NEW m \in Presentes(c) PROVE <<K, m>> \notin Registrados(z) \cup Ignorados(z) \cup Entrados(z)
    <3>1. <<K, m>> \notin Registrados(x)
      BY <1>3 DEF Percurso, ArquivosOK, Registrados, Arquivo
    <3>2. <<K, m>> \notin Ignorados(x)
      <4>1. Ignorados(x) \subseteq ({0} \cup Numeros(x)) \X Nat
        BY DEF Percurso, Separados
      <4> QED
        BY <1>2, <1>3, <4>1
    <3>3. <<K, m>> \notin Entrados(x)
      <4> SUFFICES ASSUME <<K, m>> \in Entrados(x) PROVE FALSE
        OBVIOUS
      <4>1. PICK k \in 2..Len(x.dirs) : x.dirs[k] = <<K, m>>
        BY DEF Entrados
      <4>2. K \in 1..(k - 1)
        BY <1>6, <4>1
      <4> QED
        BY <1>3, <4>2
    <3>4. <<K, m>> # par
      BY <1>3
    <3> QED
      BY <1>4, <1>5, <3>1, <3>2, <3>3, <3>4
  <2>3. (L \ {par}) \cap (Registrados(z) \cup Ignorados(z) \cup Entrados(z)) = {}
    BY <1>4, <1>5 DEF Percurso, Livres
  <2>4. ({K} \X Presentes(c)) \cap (Registrados(z) \cup Ignorados(z) \cup Entrados(z)) = {}
    BY <2>2
  <2> QED
    BY <2>1, <2>3, <2>4 DEF Livres
<1>13. Cumprido(z, E, Q, M)
  <2> SUFFICES ASSUME NEW k \in Numeros(z), NEW m \in Names, Perm[E[k]] = "rx", tree[E[k]][m] # None
               PROVE  <<k, m>> \in M \/ Feito(z, E, Q, k, m)
    BY DEF Cumprido
  <2>1. CASE k = K
    BY <1>7, <2>1 DEF Presentes
  <2>2. CASE k \in Numeros(x)
    <3>1. <<k, m>> \in L \/ Feito(x, D, P, k, m)
      BY <1>7, <2>2 DEF Percurso, Cumprido
    <3>2. CASE Feito(x, D, P, k, m)
      BY <1>4, <1>5, <1>7, <2>2, <3>2 DEF Feito
    <3>3. CASE <<k, m>> = par
      <4>1. k = did /\ m = n /\ tree[E[k]][m] = c /\ <<k, m>> \in Entrados(z)
        BY <1>5, <1>7, <3>3 DEF Desce
      <4>2. c \notin Files
        BY DEF Files, Dirs
      <4> QED
        BY <4>1, <4>2 DEF Feito
    <3> QED
      BY <3>1, <3>2, <3>3
  <2> QED
    BY <1>3, <2>1, <2>2
<1>14. Percurso(z, E, Q, M)
  BY <1>9, <1>10, <1>11, <1>12, <1>13 DEF Percurso
<1>15. DOMAIN D = Numeros(x) /\ DOMAIN E = Numeros(z)
  BY <1>6, <1>7
<1> QED
  BY <1>2, <1>3, <1>7, <1>14, <1>15 DEF Adiante, Estendida

\* What a walk has found so far, with what it has still to open, accounts for the tree.
Andado(x) == \E D, P : Percurso(x, D, P, Pendentes(x.pilha)) /\ PilhaOK(x.pilha, D, P)

LEMMA RaizAndada ==
    ASSUME TypeOK, DatasOK, NEW x, x = Varredura
    PROVE  Andado(entrar(x, 1, Root, 0))
<1>1. PICK D : D = [k \in {1} |-> Root]
  OBVIOUS
<1>2. PICK P : P = [k \in {1} |-> 0]
  OBVIOUS
<1>3. D[1] = Root /\ P[1] = 0 /\ D \in [{1} -> {Root}] /\ P \in [{1} -> {0}]
  BY <1>1, <1>2
<1>4. /\ x.dirs = <<<<0, 0>>>> /\ x.arquivos = <<>> /\ x.ignorados = <<>> /\ x.vistos = {}
      /\ x.truncada = FALSE /\ x.pilha = <<>>
  BY DEF Varredura
<1>5. /\ Len(x.dirs) = 1 /\ x.dirs[1] = <<0, 0>> /\ Len(x.arquivos) = 0 /\ Len(x.ignorados) = 0
      /\ Len(x.pilha) = 0 /\ x.dirs # <<>> /\ 1..0 = {} /\ 2..1 = {} /\ 1..1 = {1}
  BY <1>4
<1>6. /\ Numeros(x) = {1} /\ Entrados(x) = {} /\ Registrados(x) = {} /\ Ignorados(x) = {}
      /\ Inos(x) = {} /\ Pendentes(x.pilha) = {}
  BY <1>5 DEF Numeros, Entrados, Registrados, Ignorados, Inos, Pendentes
<1>7. x \in Boas
  BY <1>4, <1>5 DEF Boas, Varreduras, Varredura
<1>8. Root \in Dirs /\ 0 \in 0..ProfMax
  BY NodesAssumption, TreesAssumption, BoundsAssumption DEF Dirs
<1> DEFINE L == {1} \X Presentes(Root)
<1>9. Percurso(x, D, P, L)
  <2>1. Mapa(x, D, P)
    BY <1>3, <1>5, <1>6, <1>8 DEF Mapa
  <2>2. ArquivosOK(x, D)
    BY <1>4, <1>5, <1>6, BoundsAssumption DEF ArquivosOK
  <2>3. Separados(x) /\ Livres(x, L)
    BY <1>5, <1>6 DEF Separados, Livres, Presentes
  <2>4. Cumprido(x, D, P, L)
    BY <1>3, <1>6 DEF Cumprido, Presentes
  <2> QED
    BY <2>1, <2>2, <2>3, <2>4 DEF Percurso
<1>10. PilhaOK(x.pilha, D, P)
  BY <1>5 DEF PilhaOK
<1>11. PICK y : y = entrar(x, 1, D[1], P[1])
  OBVIOUS
<1>12. /\ 1 \in Numeros(x) /\ Perm[D[1]] # "none"
       /\ Percurso(x, D, P, Pendentes(x.pilha) \cup ({1} \X Presentes(D[1])))
       /\ x.dirs[1] \notin Registrados(x) \cup Ignorados(x) \cup Pendentes(x.pilha)
       /\ \A n : <<1, n>> \notin Pendentes(x.pilha)
  BY <1>3, <1>6, <1>9, RootAssumption
<1>13. PilhaOK(y.pilha, D, P) /\ Percurso(y, D, P, Pendentes(y.pilha))
  BY <1>5, <1>7, <1>10, <1>11, <1>12, EntrarPercurso
<1> QED
  BY <1>3, <1>11, <1>13 DEF Andado

LEMMA TipoDir ==
    ASSUME NEW d, NEW n, Kind[tree[d][n]] \in {"dir", "file", "link", "other"}, Tipo(d, n) = "d"
    PROVE  Kind[tree[d][n]] = "dir" /\ Perm[d] # "r"
BY DEF Tipo

LEMMA DescerAndado ==
    ASSUME TypeOK, DatasOK, v \in Boas, tree \in Trees, Andado(v), Descer
    PROVE  Andado(v')
<1>1. PICK D, P : Percurso(v, D, P, Pendentes(v.pilha)) /\ PilhaOK(v.pilha, D, P)
  BY DEF Andado
<1>2. PICK fr \in Moldura, n \in Names, x \in Boas : DescerDe(fr, n, x)
  BY DescerPasso
<1> DEFINE L == Pendentes(v.pilha)
           par == <<fr.did, n>>
           c == tree[fr.dir][n]
<1>3. v.pilha \in Seq(Moldura) /\ v.dirs \in Seq(Nat \X Nat)
  BY DEF Boas, Varreduras
<1>4. /\ Len(v.pilha) \in 1..Len(v.pilha) /\ fr = v.pilha[Len(v.pilha)]
      /\ fr.subdirs \in Seq(Names) /\ fr.subdirs # <<>> /\ n = Head(fr.subdirs)
      /\ Cortada(v.pilha, x.pilha) /\ MesmoAchado(v, x)
      /\ fr.did \in Nat /\ fr.dir \in Dirs /\ fr.prof \in Nat /\ c \in Nodes \cup {None}
  BY <1>2 DEF DescerDe
<1>5. /\ PilhaOK(x.pilha, D, P) /\ Pendentes(x.pilha) = L \ {par} /\ par \in L
      /\ Entravel(fr.dir, fr.prof, n)
      /\ fr.did \in DOMAIN D /\ fr.dir = D[fr.did] /\ fr.prof = P[fr.did] /\ Perm[fr.dir] # "io"
  BY <1>1, <1>3, <1>4, PilhaCortada
<1>6. Percurso(x, D, P, L)
  <2>1. MesmoAchado(v, x)
    BY <1>4
  <2> QED
    BY <1>1, <2>1, PercursoIgual
<1> HIDE DEF L
<1>7. fr.did \in Numeros(x) /\ \A k \in Numeros(x) : D[k] \in Dirs /\ Perm[D[k]] # "none"
  <2>1. D \in [Numeros(x) -> Dirs]
    BY <1>6 DEF Percurso, Mapa
  <2>2. ASSUME NEW k \in Numeros(x) PROVE Perm[D[k]] # "none"
    <3>1. CASE k = 1
      BY <1>6, <3>1, RootAssumption DEF Percurso, Mapa
    <3>2. CASE k # 1
      <4>1. k \in 2..Len(x.dirs)
        BY <3>2 DEF Numeros
      <4> QED
        BY <1>6, <4>1 DEF Percurso, Mapa, Desce
    <3> QED
      BY <3>1, <3>2
  <2> QED
    BY <1>5, <2>1, <2>2
<1>8. c \in Nodes /\ c \in Dirs /\ Perm[fr.dir] = "rx"
  <2>1. c \in Nodes
    BY <1>4, <1>5 DEF Entravel
  <2>2. Kind[c] = "dir" /\ Perm[fr.dir] # "r"
    BY <1>5, <2>1, TipoDir, TreesAssumption DEF Entravel
  <2>3. fr.dir \in Nodes
    BY <1>4 DEF Dirs
  <2>4. Perm[fr.dir] \in {"rx", "r", "none", "io"} /\ Perm[fr.dir] # "none"
    BY <1>5, <1>7, <2>3, RootAssumption
  <2> QED
    BY <1>5, <2>1, <2>2, <2>4 DEF Dirs
<1>9. par \notin Registrados(x) \cup Ignorados(x)
  BY <1>5, <1>6 DEF Percurso, Livres
<1>10. CASE AbreDir(fr.dir, n) # "aberto"
  <2>1. AbreDir(fr.dir, n) \in Motivos /\ v' = Ignorar(x, AbreDir(fr.dir, n), fr.did, n)
    BY <1>2, <1>10 DEF DescerDe
  <2>2. Perm[c] = "none"
    BY <1>5, <1>8, <1>10 DEF AbreDir, Entravel, Dirs
  <2>3. c \notin Files
    BY <1>8 DEF Files, Dirs
  <2>4. Feito(x, D, P, fr.did, n)
    BY <1>5, <2>2, <2>3 DEF Feito
  <2>5. n \in Nat
    BY DEF Names
  <2>6. fr.did \in {0} \cup Numeros(x)
    BY <1>7
  <2>7. PICK y : y = v'
    OBVIOUS
  <2>a. y = Ignorar(x, AbreDir(fr.dir, n), fr.did, n)
    BY <2>1, <2>7
  <2>8. Percurso(y, D, P, L \ {par})
    BY <1>6, <1>9, <2>a, <2>1, <2>4, <2>5, <2>6, PercursoIgnorar
  <2>b. PICK m \in Motivos, k \in Nat : y = Ignorar(x, m, k, n)
    BY <1>4, <2>a, <2>1
  <2> HIDE DEF par, c
  <2>9. y.pilha = x.pilha
    BY <2>b, <2>5, IgnorarCampos
  <2>10. Percurso(y, D, P, Pendentes(y.pilha)) /\ PilhaOK(y.pilha, D, P)
    BY <1>5, <2>8, <2>9
  <2>11. Andado(y)
    BY <2>10 DEF Andado
  <2> QED
    BY <2>7, <2>11
<1>11. CASE AbreDir(fr.dir, n) = "aberto"
  <2> DEFINE K == Len(x.dirs) + 1
  <2>1. PICK z \in Boas : Avancada(x, z, par) /\ v' = entrar(z, K, c, fr.prof + 1)
    BY <1>2, <1>11 DEF DescerDe
  <2>2. PICK E : E = ComNovo(z, K, c, D)
    OBVIOUS
  <2>3. PICK Q : Q = ComNovo(z, K, P[fr.did] + 1, P)
    OBVIOUS
  <2>4. Perm[c] # "none"
    BY <1>8, <1>11 DEF AbreDir, Dirs
  <2>5. Desce(D[fr.did], n, c)
    <3>1. Descida(fr.dir, fr.prof, n) = "entra"
      BY <1>5 DEF Entravel
    <3>2. Dev[c] = Dev[Root]
      BY <3>1 DEF Descida
    <3> QED
      BY <1>5, <1>8, <2>4, <3>2 DEF Desce
  <2>6. P[fr.did] + 1 \in 0..ProfMax
    <3>1. Descida(fr.dir, fr.prof, n) = "entra"
      BY <1>5 DEF Entravel
    <3>2. ~(fr.prof + 1 > ProfMax)
      BY <3>1 DEF Descida
    <3>3. PICK m \in Nat : m = fr.prof /\ m = P[fr.did]
      BY <1>4, <1>5
    <3> QED
      BY <3>2, <3>3, BoundsAssumption
  <2>7. PICK w : w = K
    OBVIOUS
  <2>8. /\ Percurso(z, E, Q, (L \ {par}) \cup ({w} \X Presentes(c)))
        /\ w \in Numeros(z) /\ E[w] = c /\ Q[w] = P[fr.did] + 1 /\ w > 1
        /\ DOMAIN D = Numeros(x) /\ w \notin Numeros(x) /\ DOMAIN D \subseteq DOMAIN E
        /\ \A k \in DOMAIN D : E[k] = D[k] /\ Q[k] = P[k]
    <3>1. /\ w = Len(x.dirs) + 1 /\ E = ComNovo(z, w, c, D) /\ Q = ComNovo(z, w, P[fr.did] + 1, P)
      BY <2>2, <2>3, <2>7
    <3>2. <<fr.did, n>> \in L /\ Avancada(x, z, <<fr.did, n>>) /\ c \in Dirs
      BY <1>5, <1>8, <2>1
    <3> HIDE DEF c
    <3>3. Percurso(z, E, Q, Adiante(L, fr.did, n, w, c)) /\ Estendida(x, z, D, P, E, Q, w)
      BY <1>6, <1>7, <2>5, <2>6, <3>1, <3>2, PercursoAvancar
    <3>4. E[w] = c /\ Q[w] = P[fr.did] + 1
      BY <3>1, <3>3 DEF ComNovo, Estendida
    <3> QED
      BY <3>3, <3>4 DEF Adiante, Estendida
  <2>9. z.pilha = x.pilha /\ PilhaOK(z.pilha, E, Q)
    <3>1. z.pilha = x.pilha
      BY <2>1 DEF Avancada
    <3> QED
      BY <1>5, <2>8, <3>1, PilhaEstende
  <2>10. Percurso(z, E, Q, Pendentes(z.pilha) \cup ({w} \X Presentes(E[w])))
    BY <1>5, <2>8, <2>9
  <2>11. \A m : <<w, m>> \notin Pendentes(z.pilha)
    <3>1. L \subseteq Numeros(x) \X Names
      BY <1>6 DEF Percurso, Livres
    <3> QED
      BY <1>5, <2>8, <2>9, <3>1
  <2>12. z.dirs[w] \notin Registrados(z) \cup Ignorados(z) \cup Pendentes(z.pilha)
    <3>1. x.dirs \in Seq(Nat \X Nat)
      BY DEF Boas, Varreduras
    <3>2. z.dirs[w] = par
      BY <2>1, <2>7, <3>1 DEF Avancada
    <3>3. Registrados(z) = Registrados(x) /\ Ignorados(z) = Ignorados(x)
      BY <2>1 DEF Avancada, Registrados, Arquivo, Ignorados, Ignorado2
    <3> QED
      BY <1>5, <1>9, <2>9, <3>2, <3>3
  <2>13. PICK y : y = entrar(z, w, E[w], Q[w])
    OBVIOUS
  <2>14. /\ w = 1 => z.dirs[w] = <<0, 0>>
         /\ Perm[E[w]] # "none"
    BY <2>4, <2>8
  <2>15. PilhaOK(y.pilha, E, Q) /\ Percurso(y, E, Q, Pendentes(y.pilha))
    <3> HIDE DEF c, par
    <3> QED
      BY <2>8, <2>9, <2>10, <2>11, <2>12, <2>13, <2>14, EntrarPercurso
  <2>16. Andado(y)
    BY <2>15 DEF Andado
  <2>17. v' = y
    BY <1>5, <2>1, <2>7, <2>8, <2>13
  <2> QED
    BY <2>16, <2>17
<1> QED
  BY <1>10, <1>11

LEMMA SubirAndado ==
    ASSUME v \in Boas, Andado(v), Subir
    PROVE  Andado(v')
<1>1. PICK D, P : Percurso(v, D, P, Pendentes(v.pilha)) /\ PilhaOK(v.pilha, D, P)
  BY DEF Andado
<1> DEFINE q == Front(v.pilha)
<1>2. v.pilha \in Seq(Moldura) /\ v.pilha # <<>> /\ v.pilha[Len(v.pilha)].subdirs = <<>>
  BY DEF Subir, Boas, Varreduras, Last
<1>3. v' = [v EXCEPT !.pilha = q]
  BY DEF Subir
<1>4. q \in Seq(Moldura) /\ PilhaOK(q, D, P) /\ Pendentes(q) = Pendentes(v.pilha)
  BY <1>1, <1>2, PilhaFront
<1> HIDE DEF q
<1>5. PICK x : x = v
  OBVIOUS
<1>6. PICK y : y = [x EXCEPT !.pilha = q]
  OBVIOUS
<1>7. MesmoAchado(x, y) /\ y.pilha = q
  BY <1>4, <1>5, <1>6, MudaPilha
<1>8. Percurso(y, D, P, Pendentes(q))
  BY <1>1, <1>4, <1>5, <1>7, PercursoIgual
<1>9. Andado(y)
  BY <1>4, <1>7, <1>8 DEF Andado
<1> QED
  BY <1>3, <1>5, <1>6, <1>9

LEMMA VarrerAndado ==
    ASSUME IInv, tree \in Trees, fase # "inicio" => Andado(v), varrer_arvore
    PROVE  Andado(v')
<1>1. TypeOK /\ DatasOK /\ v \in Boas
  BY DEF IInv, TypeOK, RegistrosOK, Boas, Arqs
<1>2. CASE VarrerRaiz
  <2>1. v = Varredura /\ v' = entrar(v, 1, Root, 0)
    BY <1>2 DEF IInv, ParadoOK, VarrerRaiz
  <2> QED
    BY <1>1, <2>1, RaizAndada
<1>3. CASE Descer
  BY <1>1, <1>3, DescerAndado DEF Descer
<1>4. CASE Subir
  BY <1>1, <1>4, SubirAndado DEF Subir
<1> QED
  BY <1>2, <1>3, <1>4 DEF varrer_arvore

----------------------------------------------------------------------------
(***************************************************************************)
(* What the walk has met when it ends.                                     *)
(***************************************************************************)
\* The directories below those of a set, one level down.
Filhos(ds) == {tree[e[1]][e[2]] : e \in {x \in Entries : /\ x[1] \in ds
                                                        /\ Perm[x[1]] = "rx"
                                                        /\ tree[x[1]][x[2]] \in Dirs
                                                        /\ Perm[tree[x[1]][x[2]]] # "none"
                                                        /\ Dev[tree[x[1]][x[2]]] = Dev[Root]}}

LEMMA FilhosDe ==
    ASSUME NEW ds, ds \subseteq Dirs
    PROVE  /\ Filhos(ds) \subseteq Dirs
           /\ \A c : c \in Filhos(ds) <=>
                \E d \in ds, n \in Names : tree[d][n] # None /\ c \in Dirs /\ Desce(d, n, c)
<1>1. ASSUME NEW c, c \in Filhos(ds)
      PROVE  /\ c \in Dirs
             /\ \E d \in ds, n \in Names : tree[d][n] # None /\ c \in Dirs /\ Desce(d, n, c)
  <2>1. PICK e \in Entries : /\ e[1] \in ds /\ Perm[e[1]] = "rx" /\ c = tree[e[1]][e[2]]
                             /\ c \in Dirs /\ Perm[c] # "none" /\ Dev[c] = Dev[Root]
    BY <1>1 DEF Filhos
  <2>2. e[1] \in Dirs /\ e[2] \in Names /\ tree[e[1]][e[2]] # None
    BY DEF Entries
  <2>3. PICK d, n : d = e[1] /\ n = e[2]
    OBVIOUS
  <2>4. d \in ds /\ n \in Names /\ tree[d][n] # None /\ c \in Dirs /\ Desce(d, n, c)
    BY <2>1, <2>2, <2>3 DEF Desce
  <2> QED
    BY <2>4
<1>2. ASSUME NEW d \in ds, NEW n \in Names, tree[d][n] # None, NEW c \in Dirs, Desce(d, n, c)
      PROVE  c \in Filhos(ds)
  <2>1. <<d, n>> \in Entries /\ <<d, n>>[1] = d /\ <<d, n>>[2] = n
    BY <1>2 DEF Entries
  <2> QED
    BY <1>2, <2>1 DEF Filhos, Desce
<1> QED
  BY <1>1, <1>2

\* Alcance is defined: it is the least relation of depths and directories that has the
\* root at depth 0 and the children of its directories one level down.
Fechada(G) ==
    /\ <<0, Root>> \in G
    /\ \A k \in Nat, d \in Dirs, c \in Dirs :
          <<k, d>> \in G /\ c \in Filhos({d}) => <<k + 1, c>> \in G

LEMMA AlcancePassos ==
    /\ Alcance[0] = {Root} /\ \A k \in Nat : Alcance[k + 1] = Filhos(Alcance[k])
    /\ \A k \in Nat : Alcance[k] \subseteq Dirs
<1> DEFINE Todos == Nat \X Dirs
           G == {p \in Todos : \A H \in SUBSET Todos : Fechada(H) => p \in H}
           f == [k \in Nat |-> {d \in Dirs : <<k, d>> \in G}]
           Eq(g) == g = [k \in Nat |-> IF k = 0 THEN {Root} ELSE Filhos(g[k - 1])]
<1>0. Root \in Dirs
  BY NodesAssumption, TreesAssumption DEF Dirs
<1>1. Fechada(G)
  <2>1. <<0, Root>> \in G
    BY <1>0 DEF Fechada
  <2>2. ASSUME NEW k \in Nat, NEW d \in Dirs, NEW c \in Dirs, <<k, d>> \in G, c \in Filhos({d})
        PROVE  <<k + 1, c>> \in G
    <3>1. <<k + 1, c>> \in Todos
      OBVIOUS
    <3>2. ASSUME NEW H \in SUBSET Todos, Fechada(H) PROVE <<k + 1, c>> \in H
      BY <2>2, <3>2 DEF Fechada
    <3> QED
      BY <3>1, <3>2
  <2> QED
    BY <2>1, <2>2 DEF Fechada
<1>2. f[0] = {Root}
  <2> DEFINE H == {p \in G : p[1] = 0 => p[2] = Root}
  <2>1. Fechada(H)
    <3>1. <<0, Root>> \in H
      BY <1>1 DEF Fechada
    <3>2. ASSUME NEW k \in Nat, NEW d \in Dirs, NEW c \in Dirs, <<k, d>> \in H, c \in Filhos({d})
          PROVE  <<k + 1, c>> \in H
      <4>1. <<k + 1, c>> \in G /\ k + 1 # 0
        BY <1>1, <3>2 DEF Fechada
      <4> HIDE DEF G
      <4> QED
        BY <4>1
    <3> QED
      BY <3>1, <3>2 DEF Fechada
  <2>2. H \in SUBSET Todos
    OBVIOUS
  <2>3. \A d : <<0, d>> \in G => d = Root
    BY <2>1, <2>2
  <2>4. <<0, Root>> \in G
    BY <1>1 DEF Fechada
  <2> HIDE DEF G
  <2> QED
    BY <1>0, <2>3, <2>4
<1>3. ASSUME NEW k \in Nat PROVE f[k + 1] = Filhos(f[k])
  <2>1. f[k] = {d \in Dirs : <<k, d>> \in G} /\ f[k + 1] = {d \in Dirs : <<k + 1, d>> \in G}
    OBVIOUS
  <2> DEFINE H == {p \in G : p[1] = k + 1 => p[2] \in Filhos(f[k])}
  <2>2. f[k] \subseteq Dirs
    BY <2>1
  <2> HIDE DEF f
  <2>3. ASSUME NEW d \in Dirs, <<k, d>> \in G, NEW c \in Filhos({d}) PROVE c \in Filhos(f[k])
    <3>1. d \in f[k]
      BY <2>1, <2>3
    <3> QED
      BY <2>2, <2>3, <3>1, FilhosDe
  <2>4. Fechada(H)
    <3>1. <<0, Root>> \in H
      BY <1>1 DEF Fechada
    <3>2. ASSUME NEW m \in Nat, NEW d \in Dirs, NEW c \in Dirs, <<m, d>> \in H, c \in Filhos({d})
          PROVE  <<m + 1, c>> \in H
      <4>1. <<m, d>> \in G /\ <<m + 1, c>> \in G
        BY <1>1, <3>2 DEF Fechada
      <4>2. m + 1 = k + 1 => m = k
        OBVIOUS
      <4> HIDE DEF G
      <4> QED
        BY <2>3, <3>2, <4>1, <4>2
    <3> QED
      BY <3>1, <3>2 DEF Fechada
  <2>5. H \in SUBSET Todos
    OBVIOUS
  <2>6. ASSUME NEW c \in f[k + 1] PROVE c \in Filhos(f[k])
    <3>1. <<k + 1, c>> \in G
      BY <2>1
    <3>2. <<k + 1, c>> \in H
      BY <2>4, <2>5, <3>1
    <3> QED
      BY <3>2
  <2>7. ASSUME NEW c \in Filhos(f[k]) PROVE c \in f[k + 1]
    <3>1. c \in Dirs /\ \E d \in f[k], n \in Names : tree[d][n] # None /\ c \in Dirs /\ Desce(d, n, c)
      BY <2>2, FilhosDe
    <3>a. PICK d \in f[k], n \in Names : tree[d][n] # None /\ Desce(d, n, c)
      BY <3>1
    <3>2. c \in Filhos({d})
      <4>1. {d} \subseteq Dirs /\ d \in {d}
        BY <2>2
      <4> QED
        BY <3>1, <3>a, <4>1, FilhosDe
    <3>3. d \in Dirs /\ <<k, d>> \in G
      BY <2>1
    <3>4. <<k + 1, c>> \in G
      BY <1>1, <3>1, <3>2, <3>3 DEF Fechada
    <3> HIDE DEF G
    <3> QED
      BY <2>1, <3>1, <3>4
  <2> QED
    BY <2>6, <2>7
<1>4. Eq(f)
  <2>1. ASSUME NEW k \in Nat PROVE f[k] = IF k = 0 THEN {Root} ELSE Filhos(f[k - 1])
    <3>1. CASE k = 0
      BY <1>2, <3>1
    <3>2. CASE k # 0
      <4>1. k - 1 \in Nat /\ (k - 1) + 1 = k
        BY <3>2
      <4> HIDE DEF f
      <4>2. f[(k - 1) + 1] = Filhos(f[k - 1])
        BY <1>3, <4>1
      <4> QED
        BY <3>2, <4>1, <4>2
    <3> QED
      BY <3>1, <3>2
  <2>2. f = [k \in Nat |-> f[k]]
    OBVIOUS
  <2> HIDE DEF f
  <2> QED
    BY <2>1, <2>2
<1>5. Alcance = CHOOSE g : Eq(g)
  BY DEF Alcance, Filhos
<1> HIDE DEF f, G, Todos
<1>6. Eq(Alcance)
  <2> HIDE DEF Eq
  <2> QED
    BY <1>4, <1>5
<1>7. Alcance[0] = {Root} /\ \A k \in Nat : Alcance[k + 1] = Filhos(Alcance[k])
  <2>1. \A k \in Nat : Alcance[k] = IF k = 0 THEN {Root} ELSE Filhos(Alcance[k - 1])
    BY <1>6, Zenon
  <2>2. \A k \in Nat : k + 1 \in Nat /\ k + 1 # 0 /\ (k + 1) - 1 = k
    OBVIOUS
  <2>3. Alcance[0] = {Root}
    BY <2>1
  <2>4. ASSUME NEW k \in Nat PROVE Alcance[k + 1] = Filhos(Alcance[k])
    BY <2>1, <2>2
  <2> QED
    BY <2>3, <2>4
<1>8. \A k \in Nat : Alcance[k] \subseteq Dirs
  <2> DEFINE S == {k \in Nat : Alcance[k] \subseteq Dirs}
  <2>1. 0 \in S
    BY <1>0, <1>7
  <2>2. \A k \in Nat : k \in S => k + 1 \in S
    BY <1>7, FilhosDe
  <2> HIDE DEF S
  <2>3. Nat \subseteq S
    BY <2>1, <2>2, SetInduction
  <2> QED
    BY <2>3 DEF S
<1> QED
  BY <1>7, <1>8

\* In a tree that nobody changed the walk, at any moment, accounts for the tree, and
\* nothing is left to open once it has ended.
WalkOK ==
    edits = 0 =>
        /\ tree \in Trees
        /\ fase # "inicio" => Andado(v)
        /\ Varrida => v.pilha = <<>>

\* The directories of the inventory are those a path of openable directories leads to.
LEMMA DirsAlcancados ==
    ASSUME NEW x, NEW D, NEW P, Percurso(x, D, P, {})
    PROVE  /\ \A k \in Numeros(x) : D[k] \in Alcancados
           /\ \A c \in Alcancados : \E k \in Numeros(x) : D[k] = c
<1>1. /\ D \in [Numeros(x) -> Dirs] /\ P \in [Numeros(x) -> 0..ProfMax]
      /\ x.dirs # <<>> /\ D[1] = Root /\ P[1] = 0
      /\ \A k \in 2..Len(x.dirs) :
            /\ x.dirs[k][1] \in 1..(k - 1) /\ x.dirs[k][2] \in Names
            /\ Desce(D[x.dirs[k][1]], x.dirs[k][2], D[k]) /\ P[k] = P[x.dirs[k][1]] + 1
  BY DEF Percurso, Mapa
<1>2. ASSUME NEW k \in Numeros(x) PROVE D[k] \in Alcance[P[k]]
  <2> DEFINE S == {m \in Nat : \A j \in Numeros(x) : j <= m => D[j] \in Alcance[P[j]]}
  <2>1. 0 \in S
    BY DEF Numeros
  <2>2. ASSUME NEW m \in Nat, m \in S PROVE m + 1 \in S
    <3> SUFFICES ASSUME NEW j \in Numeros(x), j <= m + 1 PROVE D[j] \in Alcance[P[j]]
      BY <2>2
    <3>0. j \in Nat /\ j # 0
      BY DEF Numeros
    <3>1. CASE j <= m
      BY <2>2, <3>1
    <3>2. CASE j = 1
      BY <1>1, <3>2, AlcancePassos
    <3>3. CASE j = m + 1 /\ j # 1
      <4>1. j \in 2..Len(x.dirs)
        BY <3>0, <3>3 DEF Numeros
      <4> DEFINE a == x.dirs[j][1]
                 n == x.dirs[j][2]
      <4>2. a \in 1..(j - 1) /\ n \in Names /\ Desce(D[a], n, D[j]) /\ P[j] = P[a] + 1
        BY <1>1, <4>1
      <4> HIDE DEF a, n
      <4>3. a \in Numeros(x) /\ a <= m
        BY <3>3, <4>2 DEF Numeros
      <4>4. D[a] \in Alcance[P[a]] /\ P[a] \in Nat
        BY <1>1, <2>2, <4>3
      <4>5. Alcance[P[a] + 1] = Filhos(Alcance[P[a]]) /\ Alcance[P[a]] \subseteq Dirs
        BY <4>4, AlcancePassos
      <4>6. D[j] \in Dirs /\ tree[D[a]][n] # None
        <5>1. D[j] \in Dirs
          BY <1>1
        <5> QED
          BY <4>2, <5>1, NodesAssumption DEF Desce, Dirs
      <4>7. D[j] \in Filhos(Alcance[P[a]])
        BY <4>2, <4>4, <4>5, <4>6, FilhosDe
      <4> QED
        BY <4>2, <4>5, <4>7
    <3> QED
      BY <3>0, <3>1, <3>2, <3>3
  <2> HIDE DEF S
  <2>3. Nat \subseteq S
    BY <2>1, <2>2, SetInduction
  <2>4. k \in Nat /\ k <= k
    BY DEF Numeros
  <2> QED
    BY <2>3, <2>4 DEF S
<1>3. ASSUME NEW k \in Numeros(x) PROVE D[k] \in Alcancados
  <2>1. P[k] \in 0..ProfMax
    BY <1>1
  <2> QED
    BY <1>2, <2>1 DEF Alcancados
<1>4. ASSUME NEW m \in 0..ProfMax, NEW c \in Alcance[m]
      PROVE  \E k \in Numeros(x) : D[k] = c /\ P[k] = m
  <2> DEFINE S == {i \in 0..ProfMax : \A d \in Alcance[i] : \E k \in Numeros(x) : D[k] = d /\ P[k] = i}
  <2>0. 1 \in Numeros(x)
    BY <1>1 DEF Numeros, Percurso, Mapa
  <2>1. 0 \in S
    <3>1. 0 \in 0..ProfMax
      BY BoundsAssumption
    <3>2. \A d \in Alcance[0] : D[1] = d /\ P[1] = 0
      BY <1>1, AlcancePassos
    <3> QED
      BY <2>0, <3>1, <3>2
  <2>2. ASSUME NEW i \in 0..(ProfMax - 1), i \in S PROVE i + 1 \in S
    <3>0. i \in Nat /\ i + 1 \in 0..ProfMax /\ i < ProfMax
      BY BoundsAssumption
    <3> SUFFICES ASSUME NEW d \in Alcance[i + 1]
                 PROVE  \E k \in Numeros(x) : D[k] = d /\ P[k] = i + 1
      BY <3>0
    <3>1. d \in Filhos(Alcance[i]) /\ Alcance[i] \subseteq Dirs
      BY <3>0, AlcancePassos
    <3>2. PICK e \in Alcance[i], n \in Names : tree[e][n] # None /\ d \in Dirs /\ Desce(e, n, d)
      BY <3>1, FilhosDe
    <3>3. PICK k \in Numeros(x) : D[k] = e /\ P[k] = i
      BY <2>2
    <3>4. Feito(x, D, P, k, n)
      BY <3>2, <3>3 DEF Percurso, Cumprido, Desce
    <3>5. <<k, n>> \in Entrados(x)
      BY <3>0, <3>2, <3>3, <3>4 DEF Feito, Desce
    <3>6. PICK j \in 2..Len(x.dirs) : x.dirs[j] = <<k, n>>
      BY <3>5 DEF Entrados
    <3>7. Desce(D[k], n, D[j]) /\ P[j] = P[k] + 1
      BY <1>1, <3>6
    <3>8. j \in Numeros(x) /\ D[j] = d
      BY <3>2, <3>3, <3>7 DEF Numeros, Desce
    <3> QED
      BY <3>3, <3>7, <3>8
  <2> HIDE DEF S
  <2>3. 0..ProfMax \subseteq S
    BY <2>1, <2>2, PrefixInduction, BoundsAssumption
  <2> QED
    BY <2>3 DEF S
<1>5. ASSUME NEW c \in Alcancados PROVE \E k \in Numeros(x) : D[k] = c
  BY <1>4 DEF Alcancados
<1> QED
  BY <1>3, <1>5

LEMMA MesmoTamanho ==
    ASSUME NEW S, NEW T, IsFiniteSet(S), NEW f \in [S -> T], \A a, b \in S : f[a] = f[b] => a = b,
           \A t \in T : \E a \in S : f[a] = t
    PROVE  IsFiniteSet(T) /\ Cardinality(T) = Cardinality(S)
<1>1. f \in Bijection(S, T)
  BY DEF Bijection, Injection, Surjection, IsInjective
<1> QED
  BY <1>1, FS_Bijection DEF ExistsBijection

LEMMA IgnoradosContados ==
    ASSUME NEW x \in Boas, Separados(x)
    PROVE  Cardinality(Ignorados(x)) = Len(x.ignorados)
<1> DEFINE n == Len(x.ignorados)
           f == [k \in 1..n |-> Ignorado2(x, k)]
<1>1. n \in Nat
  BY DEF Boas, Varreduras
<1>2. /\ f \in [1..n -> Ignorados(x)]
      /\ \A j, k \in 1..n : f[j] = f[k] => j = k
      /\ \A e \in Ignorados(x) : \E k \in 1..n : f[k] = e
  BY DEF Ignorados, Separados
<1> HIDE DEF f, n
<1>3. IsFiniteSet(1..n) /\ Cardinality(1..n) = n
  <2>1. 1 \in Int /\ n \in Int
    BY <1>1
  <2>2. IsFiniteSet(1..n) /\ Cardinality(1..n) = IF 1 > n THEN 0 ELSE n - 1 + 1
    BY <2>1, FS_Interval, Zenon
  <2> QED
    BY <1>1, <2>2
<1>4. Cardinality(Ignorados(x)) = n
  BY <1>2, <1>3, MesmoTamanho
<1> QED
  BY <1>4 DEF n

LEMMA AndadoExato ==
    ASSUME IInv, WalkOK
    PROVE  ScanExact
<1> SUFFICES ASSUME edits = 0, Varrida
             PROVE  /\ IF v.truncada
                          THEN Len(v.arquivos) = MaxArquivos
                          ELSE {v.arquivos[i].ino : i \in Arqs} = Alcancaveis
                    /\ \A i, j \in Arqs : i # j => v.arquivos[i].ino # v.arquivos[j].ino
                    /\ \A i \in Arqs : ~ Ignorado(v.arquivos[i].dir, v.arquivos[i].nome)
                    /\ Cardinality({<<v.ignorados[k][2], v.ignorados[k][3]>> : k \in DOMAIN v.ignorados})
                         = Len(v.ignorados)
  BY DEF ScanExact
<1>1. PICK D, P : Percurso(v, D, P, Pendentes(v.pilha))
  BY DEF WalkOK, Andado, Varrida
<1>2. v.pilha = <<>> /\ v \in Boas
  BY DEF WalkOK, IInv, TypeOK, RegistrosOK, Boas, Arqs
<1>3. Percurso(v, D, P, {})
  <2>1. Len(v.pilha) = 0 /\ 1..0 = {}
    BY <1>2
  <2>2. Pendentes(v.pilha) = {}
    BY <2>1 DEF Pendentes
  <2> QED
    BY <1>1, <2>2
<1>4. ArquivosOK(v, D) /\ Separados(v) /\ Cumprido(v, D, P, {}) /\ D \in [Numeros(v) -> Dirs]
  BY <1>3 DEF Percurso, Mapa
<1>5. v.truncada => Len(v.arquivos) = MaxArquivos
  BY <1>4 DEF ArquivosOK
<1>6. ASSUME ~ v.truncada PROVE {v.arquivos[i].ino : i \in Arqs} = Alcancaveis
  <2>1. ASSUME NEW k \in Arqs PROVE v.arquivos[k].ino \in Alcancaveis
    <3> DEFINE d == D[v.arquivos[k].dir]
               n == v.arquivos[k].nome
    <3>1. /\ v.arquivos[k].dir \in Numeros(v) /\ Perm[d] = "rx" /\ tree[d][n] = v.arquivos[k].ino
      BY <1>4 DEF ArquivosOK, Arqs
    <3>2. d \in Alcancados /\ d \in Dirs
      BY <1>3, <1>4, <3>1, DirsAlcancados
    <3>3. n \in Names /\ v.arquivos[k].ino \in Files
      <4>1. v.arquivos[k] \in Registro
        BY DEF IInv, TypeOK, Varreduras, Arqs
      <4> QED
        BY <4>1 DEF Registro
    <3>4. tree[d][n] # None
      BY <3>1, <3>3, NodesAssumption DEF Files
    <3>5. PICK e : e = <<d, n>>
      OBVIOUS
    <3>6. e \in Entries /\ e[1] = d /\ e[2] = n
      BY <3>2, <3>3, <3>4, <3>5 DEF Entries
    <3> HIDE DEF d, n
    <3> QED
      BY <3>1, <3>2, <3>3, <3>6 DEF Alcancaveis
  <2>2. ASSUME NEW i \in Alcancaveis PROVE \E k \in Arqs : v.arquivos[k].ino = i
    <3>1. PICK e \in Entries : tree[e[1]][e[2]] = i /\ e[1] \in Alcancados /\ Perm[e[1]] = "rx"
      BY DEF Alcancaveis
    <3>2. e[2] \in Names /\ tree[e[1]][e[2]] # None
      BY DEF Entries
    <3>3. PICK k \in Numeros(v) : D[k] = e[1]
      BY <1>3, <3>1, DirsAlcancados
    <3>4. Feito(v, D, P, k, e[2])
      BY <1>4, <3>1, <3>2, <3>3 DEF Cumprido
    <3>5. i \in Files
      BY DEF Alcancaveis
    <3>6. i \in Inos(v)
      BY <1>6, <3>1, <3>3, <3>4, <3>5 DEF Feito
    <3> QED
      BY <3>6 DEF Inos, Arqs
  <2> QED
    BY <2>1, <2>2
<1>7. \A i, j \in Arqs : i # j => v.arquivos[i].ino # v.arquivos[j].ino
  BY <1>4 DEF ArquivosOK, Arqs
<1>8. DOMAIN v.ignorados = 1..Len(v.ignorados)
  BY <1>2 DEF Boas, Varreduras
<1>9. \A i \in Arqs : ~ Ignorado(v.arquivos[i].dir, v.arquivos[i].nome)
  <2> SUFFICES ASSUME NEW i \in Arqs, NEW k \in 1..Len(v.ignorados),
                      v.ignorados[k][2] = v.arquivos[i].dir, v.ignorados[k][3] = v.arquivos[i].nome
               PROVE  FALSE
    BY <1>8 DEF Ignorado
  <2>1. Ignorado2(v, k) = Arquivo(v, i)
    BY DEF Ignorado2, Arquivo
  <2>2. Ignorado2(v, k) \in Ignorados(v) /\ Arquivo(v, i) \in Registrados(v)
    BY DEF Ignorados, Registrados, Arqs
  <2> QED
    BY <1>4, <2>1, <2>2 DEF Separados
<1>10. Cardinality({<<v.ignorados[k][2], v.ignorados[k][3]>> : k \in DOMAIN v.ignorados}) = Len(v.ignorados)
  <2>1. Ignorados(v) = {<<v.ignorados[k][2], v.ignorados[k][3]>> : k \in DOMAIN v.ignorados}
    BY <1>8 DEF Ignorados, Ignorado2
  <2> QED
    BY <1>2, <1>4, <2>1, IgnoradosContados
<1> QED
  BY <1>5, <1>6, <1>7, <1>9, <1>10

LEMMA PercursoDepois ==
    ASSUME tree' = tree, NEW D, NEW P, NEW L, Percurso(v', D, P, L)
    PROVE  Percurso(v, D, P, L)'
<1>1. /\ \A d, n, c : Desce(d, n, c)' <=> Desce(d, n, c)
      /\ \A i : NLink(i)' = NLink(i)
  BY DEF Desce, NLink, Entries
<1>2. Mapa(v, D, P)'
  BY <1>1 DEF Percurso, Mapa, Numeros
<1>3. ArquivosOK(v, D)'
  BY <1>1 DEF Percurso, ArquivosOK, Numeros, Inos
<1>4. Separados(v)'
  BY DEF Percurso, Separados, Registrados, Arquivo, Ignorados, Ignorado2, Numeros
<1>5. (Livres(v', L) => Livres(v, L)') /\ (Cumprido(v', D, P, L) => Cumprido(v, D, P, L)')
  BY DEF Livres, Cumprido, Feito, Registrados, Arquivo, Ignorados, Ignorado2, Entrados, Inos, Numeros
<1> QED
  BY <1>2, <1>3, <1>4, <1>5 DEF Percurso

LEMMA AndadoDepois ==
    ASSUME tree' = tree, Andado(v')
    PROVE  Andado(v)'
<1>1. PICK D, P : Percurso(v', D, P, Pendentes(v'.pilha)) /\ PilhaOK(v'.pilha, D, P)
  BY DEF Andado
<1>2. PICK L : L = Pendentes(v'.pilha)
  OBVIOUS
<1>3. Percurso(v', D, P, L)
  BY <1>1, <1>2
<1>4. Percurso(v, D, P, L)'
  BY <1>3, PercursoDepois
<1>5. \A d, p, n : Entravel(d, p, n)' <=> Entravel(d, p, n)
  BY DEF Entravel, Tipo, Descida
<1>6. PilhaOK(v.pilha, D, P)'
  BY <1>1, <1>5 DEF PilhaOK
<1>7. L = Pendentes(v.pilha)'
  BY <1>2 DEF Pendentes
<1> QED
  BY <1>4, <1>6, <1>7 DEF Andado

\* A task of the pool changes no more of the walk than classes and states.
LEMMA TarefaMesma ==
    ASSUME IInv, NEW w \in Workers, Worker(w)
    PROVE  MesmosArquivos /\ UNCHANGED <<fsVars, fase, grupos>>
<1>0. v \in Varreduras
  BY DEF IInv, TypeOK
<1>1. CASE Pegar(w)
  <2>1. \E i : v' = v \/ SoMuda(i, "vazio")
    BY <1>1, PegarMuda DEF PegarPasso
  <2> QED
    BY <1>0, <1>1, <2>1, MesmaVarredura DEF Pegar, SoMuda
<1>2. ASSUME job[w].at # "idle", NEW m \in Motivos, Falha(w, m) PROVE MesmosArquivos
  BY <1>2, FalhaMuda DEF SoMuda
<1>3. CASE fd_dir(w)
  <2>1. PICK pai, n :
          /\ job[w].at = "abrir"
          /\ IF AbreDir(pai, n) = "aberto" THEN UNCHANGED <<job, v>> ELSE Falha(w, AbreDir(pai, n))
    BY <1>3, Zenon DEF fd_dir
  <2>2. MesmosArquivos
    BY <1>0, <1>2, <2>1, Respostas, MesmaVarredura
  <2> QED
    BY <1>3, <2>2 DEF fd_dir
<1>4. CASE abrir(w)
  <2>1. PICK a, i :
          /\ job[w].at = "abrir"
          /\ IF Conferir(a, i) = "aberto" THEN v' = v ELSE Falha(w, Conferir(a, i))
    BY <1>4, Zenon DEF abrir
  <2>2. MesmosArquivos
    BY <1>0, <1>2, <2>1, Respostas, MesmaVarredura
  <2> QED
    BY <1>4, <2>2 DEF abrir
<1>5. CASE Ler(w)
  <2>1. fase \in {"classificar", "hash_amostra", "hash_completo"}
    BY <1>5, TarefaEmCurso DEF Ler
  <2>2. MesmosArquivos
    BY <1>0, <1>5, <2>1, LerMuda, MesmaVarredura DEF LerPasso, SoMuda
  <2> QED
    BY <1>5, <2>2 DEF Ler
<1> QED
  BY <1>1, <1>3, <1>4, <1>5 DEF Worker

LEMMA MesmosAndados ==
    ASSUME MesmosArquivos, Andado(v)
    PROVE  Andado(v')
<1>1. PICK D, P : Percurso(v, D, P, Pendentes(v.pilha)) /\ PilhaOK(v.pilha, D, P)
  BY DEF Andado
<1>2. PICK x : x = v'
  OBVIOUS
<1>3. MesmoAchado(v, x) /\ x.pilha = v.pilha
  BY <1>2 DEF MesmosArquivos, MesmoAchado, Achado, Arqs
<1>4. Percurso(x, D, P, Pendentes(v.pilha))
  BY <1>1, <1>3, PercursoIgual
<1>5. Andado(x)
  BY <1>1, <1>3, <1>4 DEF Andado
<1> QED
  BY <1>2, <1>5

LEMMA WalkStep ==
    ASSUME IInv, WalkOK, [Next]_vars
    PROVE  WalkOK'
<1> SUFFICES ASSUME edits' = 0
             PROVE  /\ tree' \in Trees
                    /\ fase' # "inicio" => Andado(v)'
                    /\ Varrida' => v'.pilha = <<>>
  BY DEF WalkOK
<1>1. edits \in Nat
  BY DEF IInv, TypeOK
<1>2. CASE Programs
  <2>1. edits' = edits + 1
    BY <1>2, NovosCarimbos DEF IInv
  <2> QED
    BY <1>1, <2>1
<1>3. CASE varrer_arvore
  <2>1. tree' = tree /\ edits' = edits /\ fase' = "varrer"
    BY <1>3 DEF varrer_arvore, VarrerRaiz, Descer, Subir, fsVars
  <2>2. Andado(v')
    BY <1>3, <2>1, VarrerAndado DEF WalkOK
  <2> QED
    BY <2>1, <2>2, AndadoDepois DEF WalkOK, Varrida
<1>4. ASSUME tree' = tree, edits' = edits, v' = v, fase # "inicio",
             Varrida' => v.pilha = <<>>
      PROVE  tree' \in Trees /\ (fase' # "inicio" => Andado(v)') /\ (Varrida' => v'.pilha = <<>>)
  <2>1. Andado(v')
    BY <1>4 DEF WalkOK
  <2> QED
    BY <1>4, <2>1, AndadoDepois DEF WalkOK
<1>5. CASE etapa_dedup
  <2>1. CASE Classificar
    BY <1>4, <2>1 DEF Classificar, ComecarFase, fsVars
  <2>2. CASE HashAmostra
    BY <1>4, <2>2 DEF HashAmostra, ComecarFase, fsVars, WalkOK, Varrida
  <2>3. CASE HashCompletos
    <3>1. fase = "hash_amostra" /\ UNCHANGED <<fsVars, v>>
      BY <2>3, Zenon DEF HashCompletos, ComecarFase
    <3> QED
      BY <1>4, <3>1 DEF fsVars, WalkOK, Varrida
  <2>4. CASE FimDedup
    BY <1>4, <2>4 DEF FimDedup, fsVars, WalkOK, Varrida
  <2> QED
    BY <1>5, <2>1, <2>2, <2>3, <2>4 DEF etapa_dedup
<1>6. CASE \E w \in Workers : Worker(w)
  <2>1. PICK w \in Workers : Worker(w)
    BY <1>6
  <2>2. MesmosArquivos /\ tree' = tree /\ edits' = edits /\ fase' = fase
    BY <2>1, TarefaMesma DEF fsVars
  <2>3. fase # "inicio" => Andado(v)'
    BY <2>2, MesmosAndados, AndadoDepois DEF WalkOK
  <2> QED
    BY <2>2, <2>3 DEF WalkOK, Varrida, MesmosArquivos
<1>7. CASE UNCHANGED vars
  <2>1. tree' = tree /\ edits' = edits /\ v' = v /\ fase' = fase
    BY <1>7 DEF vars, fsVars
  <2>2. fase # "inicio" => Andado(v)'
    BY <2>1, AndadoDepois DEF WalkOK
  <2> QED
    BY <2>1, <2>2 DEF WalkOK, Varrida
<1> QED
  BY <1>2, <1>3, <1>5, <1>6, <1>7 DEF Next

LEMMA InitWalk == Init => WalkOK
BY DEF Init, WalkOK, Varrida

----------------------------------------------------------------------------
(***************************************************************************)
(* The readers, in a tree that nobody changes.                             *)
(***************************************************************************)
\* dirs is a tree of numbers: a directory comes after the one it was found in.
Ordenados == v.dirs # <<>> /\ \A k \in 2..Len(v.dirs) : v.dirs[k][1] \in 1..(k - 1)

Acima(S) == \A k \in S : k # 1 => v.dirs[k][1] \in S

LEMMA LinhagemPassos ==
    ASSUME v \in Varreduras, Ordenados
    PROVE  /\ Linhagem[1] = {1}
           /\ \A k \in 2..Len(v.dirs) : Linhagem[k] = {k} \cup Linhagem[v.dirs[k][1]]
<1> DEFINE N == DOMAIN v.dirs
           f == [d \in N |-> {k \in N : \A S \in SUBSET N : d \in S /\ Acima(S) => k \in S}]
           Eq(g) == g = [d \in N |-> IF d = 1 THEN {1} ELSE {d} \cup g[v.dirs[d][1]]]
<1>1. /\ N = 1..Len(v.dirs) /\ Len(v.dirs) \in Nat \ {0} /\ 1 \in N
      /\ \A k \in N : k # 1 => k \in 2..Len(v.dirs) /\ v.dirs[k][1] \in N
      /\ \A k \in 2..Len(v.dirs) : k \in N /\ k # 1
  <2>1. N = 1..Len(v.dirs) /\ Len(v.dirs) \in Nat \ {0}
    BY DEF Varreduras, Ordenados
  <2> HIDE DEF N
  <2> QED
    BY <2>1 DEF Ordenados
<1>2. f[1] = {1}
  <2>1. {1} \in SUBSET N /\ Acima({1})
    BY <1>1 DEF Acima
  <2> HIDE DEF N
  <2> QED
    BY <1>1, <2>1
<1>3. ASSUME NEW d \in N, d # 1 PROVE f[d] = {d} \cup f[v.dirs[d][1]]
  <2> DEFINE p == v.dirs[d][1]
  <2>1. p \in N
    BY <1>1, <1>3
  <2> HIDE DEF N
  <2>2. f[d] = {k \in N : \A S \in SUBSET N : d \in S /\ Acima(S) => k \in S}
    OBVIOUS
  <2>3. f[p] = {k \in N : \A S \in SUBSET N : p \in S /\ Acima(S) => k \in S}
    BY <2>1
  <2>4. p \in f[p]
    BY <2>1, <2>3
  <2> HIDE DEF f
  <2>5. ASSUME NEW k \in {d} \cup f[p] PROVE k \in f[d]
    <3>1. ASSUME NEW S \in SUBSET N, d \in S, Acima(S) PROVE k \in S
      <4>1. p \in S
        BY <1>3, <3>1 DEF Acima
      <4> QED
        BY <2>3, <3>1, <4>1
    <3> QED
      BY <2>2, <2>3, <3>1
  <2>6. ASSUME NEW k \in f[d] PROVE k \in {d} \cup f[p]
    <3>1. Acima(f[p])
      <4> SUFFICES ASSUME NEW m \in f[p], m # 1 PROVE v.dirs[m][1] \in f[p]
        BY DEF Acima
      <4>1. m \in N /\ v.dirs[m][1] \in N
        BY <1>1, <2>3
      <4>2. ASSUME NEW S \in SUBSET N, p \in S, Acima(S) PROVE v.dirs[m][1] \in S
        BY <2>3, <4>2 DEF Acima
      <4> QED
        BY <2>3, <4>1, <4>2
    <3>2. Acima({d} \cup f[p])
      BY <2>4, <3>1 DEF Acima
    <3>3. {d} \cup f[p] \in SUBSET N
      BY <2>3
    <3> QED
      BY <2>2, <3>2, <3>3
  <2> QED
    BY <2>5, <2>6
<1>4. Eq(f)
  <2>1. ASSUME NEW d \in N PROVE f[d] = IF d = 1 THEN {1} ELSE {d} \cup f[v.dirs[d][1]]
    BY <1>2, <1>3
  <2>2. f = [d \in N |-> f[d]]
    OBVIOUS
  <2> HIDE DEF f
  <2> QED
    BY <2>1, <2>2
<1>5. Linhagem = CHOOSE g : Eq(g)
  BY DEF Linhagem
<1> HIDE DEF f
<1>6. Eq(Linhagem)
  <2> HIDE DEF Eq
  <2> QED
    BY <1>4, <1>5
<1> HIDE DEF N
<1>7. \A d \in N : Linhagem[d] = IF d = 1 THEN {1} ELSE {d} \cup Linhagem[v.dirs[d][1]]
  BY <1>6, Zenon
<1> QED
  BY <1>1, <1>7

\* The directories above one: nothing of them lies between a number and the one above it.
Corrente(d) ==
    /\ Linhagem[d] \subseteq 1..d /\ 1 \in Linhagem[d] /\ d \in Linhagem[d]
    /\ \A k \in Linhagem[d] : k # 1 =>
          v.dirs[k][1] \in Linhagem[d] /\ \A m \in Linhagem[d] : m < k => m <= v.dirs[k][1]

LEMMA Correntes ==
    ASSUME v \in Varreduras, Ordenados, NEW d \in 1..Len(v.dirs)
    PROVE  Corrente(d)
<1> DEFINE N == Len(v.dirs)
           S == {n \in Nat : \A k \in 1..N : k <= n => Corrente(k)}
<1>0. N \in Nat
  BY DEF Varreduras
<1>1. 0 \in S
  OBVIOUS
<1>2. ASSUME NEW n \in Nat, n \in S PROVE n + 1 \in S
  <2> SUFFICES ASSUME NEW k \in 1..N, k <= n + 1 PROVE Corrente(k)
    BY <1>2
  <2>1. CASE k = 1
    BY <2>1, LinhagemPassos DEF Corrente
  <2>2. CASE k # 1
    <3> DEFINE p == v.dirs[k][1]
    <3>1. k \in 2..N
      BY <2>2
    <3>2. p \in 1..(k - 1)
      BY <3>1 DEF Ordenados
    <3>3. Linhagem[k] = {k} \cup Linhagem[p]
      BY <3>1, LinhagemPassos
    <3> HIDE DEF p
    <3>4. p \in 1..N /\ p <= n /\ p < k /\ p \in Nat
      BY <1>0, <3>1, <3>2
    <3>5. Corrente(p)
      BY <1>2, <3>4
    <3>6. Linhagem[p] \subseteq 1..p /\ 1 \in Linhagem[p] /\ p \in Linhagem[p]
      BY <3>5 DEF Corrente
    <3>7. \A m \in Linhagem[p] : m \in Nat /\ m <= p /\ m < k /\ m \in 1..k
      BY <3>4, <3>6
    <3>8. Linhagem[k] \subseteq 1..k /\ 1 \in Linhagem[k] /\ k \in Linhagem[k]
      BY <3>3, <3>6, <3>7
    <3>9. ASSUME NEW j \in Linhagem[k], j # 1
          PROVE  v.dirs[j][1] \in Linhagem[k] /\ \A m \in Linhagem[k] : m < j => m <= v.dirs[j][1]
      <4>1. CASE j = k
        <5>1. v.dirs[j][1] = p /\ p \in Linhagem[k]
          BY <3>3, <3>6, <4>1 DEF p
        <5>2. \A m \in Linhagem[k] : m < j => m <= p
          BY <3>3, <3>7, <4>1
        <5> QED
          BY <5>1, <5>2
      <4>2. CASE j \in Linhagem[p]
        <5>1. v.dirs[j][1] \in Linhagem[p] /\ \A m \in Linhagem[p] : m < j => m <= v.dirs[j][1]
          BY <3>5, <3>9, <4>2 DEF Corrente
        <5>2. ~(k < j)
          BY <3>7, <4>2
        <5> QED
          BY <3>3, <5>1, <5>2
      <4> QED
        BY <3>3, <4>1, <4>2
    <3> QED
      BY <3>8, <3>9 DEF Corrente
  <2> QED
    BY <2>1, <2>2
<1> HIDE DEF S
<1>3. Nat \subseteq S
  BY <1>1, <1>2, SetInduction
<1>4. d \in Nat /\ d <= d
  BY <1>0
<1> QED
  BY <1>3, <1>4 DEF S

\* What a reader keeps open under a number is the directory the walk met there.
Aberta == [did : Nat, dir : Nodes]
CacheOK(D) ==
    \A w \in Workers, k \in Nat : k \in 1..Len(cache[w]) =>
        cache[w][k].did \in Numeros(v) /\ cache[w][k].dir = D[cache[w][k].did]

LeitoresOK ==
    edits = 0 =>
        /\ cache \in [Workers -> Seq(Aberta)]
        /\ fase \in Andando => \A w \in Workers : cache[w] = <<>>
        /\ fase \notin Andando => \E D, P : Percurso(v, D, P, {}) /\ CacheOK(D)

LEMMA AbertoDe ==
    ASSUME NEW D, NEW P, Percurso(v, D, P, {}), CacheOK(D), NEW w \in Workers,
           cache[w] \in Seq(Aberta), NEW k \in Numeros(v)
    PROVE  Aberto(w, k) = None \/ Aberto(w, k) = D[k]
<1>1. CASE k = 1
  BY <1>1 DEF Aberto, Percurso, Mapa
<1>2. CASE k # 1
  <2> DEFINE ks == {j \in DOMAIN cache[w] : cache[w][j].did = k}
             j == CHOOSE i \in ks : TRUE
  <2>1. Aberto(w, k) = IF ks = {} THEN None ELSE cache[w][j].dir
    BY <1>2 DEF Aberto
  <2>2. CASE ks # {}
    <3>1. j \in ks
      BY <2>2
    <3>2. DOMAIN cache[w] = 1..Len(cache[w]) /\ Len(cache[w]) \in Nat
      OBVIOUS
    <3> HIDE DEF j
    <3>3. j \in 1..Len(cache[w]) /\ j \in Nat /\ cache[w][j].did = k
      BY <3>1, <3>2
    <3> HIDE DEF ks
    <3> QED
      BY <2>1, <2>2, <3>3 DEF CacheOK
  <2> QED
    BY <2>1, <2>2
<1> QED
  BY <1>1, <1>2

\* The directory a reader opens next is one the walk entered, below one the reader has.
LEMMA FdDirAbre ==
    ASSUME IInv, NEW D, NEW P, Percurso(v, D, P, {}), CacheOK(D), NEW w \in Workers,
           cache[w] \in Seq(Aberta), fd_dir(w)
    PROVE  /\ v' = v /\ job' = job
           /\ \E did \in Numeros(v) :
                 cache' = [cache EXCEPT ![w] = Guardar(@, [did |-> did, dir |-> D[did]])]
<1> DEFINE alvo == v.arquivos[job[w].i].dir
           did == Faltando(w, alvo)
           a == v.dirs[did][1]
           n == v.dirs[did][2]
           pai == Aberto(w, a)
           abertos == {k \in Linhagem[alvo] : Aberto(w, k) # None}
           m == Max(abertos)
<1>1. v \in Varreduras /\ job[w].at = "abrir" /\ job[w].i \in Arqs /\ Aberto(w, alvo) = None
  BY TarefaEmCurso DEF fd_dir
<1>2. Ordenados /\ D \in [Numeros(v) -> Dirs] /\ Numeros(v) = 1..Len(v.dirs) /\ Len(v.dirs) \in Nat
  <2>1. Ordenados
    BY DEF Percurso, Mapa, Ordenados
  <2>2. D \in [Numeros(v) -> Dirs]
    BY DEF Percurso, Mapa
  <2>3. Numeros(v) = 1..Len(v.dirs) /\ Len(v.dirs) \in Nat
    BY <1>1 DEF Numeros, Varreduras
  <2> QED
    BY <2>1, <2>2, <2>3
<1>3. alvo \in 1..Len(v.dirs)
  BY <1>1 DEF Percurso, ArquivosOK, Arqs, Numeros
<1>4. IF AbreDir(pai, n) = "aberto"
         THEN /\ cache' = [cache EXCEPT ![w] = Guardar(@, [did |-> did, dir |-> tree[pai][n]])]
              /\ UNCHANGED <<job, v>>
         ELSE Falha(w, AbreDir(pai, n)) /\ UNCHANGED cache
  BY DEF fd_dir
<1> HIDE DEF alvo
<1>5. Corrente(alvo)
  BY <1>1, <1>2, <1>3, Correntes
<1>6. /\ Linhagem[alvo] \subseteq 1..alvo /\ 1 \in Linhagem[alvo] /\ alvo \in Linhagem[alvo]
      /\ alvo \in Nat /\ Linhagem[alvo] \subseteq Nat
  <2>1. Linhagem[alvo] \subseteq 1..alvo /\ 1 \in Linhagem[alvo] /\ alvo \in Linhagem[alvo] /\ alvo \in Nat
    BY <1>3, <1>5 DEF Corrente
  <2> QED
    BY <2>1
<1>7. 1 \in abertos /\ abertos \in SUBSET (1..alvo)
  <2>1. Aberto(w, 1) = Root /\ Root # None
    BY NodesAssumption DEF Aberto
  <2> QED
    BY <1>6, <2>1
<1>8. m \in abertos /\ \A k \in abertos : k <= m
  <2> HIDE DEF abertos
  <2> QED
    BY <1>6, <1>7, MaxOf
<1>9. /\ m \in Linhagem[alvo] /\ Aberto(w, m) # None /\ m # alvo /\ m \in Nat /\ m < alvo /\ m >= 1
  <2>1. m \in Linhagem[alvo] /\ Aberto(w, m) # None
    BY <1>8
  <2> HIDE DEF m
  <2>2. m \in 1..alvo /\ m # alvo
    BY <1>1, <1>6, <2>1
  <2> QED
    BY <1>6, <2>1, <2>2
<1> DEFINE T == {k \in Linhagem[alvo] : k > m}
<1>10. did \in T /\ \A k \in T : did <= k
  <2>1. did = CHOOSE k \in Linhagem[alvo] : k > m /\ \A j \in Linhagem[alvo] : j > m => k <= j
    BY DEF Faltando
  <2> HIDE DEF m, did
  <2>2. alvo \in T /\ T \subseteq Nat
    BY <1>6, <1>9
  <2>3. PICK k \in T : \A j \in T : k <= j
    <3> HIDE DEF T
    <3> QED
      BY <2>2, LeastNatural
  <2>4. \E i \in Linhagem[alvo] : i > m /\ \A j \in Linhagem[alvo] : j > m => i <= j
    BY <2>3
  <2>5. did \in Linhagem[alvo] /\ did > m /\ \A j \in Linhagem[alvo] : j > m => did <= j
    BY <2>1, <2>4
  <2> QED
    BY <2>5
<1> HIDE DEF abertos, m, did
<1>11. did \in Linhagem[alvo] /\ did > m /\ did \in Nat /\ did # 1 /\ did \in 2..Len(v.dirs) /\ did <= alvo
  <2>1. did \in Linhagem[alvo] /\ did > m /\ did \in 1..alvo
    BY <1>6, <1>10
  <2> QED
    BY <1>2, <1>3, <1>9, <2>1
<1>12. a \in Linhagem[alvo] /\ m <= a /\ a \in 1..(did - 1) /\ a \in Nat
  <2>1. a \in Linhagem[alvo] /\ m <= a
    BY <1>5, <1>9, <1>11 DEF Corrente
  <2>2. a \in 1..(did - 1)
    BY <1>2, <1>11 DEF Ordenados
  <2> QED
    BY <1>6, <2>1, <2>2
<1>13. a = m
  <2> HIDE DEF a
  <2>1. ~(a > m)
    <3> SUFFICES ASSUME a > m PROVE FALSE
      OBVIOUS
    <3>1. did <= a
      BY <1>10, <1>12
    <3> QED
      BY <1>11, <1>12, <3>1
  <2> QED
    BY <1>9, <1>12, <2>1
<1>14. a \in Numeros(v) /\ did \in Numeros(v)
  <2> HIDE DEF a
  <2> QED
    BY <1>2, <1>11, <1>12
<1>15. pai = D[a]
  BY <1>9, <1>13, <1>14, AbertoDe
<1>16. Desce(D[a], n, D[did]) /\ D[did] \in Dirs
  BY <1>2, <1>11, <1>14 DEF Percurso, Mapa
<1>17. tree[pai][n] = D[did] /\ Perm[D[did]] # "none"
  BY <1>15, <1>16 DEF Desce
<1>18. AbreDir(pai, n) = "aberto"
  BY <1>16, <1>17, NodesAssumption DEF AbreDir, Dirs
<1> HIDE DEF a, n, pai
<1> QED
  BY <1>4, <1>14, <1>17, <1>18

\* The file a reader opens is the one of the record: it fails only on a file that
\* cannot be opened.
LEMMA AbrirCerto ==
    ASSUME IInv, NEW D, NEW P, Percurso(v, D, P, {}), CacheOK(D), NEW w \in Workers,
           cache[w] \in Seq(Aberta), abrir(w), NEW f, f = v.arquivos[job[w].i].ino
    PROVE  /\ Perm[f] = "none" => Falha(w, "sem_permissao_leitura")
           /\ Perm[f] # "none" => v' = v /\ job' = [job EXCEPT ![w].at = "ler", ![w].ino = f]
<1> DEFINE a == v.arquivos[job[w].i]
           i == tree[Aberto(w, a.dir)][a.nome]
<1>1. job[w].i \in Arqs /\ a \in Registro
  BY TarefaEmCurso DEF abrir
<1>2. a.dir \in Numeros(v) /\ tree[D[a.dir]][a.nome] = f
  BY <1>1 DEF Percurso, ArquivosOK, Arqs
<1>3. Aberto(w, a.dir) = D[a.dir]
  BY <1>2, AbertoDe DEF abrir
<1>4. i = f /\ a.ino = f /\ f \in Files
  BY <1>1, <1>2, <1>3 DEF Registro
<1>5. f # None /\ Kind[f] = "file"
  BY <1>4, NodesAssumption DEF Files
<1>6. Conferir(a, i) = IF Perm[f] = "none" THEN "sem_permissao_leitura" ELSE "aberto"
  <2> HIDE DEF a, i
  <2> QED
    BY <1>4, <1>5 DEF Conferir
<1>7. IF Conferir(a, i) = "aberto"
         THEN job' = [job EXCEPT ![w].at = "ler", ![w].ino = i] /\ UNCHANGED v
         ELSE Falha(w, Conferir(a, i))
  BY DEF abrir
<1> HIDE DEF a, i
<1> QED
  BY <1>4, <1>6, <1>7

LEMMA GuardarTipo ==
    ASSUME NEW c \in Seq(Aberta), NEW e \in Aberta
    PROVE  /\ Guardar(c, e) \in Seq(Aberta)
           /\ \A k \in 1..Len(Guardar(c, e)) :
                 Guardar(c, e)[k] = e \/ \E j \in 1..Len(c) : Guardar(c, e)[k] = c[j]
<1> DEFINE t == Append(c, e)
<1>1. /\ t \in Seq(Aberta) /\ t # <<>> /\ Len(t) = Len(c) + 1 /\ Len(c) \in Nat
      /\ \A k \in 1..Len(t) : t[k] = IF k = Len(t) THEN e ELSE c[k]
  OBVIOUS
<1>2. \A k \in 1..Len(t) : t[k] = e \/ \E j \in 1..Len(c) : t[k] = c[j]
  <2>1. \A k \in 1..Len(t) : k = Len(t) \/ k \in 1..Len(c)
    BY <1>1
  <2> HIDE DEF t
  <2> QED
    BY <1>1, <2>1
<1>3. Guardar(c, e) = t \/ Guardar(c, e) = Tail(t)
  BY DEF Guardar
<1> HIDE DEF t
<1>4. Tail(t) \in Seq(Aberta) /\ Len(Tail(t)) = Len(t) - 1
      /\ \A k \in 1..Len(Tail(t)) : k + 1 \in 1..Len(t) /\ Tail(t)[k] = t[k + 1]
  BY <1>1
<1>5. CASE Guardar(c, e) = t
  BY <1>1, <1>2, <1>5
<1>6. CASE Guardar(c, e) = Tail(t)
  <2>1. \A k \in 1..Len(Tail(t)) : Tail(t)[k] = e \/ \E j \in 1..Len(c) : Tail(t)[k] = c[j]
    BY <1>2, <1>4
  <2> QED
    BY <1>4, <1>6, <2>1
<1> QED
  BY <1>3, <1>5, <1>6

LEMMA CacheGuardado ==
    ASSUME cache \in [Workers -> Seq(Aberta)], NEW D, CacheOK(D), v'.dirs = v.dirs,
           NEW w \in Workers, NEW did \in Numeros(v), [did |-> did, dir |-> D[did]] \in Aberta,
           cache' = [cache EXCEPT ![w] = Guardar(@, [did |-> did, dir |-> D[did]])]
    PROVE  cache' \in [Workers -> Seq(Aberta)] /\ CacheOK(D)'
<1> DEFINE e == [did |-> did, dir |-> D[did]]
           c == Guardar(cache[w], e)
<1>1. e.did = did /\ e.dir = D[did] /\ e \in Aberta
  OBVIOUS
<1> HIDE DEF e
<1>2. c \in Seq(Aberta) /\ \A k \in 1..Len(c) : c[k] = e \/ \E j \in 1..Len(cache[w]) : c[k] = cache[w][j]
  BY <1>1, GuardarTipo
<1>3. cache' = [cache EXCEPT ![w] = c]
  BY DEF e
<1> HIDE DEF c
<1>4. cache' \in [Workers -> Seq(Aberta)] /\ \A u \in Workers : cache'[u] = IF u = w THEN c ELSE cache[u]
  BY <1>2, <1>3
<1>5. Numeros(v)' = Numeros(v)
  BY DEF Numeros
<1>6. ASSUME NEW u \in Workers, NEW k \in Nat, k \in 1..Len(cache'[u])
      PROVE  cache'[u][k].did \in Numeros(v) /\ cache'[u][k].dir = D[cache'[u][k].did]
  <2>1. CASE u = w
    <3>1. k \in 1..Len(c) /\ cache'[u][k] = c[k]
      BY <1>4, <1>6, <2>1
    <3>2. CASE c[k] = e
      BY <1>1, <3>1, <3>2
    <3>3. ASSUME NEW j \in 1..Len(cache[w]), c[k] = cache[w][j]
          PROVE  cache'[u][k].did \in Numeros(v) /\ cache'[u][k].dir = D[cache'[u][k].did]
      <4>1. j \in Nat
        OBVIOUS
      <4> QED
        BY <3>1, <3>3, <4>1 DEF CacheOK
    <3> QED
      BY <1>2, <3>1, <3>2, <3>3
  <2>2. CASE u # w
    BY <1>4, <1>6, <2>2 DEF CacheOK
  <2> QED
    BY <2>1, <2>2
<1> QED
  BY <1>4, <1>5, <1>6 DEF CacheOK

LEMMA CacheIgual ==
    ASSUME cache' = cache, v'.dirs = v.dirs, NEW D, CacheOK(D)
    PROVE  CacheOK(D)'
BY DEF CacheOK, Numeros

LEMMA CacheVazio ==
    ASSUME cache' = [w \in Workers |-> <<>>], NEW D
    PROVE  cache' \in [Workers -> Seq(Aberta)] /\ CacheOK(D)'
<1>1. <<>> \in Seq(Aberta) /\ Len(<<>>) = 0 /\ \A k \in Nat : k \notin 1..0
  OBVIOUS
<1>2. \A w \in Workers : cache'[w] = <<>>
  OBVIOUS
<1>3. cache' \in [Workers -> Seq(Aberta)]
  BY <1>1
<1> QED
  BY <1>1, <1>2, <1>3 DEF CacheOK

\* A step that keeps the records keeps the walk.
LEMMA PercursoMesmo ==
    ASSUME MesmosArquivos, tree' = tree, NEW D, NEW P, Percurso(v, D, P, {})
    PROVE  Percurso(v, D, P, {})'
<1>1. PICK x : x = v'
  OBVIOUS
<1>2. MesmoAchado(v, x)
  BY <1>1 DEF MesmosArquivos, MesmoAchado, Achado, Arqs
<1>3. Percurso(v', D, P, {})
  BY <1>1, <1>2, PercursoIgual
<1>4. PICK L : L = {}
  OBVIOUS
<1> QED
  BY <1>3, <1>4, PercursoDepois

\* When the walk has ended nothing is left of it.
LEMMA PercursoFeito ==
    ASSUME WalkOK, edits = 0, fase # "inicio", v.pilha = <<>>
    PROVE  \E D, P : Percurso(v, D, P, {})
<1>1. PICK D, P : Percurso(v, D, P, Pendentes(v.pilha))
  BY DEF WalkOK, Andado
<1>2. Len(v.pilha) = 0 /\ 1..0 = {}
  OBVIOUS
<1>3. Pendentes(v.pilha) = {}
  BY <1>2 DEF Pendentes
<1> QED
  BY <1>1, <1>3

LEMMA AbertaDe ==
    ASSUME v \in Varreduras, NEW D, NEW P, Percurso(v, D, P, {}), NEW did \in Numeros(v)
    PROVE  [did |-> did, dir |-> D[did]] \in Aberta
<1>1. D[did] \in Dirs /\ did \in Nat
  BY DEF Percurso, Mapa, Numeros, Varreduras
<1> QED
  BY <1>1 DEF Aberta, Dirs

LEMMA TarefaLeitores ==
    ASSUME IInv, LeitoresOK, edits = 0, NEW w \in Workers, Worker(w)
    PROVE  cache' \in [Workers -> Seq(Aberta)] /\ \E D, P : Percurso(v, D, P, {})' /\ CacheOK(D)'
<1>0. MesmosArquivos /\ tree' = tree /\ v'.dirs = v.dirs
  BY TarefaMesma DEF fsVars, MesmosArquivos
<1>1. fase \notin Andando
  <2>1. CASE Pegar(w)
    BY <2>1 DEF Pegar, IInv, ParadoOK
  <2>2. CASE job[w].at # "idle"
    BY <2>2, TarefaEmCurso DEF Andando
  <2> QED
    BY <2>1, <2>2 DEF Worker, fd_dir, abrir, Ler
<1>2. cache \in [Workers -> Seq(Aberta)] /\ v \in Varreduras
  BY DEF LeitoresOK, IInv, TypeOK
<1>3. PICK D, P : Percurso(v, D, P, {}) /\ CacheOK(D)
  BY <1>1 DEF LeitoresOK
<1>4. Percurso(v, D, P, {})'
  BY <1>0, <1>3, PercursoMesmo
<1>5. CASE cache' = cache
  BY <1>0, <1>2, <1>3, <1>4, <1>5, CacheIgual
<1>6. CASE fd_dir(w)
  <2>1. cache[w] \in Seq(Aberta)
    BY <1>2
  <2>2. PICK did \in Numeros(v) :
            cache' = [cache EXCEPT ![w] = Guardar(@, [did |-> did, dir |-> D[did]])]
    BY <1>3, <1>6, <2>1, FdDirAbre
  <2>3. [did |-> did, dir |-> D[did]] \in Aberta
    BY <1>2, <1>3, AbertaDe
  <2> QED
    BY <1>0, <1>2, <1>3, <1>4, <2>2, <2>3, CacheGuardado
<1> QED
  BY <1>5, <1>6 DEF Worker, Pegar, abrir, Ler

LEMMA LeitoresStep ==
    ASSUME IInv, WalkOK, LeitoresOK, [Next]_vars
    PROVE  LeitoresOK'
<1> SUFFICES ASSUME edits' = 0
             PROVE  /\ cache' \in [Workers -> Seq(Aberta)]
                    /\ fase' \in Andando => \A w \in Workers : cache'[w] = <<>>
                    /\ fase' \notin Andando => \E D, P : Percurso(v, D, P, {})' /\ CacheOK(D)'
  BY DEF LeitoresOK
<1>1. edits \in Nat
  BY DEF IInv, TypeOK
<1>2. CASE Programs
  <2>1. edits' = edits + 1
    BY <1>2, NovosCarimbos DEF IInv
  <2> QED
    BY <1>1, <2>1
<1>3. CASE varrer_arvore
  BY <1>3 DEF varrer_arvore, VarrerRaiz, Descer, Subir, fsVars, taskVars, LeitoresOK, Andando
<1>4. ASSUME edits' = edits, tree' = tree, v' = v, fase' \notin Andando, NEW D, NEW P,
             Percurso(v, D, P, {}),
             \/ cache' = [w \in Workers |-> <<>>]
             \/ cache' = cache /\ CacheOK(D)
      PROVE  cache' \in [Workers -> Seq(Aberta)] /\ Percurso(v, D, P, {})' /\ CacheOK(D)'
  <2>1. cache \in [Workers -> Seq(Aberta)] /\ MesmosArquivos
    BY <1>4, MesmaVarredura DEF LeitoresOK, IInv, TypeOK
  <2> QED
    BY <1>4, <2>1, PercursoMesmo, CacheIgual, CacheVazio
<1>5. CASE etapa_dedup
  <2>1. CASE Classificar
    <3>1. /\ fase \in Andando /\ fase # "inicio" /\ v.pilha = <<>> /\ fase' \notin Andando
          /\ edits' = edits /\ tree' = tree /\ v' = v
          /\ cache' = [w \in Workers |-> <<>>] \/ cache' = cache
      BY <2>1 DEF Classificar, ComecarFase, fsVars, Andando
    <3>2. PICK D, P : Percurso(v, D, P, {})
      BY <3>1, PercursoFeito
    <3>3. CacheOK(D)
      <4>1. \A w \in Workers : Len(cache[w]) = 0
        BY <3>1 DEF LeitoresOK
      <4> QED
        BY <4>1 DEF CacheOK
    <3> QED
      BY <1>4, <3>1, <3>2, <3>3
  <2>2. CASE HashAmostra \/ HashCompletos \/ FimDedup
    <3>1. /\ fase \notin Andando /\ fase' \notin Andando
          /\ edits' = edits /\ tree' = tree /\ v' = v
          /\ cache' = [w \in Workers |-> <<>>] \/ cache' = cache
      <4>1. CASE HashAmostra
        BY <4>1 DEF HashAmostra, ComecarFase, fsVars, Andando
      <4>2. CASE HashCompletos
        <5>1. /\ fase = "hash_amostra" /\ fase' = "hash_completo" /\ UNCHANGED <<fsVars, v>>
              /\ cache' = IF Cardinality(Workers) > 1 THEN [w \in Workers |-> <<>>] ELSE cache
          BY <4>2, Zenon DEF HashCompletos, ComecarFase
        <5> QED
          BY <5>1 DEF fsVars, Andando
      <4>3. CASE FimDedup
        BY <4>3 DEF FimDedup, fsVars, taskVars, Andando
      <4> QED
        BY <2>2, <4>1, <4>2, <4>3
    <3>2. PICK D, P : Percurso(v, D, P, {}) /\ CacheOK(D)
      BY <3>1 DEF LeitoresOK
    <3> QED
      BY <1>4, <3>1, <3>2
  <2> QED
    BY <1>5, <2>1, <2>2 DEF etapa_dedup
<1>6. CASE \E w \in Workers : Worker(w)
  <2>1. PICK w \in Workers : Worker(w)
    BY <1>6
  <2>2. edits' = edits /\ fase' = fase
    BY <2>1, TarefaMesma DEF fsVars
  <2>3. cache' \in [Workers -> Seq(Aberta)] /\ \E D, P : Percurso(v, D, P, {})' /\ CacheOK(D)'
    BY <2>1, <2>2, TarefaLeitores
  <2>4. fase \notin Andando
    <3>1. CASE Pegar(w)
      BY <3>1 DEF Pegar, IInv, ParadoOK
    <3>2. CASE job[w].at # "idle"
      BY <3>2, TarefaEmCurso DEF Andando
    <3> QED
      BY <2>1, <3>1, <3>2 DEF Worker, fd_dir, abrir, Ler
  <2> QED
    BY <2>2, <2>3, <2>4
<1>7. CASE UNCHANGED vars
  <2>1. tree' = tree /\ edits' = edits /\ v' = v /\ fase' = fase /\ cache' = cache
    BY <1>7 DEF vars, fsVars, taskVars
  <2>2. CASE fase \in Andando
    BY <2>1, <2>2 DEF LeitoresOK
  <2>3. CASE fase \notin Andando
    <3>1. PICK D, P : Percurso(v, D, P, {}) /\ CacheOK(D)
      BY <2>1, <2>3 DEF LeitoresOK
    <3> QED
      BY <1>4, <2>1, <2>3, <3>1
  <2> QED
    BY <2>2, <2>3
<1> QED
  BY <1>2, <1>3, <1>5, <1>6, <1>7 DEF Next

LEMMA InitLeitores == Init => LeitoresOK
<1> SUFFICES ASSUME Init PROVE LeitoresOK
  OBVIOUS
<1>1. <<>> \in Seq(Aberta)
  OBVIOUS
<1>2. cache \in [Workers -> Seq(Aberta)] /\ (\A w \in Workers : cache[w] = <<>>) /\ fase \in Andando
  BY <1>1 DEF Init, Andando
<1> QED
  BY <1>2 DEF LeitoresOK

----------------------------------------------------------------------------
(***************************************************************************)
(* The duplicate search, in a tree that nobody changes.                    *)
(***************************************************************************)
\* The files whose bytes etapa_dedup compares, and those it has still to read.
Comparavel(k) == Tam(k) > 0 /\ legivel(k)
Pendente(k) == k \in todo \/ \E w \in Workers : job[w].at # "idle" /\ job[w].i = k
Abrivel(k) == Perm[v.arquivos[k].ino] # "none"
Copias(j, k) == j # k /\ Comparavel(j) /\ Comparavel(k) /\ Atual(j).data = Atual(k).data
Amostra(k) == tarefa_hash_amostra(v.arquivos[k], Atual(k).data)

\* Two copies never part: both are read, or have been, and a group that has one of
\* them has the other.
CopiasOK ==
    edits = 0 =>
        /\ \A w \in Workers : job[w].at = "ler" => Perm[job[w].ino] # "none"
        /\ fase = "classificar" => \A k \in Arqs : Comparavel(k) => Pendente(k) \/ Abrivel(k)
        /\ fase \in {"hash_amostra", "hash_completo", "fim"} =>
              \A k \in Arqs : /\ Comparavel(k) => Abrivel(k)
                              /\ Pendente(k) \/ res[k].ok => Comparavel(k)
        /\ fase \in {"hash_amostra", "hash_completo"} =>
              \A j, k \in Arqs : Copias(j, k) => Pendente(k) \/ res[k].ok
        /\ fase = "hash_amostra" => \A k \in Arqs : res[k].ok => res[k] = Amostra(k)
        /\ fase = "hash_completo" => \A g \in grupos : \A j \in g, k \in Arqs : Copias(j, k) => k \in g
        /\ fase = "fim" => \A j, k \in Arqs : Copias(j, k) => \E g \in grupos : j \in g /\ k \in g
        /\ \A g \in grupos : g # {}

LEMMA Parados ==
    ASSUME IInv, edits = 0, NEW k \in Arqs
    PROVE  /\ Inalterado(k) /\ Atual(k).data \in Seq(Nat) /\ Len(Atual(k).data) = Tam(k)
           /\ Tam(k) \in Nat
<1>1. v.arquivos[k] \in Registro
  BY DEF IInv, TypeOK, Varreduras, Arqs
<1>2. v.arquivos[k].mtime \in Nat /\ v.arquivos[k].ino \in Files /\ Tam(k) \in Nat
  BY <1>1 DEF Registro, Tam
<1>3. Atual(k) \in Conteudo /\ Atual(k).mtime <= 0
  BY <1>2 DEF IInv, TypeOK, DatasOK, Atual
<1>4. Atual(k).data \in Seq(Nat) /\ Atual(k).mtime \in Nat
  BY <1>3 DEF Conteudo
<1>5. v.arquivos[k].mtime <= 0
  BY DEF IInv, RegistrosOK, Vale
<1>6. Inalterado(k)
  BY <1>2, <1>3, <1>4, <1>5 DEF Inalterado
<1> QED
  BY <1>2, <1>4, <1>6 DEF IInv, RegistrosOK, Vale, Inalterado, Atual, Tam

\* A task changes what is known of no more than one file.
Efeito(i) ==
    /\ i \in Arqs
    /\ \A k \in Arqs : k # i => /\ legivel(k)' <=> legivel(k)
                                /\ Pendente(k)' <=> Pendente(k)
                                /\ res'[k] = res[k]
    /\ Pendente(i)
    /\ fase = "classificar" => (Comparavel(i)' => Pendente(i)' \/ Abrivel(i))
    /\ fase # "classificar" =>
          /\ legivel(i)' <=> legivel(i)
          /\ Pendente(i)' \/ res'[i].ok
          /\ res'[i] = res[i] \/ (fase = "hash_amostra" => res'[i] = Amostra(i))

LEMMA CopiasTarefa ==
    ASSUME CopiasOK, edits = 0, MesmosArquivos, UNCHANGED <<fsVars, fase, grupos>>,
           fase \in {"classificar", "hash_amostra", "hash_completo"}, NEW i, Efeito(i),
           \A w \in Workers : job'[w].at = "ler" => Perm[job'[w].ino] # "none",
           \A g \in grupos : g \subseteq Arqs
    PROVE  CopiasOK'
<1>1. node' = node /\ edits' = edits /\ tree' = tree /\ fase' = fase /\ grupos' = grupos
  BY DEF fsVars
<1>2. /\ Arqs' = Arqs
      /\ \A k \in Arqs : /\ Tam(k)' = Tam(k) /\ (Abrivel(k)' <=> Abrivel(k)) /\ Atual(k)' = Atual(k)
  BY <1>1 DEF MesmosArquivos, Achado, Arqs, Tam, Abrivel, Atual
<1>3. \A k \in Arqs : Amostra(k)' = Amostra(k)
  <2>1. \A k \in Arqs : v'.arquivos[k].tam = v.arquivos[k].tam
    BY DEF MesmosArquivos, Achado
  <2> QED
    BY <1>2, <2>1 DEF Amostra, tarefa_hash_amostra
<1>4. \A k \in Arqs : k # i \/ fase # "classificar" => (Comparavel(k)' <=> Comparavel(k))
  BY <1>2 DEF Efeito, Comparavel
<1>5. CASE fase = "classificar"
  <2>1. \A k \in Arqs : Comparavel(k)' => Pendente(k)' \/ Abrivel(k)'
    BY <1>2, <1>4, <1>5 DEF CopiasOK, Efeito
  <2> QED
    BY <1>1, <1>2, <1>5, <2>1 DEF CopiasOK
<1>6. CASE fase \in {"hash_amostra", "hash_completo"}
  <2>1. \A k \in Arqs : /\ Comparavel(k)' => Abrivel(k)'
                        /\ Pendente(k)' \/ res'[k].ok => Comparavel(k)'
    BY <1>2, <1>4, <1>6 DEF CopiasOK, Efeito
  <2>2. \A j, k \in Arqs : Copias(j, k)' <=> Copias(j, k)
    BY <1>2, <1>4, <1>6 DEF Copias
  <2>3. \A j, k \in Arqs : Copias(j, k) => Pendente(k)' \/ res'[k].ok
    BY <1>6 DEF CopiasOK, Efeito
  <2>4. fase = "hash_amostra" => \A k \in Arqs : res'[k].ok => res'[k] = Amostra(k)'
    BY <1>3 DEF CopiasOK, Efeito
  <2>5. fase = "hash_completo" => \A g \in grupos : \A j \in g, k \in Arqs : Copias(j, k)' => k \in g
    <3> SUFFICES ASSUME fase = "hash_completo", NEW g \in grupos, NEW j \in g, NEW k \in Arqs, Copias(j, k)'
                 PROVE  k \in g
      OBVIOUS
    <3>1. j \in Arqs
      OBVIOUS
    <3> QED
      BY <2>2, <3>1 DEF CopiasOK
  <2>6. \A g \in grupos : g # {}
    BY DEF CopiasOK
  <2>7. \A j, k \in Arqs : Copias(j, k)' => Pendente(k)' \/ res'[k].ok
    BY <2>2, <2>3
  <2>8. fase' \in {"hash_amostra", "hash_completo"} /\ fase' # "classificar" /\ fase' # "fim"
    BY <1>1, <1>6
  <2> QED
    BY <1>1, <1>2, <2>1, <2>4, <2>5, <2>6, <2>7, <2>8, Zenon DEF CopiasOK
<1> QED
  BY <1>5, <1>6

\* Two files of the same size and hash are put together.
LEMMA AgrupaJunto ==
    ASSUME v \in Varreduras, NEW ids \in SUBSET Arqs, NEW j \in ids, NEW k \in ids, j # k,
           Tam(j) = Tam(k), res[j].h = res[k].h
    PROVE  \E g \in Agrupar(ids) : j \in g /\ k \in g
<1> DEFINE com(i) == {m \in ids : Tam(m) = Tam(i) /\ res[m].h = res[i].h}
<1>1. j \in com(j) /\ k \in com(j) /\ com(j) \subseteq Arqs
  OBVIOUS
<1>2. IsFiniteSet(Arqs)
  <2>1. Len(v.arquivos) \in Nat
    BY DEF Varreduras
  <2> QED
    BY <2>1, FS_Interval DEF Arqs
<1>3. Agrupar(ids) = {g \in {com(i) : i \in ids} : Cardinality(g) > 1}
  BY DEF Agrupar
<1> HIDE DEF com
<1>4. IsFiniteSet(com(j))
  BY <1>1, <1>2, FS_Subset
<1>5. Cardinality(com(j)) > 1
  BY <1>1, <1>4, DoisElementos
<1> QED
  BY <1>1, <1>3, <1>5

LEMMA AgrupaTodos ==
    ASSUME NEW ids, NEW g \in Agrupar(ids)
    PROVE  /\ g # {} /\ g \subseteq ids
           /\ \A j \in g, k \in ids : Tam(j) = Tam(k) /\ res[j].h = res[k].h => k \in g
<1> DEFINE com(i) == {m \in ids : Tam(m) = Tam(i) /\ res[m].h = res[i].h}
<1>1. PICK i \in ids : g = com(i)
  BY DEF Agrupar
<1>2. i \in com(i)
  OBVIOUS
<1> QED
  BY <1>1, <1>2

\* A worker that ends, or takes up, a task leaves the other tasks to the others.
LEMMA TarefasAlheias ==
    ASSUME IInv, NEW w \in Workers, NEW j, job' = [job EXCEPT ![w] = j], NEW i,
           job[w].at # "idle" => job[w].i = i, j.at # "idle" => j.i = i,
           todo' = todo \/ todo' = todo \ {i}
    PROVE  \A k \in Arqs : k # i => (Pendente(k)' <=> Pendente(k))
<1>1. \A u \in Workers : job'[u] = IF u = w THEN j ELSE job[u]
  BY DEF IInv, TypeOK
<1> SUFFICES ASSUME NEW k \in Arqs, k # i PROVE Pendente(k)' <=> Pendente(k)
  OBVIOUS
<1>2. k \in todo' <=> k \in todo
  OBVIOUS
<1>3. \A u \in Workers : job'[u].at # "idle" /\ job'[u].i = k <=> job[u].at # "idle" /\ job[u].i = k
  BY <1>1
<1> QED
  BY <1>2, <1>3 DEF Pendente

LEMMA PegarEfeito ==
    ASSUME IInv, CopiasOK, edits = 0, NEW w \in Workers, Pegar(w)
    PROVE  /\ \E i : Efeito(i)
           /\ \A u \in Workers : job'[u].at = "ler" => Perm[job'[u].ino] # "none"
<1>1. PICK i \in todo : PegarPasso(w, i)
  BY PegarMuda
<1>2. job[w].at = "idle" /\ res' = res /\ fase' = fase
  BY DEF Pegar
<1>3. i \in Arqs /\ Pendente(i) /\ todo' = todo \ {i}
  BY <1>1 DEF IInv, TypeOK, Pendente, PegarPasso
<1>4. CASE fase = "classificar" /\ Tam(i) = 0 /\ job' = job /\ SoMuda(i, "vazio")
  <2>1. \A k \in Arqs : k # i => (legivel(k)' <=> legivel(k))
    BY <1>4 DEF SoMuda, legivel
  <2>2. \A k \in Arqs : k # i => (Pendente(k)' <=> Pendente(k))
    BY <1>3, <1>4 DEF Pendente
  <2>3. Tam(i)' = 0
    BY <1>3, <1>4 DEF SoMuda, MesmosArquivos, Achado, Tam
  <2>4. ~ Comparavel(i)'
    BY <2>3 DEF Comparavel
  <2>5. Efeito(i)
    BY <1>2, <1>3, <1>4, <2>1, <2>2, <2>4 DEF Efeito
  <2> QED
    BY <1>4, <2>5 DEF CopiasOK
<1>5. CASE v' = v /\ job' = [job EXCEPT ![w] = [i |-> i, at |-> "abrir", ino |-> None]]
  <2> DEFINE j == [i |-> i, at |-> "abrir", ino |-> None]
  <2>1. job' = [job EXCEPT ![w] = j] /\ j.at = "abrir" /\ j.i = i
    BY <1>5
  <2> HIDE DEF j
  <2>2. \A k \in Arqs : k # i => (Pendente(k)' <=> Pendente(k))
    BY <1>2, <1>3, <2>1, TarefasAlheias
  <2>3. \A u \in Workers : job'[u] = IF u = w THEN j ELSE job[u]
    BY <2>1 DEF IInv, TypeOK
  <2>4. Pendente(i)'
    BY <2>1, <2>3 DEF Pendente
  <2>5. \A k \in Arqs : legivel(k)' <=> legivel(k)
    BY <1>5 DEF legivel
  <2>6. Efeito(i)
    BY <1>2, <1>3, <2>2, <2>4, <2>5 DEF Efeito
  <2> QED
    BY <2>1, <2>3, <2>6 DEF CopiasOK
<1> QED
  BY <1>1, <1>4, <1>5 DEF PegarPasso

LEMMA FdDirEfeito ==
    ASSUME IInv, CopiasOK, LeitoresOK, edits = 0, NEW w \in Workers, fd_dir(w)
    PROVE  /\ \E i : Efeito(i)
           /\ \A u \in Workers : job'[u].at = "ler" => Perm[job'[u].ino] # "none"
<1>1. job[w].at # "idle" /\ todo' = todo /\ res' = res
  BY DEF fd_dir
<1>2. fase \notin Andando /\ job[w].i \in Arqs
  BY <1>1, TarefaEmCurso DEF Andando
<1>3. cache[w] \in Seq(Aberta)
  BY DEF LeitoresOK
<1>4. PICK D, P : Percurso(v, D, P, {}) /\ CacheOK(D)
  BY <1>2 DEF LeitoresOK
<1>5. v' = v /\ job' = job
  BY <1>3, <1>4, FdDirAbre
<1>6. \A k \in Arqs : (Pendente(k)' <=> Pendente(k)) /\ (legivel(k)' <=> legivel(k))
  BY <1>1, <1>5 DEF Pendente, legivel
<1>7. PICK i \in Arqs : i = job[w].i
  BY <1>2
<1>8. Pendente(i)
  BY <1>1, <1>7 DEF Pendente
<1>9. Efeito(i)
  BY <1>1, <1>6, <1>8 DEF Efeito
<1> QED
  BY <1>5, <1>9 DEF CopiasOK

LEMMA AbrirEfeito ==
    ASSUME IInv, CopiasOK, LeitoresOK, edits = 0, NEW w \in Workers, abrir(w)
    PROVE  /\ \E i : Efeito(i)
           /\ \A u \in Workers : job'[u].at = "ler" => Perm[job'[u].ino] # "none"
<1>1. job[w].at # "idle" /\ todo' = todo /\ res' = res
  BY DEF abrir
<1>2. fase \notin Andando /\ fase \in {"classificar", "hash_amostra", "hash_completo"} /\ job[w].i \in Arqs
  BY <1>1, TarefaEmCurso DEF Andando
<1>3. cache[w] \in Seq(Aberta)
  BY DEF LeitoresOK
<1>4. PICK D, P : Percurso(v, D, P, {}) /\ CacheOK(D)
  BY <1>2 DEF LeitoresOK
<1>5. PICK i, f : i \in Arqs /\ i = job[w].i /\ f = v.arquivos[job[w].i].ino
  BY <1>2
<1>6. /\ Perm[f] = "none" => Falha(w, "sem_permissao_leitura")
      /\ Perm[f] # "none" => v' = v /\ job' = [job EXCEPT ![w].at = "ler", ![w].ino = f]
  BY <1>3, <1>4, <1>5, AbrirCerto
<1>7. Pendente(i)
  BY <1>1, <1>5 DEF Pendente
<1>8. CASE Perm[f] # "none"
  <2> DEFINE j == [job[w] EXCEPT !.at = "ler", !.ino = f]
  <2>1. job' = [job EXCEPT ![w] = j]
    BY <1>6, <1>8 DEF IInv, TypeOK
  <2>2. j.at = "ler" /\ j.i = i /\ j.ino = f
    BY <1>5 DEF IInv, TypeOK
  <2> HIDE DEF j
  <2>3. \A k \in Arqs : k # i => (Pendente(k)' <=> Pendente(k))
    BY <1>1, <1>5, <2>1, <2>2, TarefasAlheias
  <2>4. \A u \in Workers : job'[u] = IF u = w THEN j ELSE job[u]
    BY <2>1 DEF IInv, TypeOK
  <2>5. Pendente(i)'
    BY <2>2, <2>4 DEF Pendente
  <2>6. \A k \in Arqs : legivel(k)' <=> legivel(k)
    BY <1>6, <1>8 DEF legivel
  <2>7. Efeito(i)
    BY <1>1, <1>2, <1>5, <1>7, <2>3, <2>5, <2>6 DEF Efeito
  <2>8. \A u \in Workers : job'[u].at = "ler" => Perm[job'[u].ino] # "none"
    BY <1>8, <2>2, <2>4 DEF CopiasOK
  <2> QED
    BY <2>7, <2>8
<1>9. CASE Perm[f] = "none"
  <2>1. fase = "classificar"
    <3> SUFFICES ASSUME fase \in {"hash_amostra", "hash_completo"} PROVE FALSE
      BY <1>2
    <3>1. Comparavel(i) /\ Abrivel(i)
      BY <1>5, <1>7 DEF CopiasOK
    <3> QED
      BY <1>5, <1>9, <3>1 DEF Abrivel
  <2>2. SoMuda(i, "ilegivel") /\ job' = [job EXCEPT ![w] = NoJob]
    BY <1>1, <1>5, <1>6, <1>9, <2>1, FalhaMuda DEF Motivos
  <2>3. \A k \in Arqs : k # i => (Pendente(k)' <=> Pendente(k))
    BY <1>1, <1>5, <2>2, JobOcioso, TarefasAlheias
  <2>4. \A k \in Arqs : k # i => (legivel(k)' <=> legivel(k))
    BY <2>2 DEF SoMuda, legivel
  <2>5. ~ Comparavel(i)'
    BY <2>2 DEF SoMuda, Comparavel, legivel
  <2>6. Efeito(i)
    BY <1>1, <1>5, <1>7, <2>1, <2>3, <2>4, <2>5 DEF Efeito
  <2>7. \A u \in Workers : job'[u] = IF u = w THEN NoJob ELSE job[u]
    BY <2>2 DEF IInv, TypeOK
  <2> QED
    BY <2>6, <2>7, JobOcioso DEF CopiasOK
<1> QED
  BY <1>8, <1>9

LEMMA LerEfeito ==
    ASSUME IInv, CopiasOK, edits = 0, NEW w \in Workers, Ler(w)
    PROVE  /\ \E i : Efeito(i)
           /\ \A u \in Workers : job'[u].at = "ler" => Perm[job'[u].ino] # "none"
<1>1. PICK i : i = job[w].i
  OBVIOUS
<1>2. job[w].at = "ler" /\ todo' = todo /\ job' = [job EXCEPT ![w] = NoJob]
  BY DEF Ler
<1>3. /\ i \in Arqs /\ fase \in {"classificar", "hash_amostra", "hash_completo"}
      /\ job[w].ino = v.arquivos[i].ino /\ res \in [Arqs -> Resultado]
  BY <1>1, <1>2, TarefaEmCurso
<1>4. Abrivel(i) /\ Pendente(i)
  BY <1>1, <1>2, <1>3 DEF CopiasOK, Abrivel, Pendente
<1>5. \A k \in Arqs : k # i => (Pendente(k)' <=> Pendente(k))
  BY <1>1, <1>2, JobOcioso, TarefasAlheias
<1>6. LerPasso(i, v.arquivos[i], Atual(i).data)
  BY <1>1, <1>3, LerMuda DEF Atual
<1>7. ASSUME fase = "classificar" PROVE Efeito(i)
  <2>1. res' = res /\ \E c \in {"vazio", "conteudo"} : SoMuda(i, c)
    BY <1>6, <1>7 DEF LerPasso
  <2>2. \A k \in Arqs : k # i => (legivel(k)' <=> legivel(k))
    BY <2>1 DEF SoMuda, legivel
  <2> QED
    BY <1>3, <1>4, <1>5, <1>7, <2>1, <2>2 DEF Efeito
<1>8. ASSUME NEW t, t.ok, fase = "hash_amostra" => t = Amostra(i), fase # "classificar",
             v' = v, res' = [res EXCEPT ![i] = t]
      PROVE  Efeito(i)
  <2>1. \A k \in Arqs : legivel(k)' <=> legivel(k)
    BY <1>8 DEF legivel
  <2>2. \A k \in Arqs : res'[k] = IF k = i THEN t ELSE res[k]
    BY <1>3, <1>8
  <2>3. res'[i] = t /\ \A k \in Arqs : k # i => res'[k] = res[k]
    BY <1>3, <2>2
  <2>4. fase = "hash_amostra" => res'[i] = Amostra(i)
    BY <1>8, <2>3
  <2>5. res'[i].ok
    BY <1>8, <2>3
  <2> QED
    BY <1>3, <1>4, <1>5, <1>8, <2>1, <2>3, <2>4, <2>5 DEF Efeito
<1>9. ASSUME fase = "hash_amostra" PROVE Efeito(i)
  <2> PICK t : t = Amostra(i)
    OBVIOUS
  <2>1. v' = v /\ res' = [res EXCEPT ![i] = t]
    BY <1>6, <1>9 DEF LerPasso, Amostra
  <2>2. t.ok
    BY DEF Amostra, tarefa_hash_amostra
  <2> QED
    BY <1>8, <1>9, <2>1, <2>2
<1>10. ASSUME fase = "hash_completo" PROVE Efeito(i)
  <2> PICK t : t = tarefa_hash_completo(v.arquivos[i], Atual(i).data)
    OBVIOUS
  <2>1. v' = v /\ res' = [res EXCEPT ![i] = t]
    BY <1>6, <1>10 DEF LerPasso
  <2>2. t.ok
    BY DEF tarefa_hash_completo
  <2> QED
    BY <1>8, <1>10, <2>1, <2>2
<1>11. \A u \in Workers : job'[u] = IF u = w THEN NoJob ELSE job[u]
  BY <1>2 DEF IInv, TypeOK
<1>12. \A u \in Workers : job'[u].at = "ler" => Perm[job'[u].ino] # "none"
  BY <1>11, JobOcioso DEF CopiasOK
<1> QED
  BY <1>3, <1>7, <1>9, <1>10, <1>12

\* A step of etapa_dedup finds the pool idle: what has a size to compare was read, and
\* of two copies both were.
LEMMA TodosLidos ==
    ASSUME IInv, CopiasOK, edits = 0, Ociosos
    PROVE  /\ \A k \in Arqs : ~ Pendente(k)
           /\ fase = "classificar" => \A k \in Arqs : Comparavel(k) => Abrivel(k)
           /\ fase \in {"hash_amostra", "hash_completo"} =>
                 \A j, k \in Arqs : Copias(j, k) => /\ res[j].ok /\ res[k].ok
                                                    /\ Tam(j) = Tam(k) /\ j # k /\ Copias(k, j)
<1>1. \A k \in Arqs : ~ Pendente(k)
  BY DEF Ociosos, Pendente
<1>2. fase = "classificar" => \A k \in Arqs : Comparavel(k) => Abrivel(k)
  BY <1>1 DEF CopiasOK
<1>3. ASSUME fase \in {"hash_amostra", "hash_completo"}, NEW j \in Arqs, NEW k \in Arqs, Copias(j, k)
      PROVE  res[j].ok /\ res[k].ok /\ Tam(j) = Tam(k) /\ j # k /\ Copias(k, j)
  <2>1. Copias(k, j) /\ j # k /\ Atual(j).data = Atual(k).data
    BY <1>3 DEF Copias
  <2>2. res[j].ok /\ res[k].ok
    BY <1>1, <1>3, <2>1 DEF CopiasOK
  <2>3. Tam(j) = Tam(k)
    BY <2>1, Parados
  <2> QED
    BY <2>1, <2>2, <2>3
<1> QED
  BY <1>1, <1>2, <1>3

\* The steps of etapa_dedup change no file and no record.
LEMMA MesmosValores ==
    ASSUME node' = node, v' = v
    PROVE  /\ Arqs' = Arqs
           /\ \A k \in Arqs : /\ Comparavel(k)' <=> Comparavel(k)
                              /\ Abrivel(k)' <=> Abrivel(k)
                              /\ Amostra(k)' = Amostra(k)
           /\ \A j, k \in Arqs : Copias(j, k)' <=> Copias(j, k)
<1>1. Arqs' = Arqs
  BY DEF Arqs
<1>2. ASSUME NEW k \in Arqs
      PROVE  /\ Comparavel(k)' <=> Comparavel(k)
             /\ Abrivel(k)' <=> Abrivel(k)
             /\ Amostra(k)' = Amostra(k) /\ Atual(k)' = Atual(k)
  BY DEF Comparavel, Tam, legivel, Abrivel, Amostra, Atual, tarefa_hash_amostra
<1> QED
  BY <1>1, <1>2 DEF Copias

LEMMA ClassificarCopias ==
    ASSUME IInv, CopiasOK, edits = 0, Classificar
    PROVE  CopiasOK'
<1>1. /\ fase = "varrer" /\ fase' = "classificar" /\ todo' = Arqs /\ job' = job
      /\ grupos' = grupos /\ v' = v /\ edits' = edits
  BY DEF Classificar, ComecarFase, fsVars
<1>2. (\A w \in Workers : job[w].at = "idle") /\ grupos = {}
  BY <1>1 DEF IInv, ParadoOK, GruposOK, Andando
<1>3. Arqs' = Arqs /\ \A k \in Arqs : Pendente(k)'
  BY <1>1 DEF Arqs, Pendente
<1> QED
  BY <1>1, <1>2, <1>3 DEF CopiasOK

LEMMA HashAmostraCopias ==
    ASSUME IInv, CopiasOK, edits = 0, HashAmostra
    PROVE  CopiasOK'
<1>1. /\ fase = "classificar" /\ fase' \in {"hash_amostra", "hash_completo"} /\ Ociosos
      /\ todo' = Candidatos /\ res' = res /\ grupos' = grupos
      /\ node' = node /\ v' = v /\ edits' = edits /\ job' = job
  BY DEF HashAmostra, ComecarFase, fsVars
<1>2. /\ grupos = {} /\ (\A k \in Arqs : ~ res[k].ok)
      /\ \A w \in Workers : job[w].at = "idle"
  BY <1>1 DEF IInv, GruposOK, HashesOK, Ociosos
<1>3. \A k \in Arqs : Pendente(k)' <=> k \in Candidatos
  BY <1>1, <1>2 DEF Pendente
<1>4. ASSUME NEW k \in Arqs
      PROVE  (Comparavel(k) => Abrivel(k)) /\ (k \in Candidatos => Comparavel(k))
  BY <1>1, TodosLidos DEF Candidatos, Comparavel
<1>5. ASSUME NEW j \in Arqs, NEW k \in Arqs, Copias(j, k) PROVE k \in Candidatos
  <2>1. Tam(j) = Tam(k)
    BY <1>5, Parados DEF Copias
  <2> QED
    BY <1>5, <2>1 DEF Copias, Comparavel, Candidatos
<1>6. fase' # "classificar" /\ fase' # "fim"
  BY <1>1
<1>7. \A k \in Arqs : /\ Comparavel(k)' => Abrivel(k)'
                      /\ Pendente(k)' \/ res'[k].ok => Comparavel(k)'
  BY <1>1, <1>2, <1>3, <1>4, MesmosValores
<1>8. \A j, k \in Arqs : Copias(j, k)' => Pendente(k)' \/ res'[k].ok
  BY <1>1, <1>3, <1>5, MesmosValores
<1>9. Arqs' = Arqs /\ grupos' = {} /\ (\A k \in Arqs : ~ res'[k].ok)
      /\ \A w \in Workers : job'[w].at = "idle"
  BY <1>1, <1>2 DEF Arqs
<1> QED
  BY <1>6, <1>7, <1>8, <1>9 DEF CopiasOK

LEMMA HashCompletosCopias ==
    ASSUME IInv, CopiasOK, edits = 0, HashCompletos
    PROVE  CopiasOK'
<1> DEFINE gs == Agrupar(Lidos)
           inteiros == {g \in gs : \A i \in g : res[i].completo}
           pend == UNION (gs \ inteiros)
<1>1. /\ fase = "hash_amostra" /\ fase' = "hash_completo" /\ Ociosos
      /\ todo' = pend /\ grupos' = inteiros
      /\ res' = [i \in Arqs |-> IF i \in UNION inteiros THEN res[i] ELSE NoHash]
      /\ node' = node /\ v' = v /\ edits' = edits /\ job' = job
  BY DEF HashCompletos, ComecarFase, fsVars
<1>2. v \in Varreduras /\ Lidos \in SUBSET Arqs /\ \A k \in Arqs : k \in Lidos <=> res[k].ok
  BY DEF Lidos, IInv, TypeOK
<1>3. ASSUME NEW g \in gs
      PROVE  /\ g # {} /\ g \subseteq Lidos
             /\ \A j \in g, k \in Lidos : Tam(j) = Tam(k) /\ res[j].h = res[k].h => k \in g
  BY AgrupaTodos
<1>4. ASSUME NEW j \in Arqs, NEW k \in Arqs, Copias(j, k)
      PROVE  j \in Lidos /\ k \in Lidos /\ j # k /\ Tam(j) = Tam(k) /\ res[j].h = res[k].h
  <2>1. res[j].ok /\ res[k].ok /\ Tam(j) = Tam(k) /\ j # k
    BY <1>1, <1>4, TodosLidos
  <2>2. res[j] = Amostra(j) /\ res[k] = Amostra(k)
    BY <1>1, <2>1 DEF CopiasOK
  <2>3. Atual(j).data = Atual(k).data
    BY <1>4 DEF Copias
  <2>4. Amostra(j) = Amostra(k)
    BY <2>1, <2>3 DEF Amostra, tarefa_hash_amostra, Tam
  <2> QED
    BY <1>2, <2>1, <2>2, <2>4
<1>5. ASSUME NEW j \in Arqs, NEW k \in Arqs, Copias(j, k) PROVE \E g \in gs : j \in g /\ k \in g
  BY <1>2, <1>4, <1>5, AgrupaJunto
<1> HIDE DEF gs
<1>6. inteiros \subseteq gs /\ pend \subseteq Lidos /\ \A g \in gs : g \in inteiros \/ g \subseteq pend
  BY <1>3
<1>7. \A w \in Workers : job'[w].at = "idle"
  BY <1>1 DEF Ociosos
<1> HIDE DEF inteiros, pend
<1>8. \A k \in Arqs : Pendente(k)' <=> k \in pend
  BY <1>1, <1>7 DEF Pendente
<1>9. \A k \in Arqs : /\ k \in UNION inteiros => res'[k] = res[k]
                      /\ res'[k].ok => res[k].ok
  BY <1>1, SemHash
<1>10. \A k \in Arqs : /\ Comparavel(k)' => Abrivel(k)'
                       /\ Pendente(k)' \/ res'[k].ok => Comparavel(k)'
  <2>1. \A k \in Arqs : (Comparavel(k) => Abrivel(k)) /\ (res[k].ok => Comparavel(k))
    BY <1>1 DEF CopiasOK
  <2> QED
    BY <1>1, <1>2, <1>6, <1>8, <1>9, <2>1, MesmosValores
<1>11. ASSUME NEW j \in Arqs, NEW k \in Arqs, Copias(j, k)' PROVE Pendente(k)' \/ res'[k].ok
  <2>1. Copias(j, k)
    BY <1>1, <1>11, MesmosValores
  <2>2. PICK g \in gs : j \in g /\ k \in g
    BY <1>5, <2>1
  <2>3. res[k].ok
    BY <1>2, <1>4, <2>1
  <2>4. k \in UNION inteiros \/ k \in pend
    BY <1>6, <2>2
  <2> QED
    BY <1>8, <1>9, <2>3, <2>4
<1>12. ASSUME NEW g \in inteiros, NEW j \in g, NEW k \in Arqs, Copias(j, k)' PROVE k \in g
  <2>1. j \in Arqs
    BY <1>2, <1>3, <1>6
  <2>2. Copias(j, k)
    BY <1>1, <1>12, <2>1, MesmosValores
  <2> QED
    BY <1>3, <1>4, <1>6, <2>1, <2>2
<1>13. \A g \in inteiros : g # {}
  BY <1>3, <1>6
<1>14. Arqs' = Arqs /\ fase' = "hash_completo" /\ grupos' = inteiros
  BY <1>1 DEF Arqs
<1> QED
  BY <1>7, <1>10, <1>11, <1>12, <1>13, <1>14 DEF CopiasOK

LEMMA FimDedupCopias ==
    ASSUME IInv, CopiasOK, edits = 0, FimDedup
    PROVE  CopiasOK'
<1> DEFINE ids == Lidos \ UNION grupos
           gs == Agrupar(ids)
<1>1. /\ fase = "hash_completo" /\ fase' = "fim" /\ Ociosos
      /\ res' = res /\ grupos' = grupos \cup gs /\ todo' = todo
      /\ node' = node /\ v' = v /\ edits' = edits /\ job' = job
  BY DEF FimDedup, fsVars, taskVars
<1>2. v \in Varreduras /\ Lidos \in SUBSET Arqs /\ \A k \in Arqs : k \in Lidos <=> res[k].ok
  BY DEF Lidos, IInv, TypeOK
<1>3. \A g \in gs : g # {}
  BY AgrupaTodos
<1>4. ASSUME NEW j \in Arqs, NEW k \in Arqs, Copias(j, k)
      PROVE  \E g \in grupos \cup gs : j \in g /\ k \in g
  <2>1. res[j].ok /\ res[k].ok /\ Tam(j) = Tam(k) /\ j # k /\ Copias(k, j)
    BY <1>1, <1>4, TodosLidos
  <2>2. CASE j \in UNION grupos
    BY <1>1, <1>4, <2>2 DEF CopiasOK
  <2>3. CASE k \in UNION grupos
    BY <1>1, <2>1, <2>3 DEF CopiasOK
  <2>4. CASE j \notin UNION grupos /\ k \notin UNION grupos
    <3>1. ids \in SUBSET Arqs /\ j \in ids /\ k \in ids
      BY <1>2, <2>1, <2>4
    <3>2. res[j].h = Atual(j).data /\ res[k].h = Atual(k).data
      BY <1>1, <2>1, Parados DEF IInv, HashesOK, Andando
    <3>3. res[j].h = res[k].h
      BY <1>4, <3>2 DEF Copias
    <3>4. \E g \in gs : j \in g /\ k \in g
      <4> HIDE DEF ids
      <4> QED
        BY <1>2, <2>1, <3>1, <3>3, AgrupaJunto
    <3> QED
      BY <3>4
  <2> QED
    BY <2>2, <2>3, <2>4
<1> HIDE DEF gs
<1>5. \A k \in Arqs : ~ Pendente(k)'
  <2>1. \A k \in Arqs : ~ Pendente(k)
    BY <1>1, TodosLidos
  <2> QED
    BY <1>1, <2>1 DEF Pendente
<1>6. \A k \in Arqs : /\ Comparavel(k)' => Abrivel(k)'
                      /\ Pendente(k)' \/ res'[k].ok => Comparavel(k)'
  BY <1>1, <1>5, MesmosValores DEF CopiasOK
<1>7. \A j, k \in Arqs : Copias(j, k)' => \E g \in grupos' : j \in g /\ k \in g
  BY <1>1, <1>4, MesmosValores
<1>8. (\A w \in Workers : job'[w].at = "idle") /\ Arqs' = Arqs /\ \A g \in grupos' : g # {}
  BY <1>1, <1>3 DEF Ociosos, Arqs, CopiasOK
<1> QED
  BY <1>1, <1>6, <1>7, <1>8 DEF CopiasOK

LEMMA CopiasStep ==
    ASSUME IInv, LeitoresOK, CopiasOK, [Next]_vars
    PROVE  CopiasOK'
<1>1. CASE edits' # 0
  BY <1>1 DEF CopiasOK
<1>2. edits \in Nat
  BY DEF IInv, TypeOK
<1>3. CASE Programs
  <2>1. edits' = edits + 1
    BY <1>3, NovosCarimbos DEF IInv
  <2> QED
    BY <1>1, <1>2, <2>1
<1>4. CASE varrer_arvore
  <2>1. /\ fase \in Andando /\ fase' = "varrer" /\ job' = job /\ grupos' = grupos
    BY <1>4 DEF varrer_arvore, VarrerRaiz, Descer, Subir, taskVars, Andando
  <2>2. (\A w \in Workers : job[w].at = "idle") /\ grupos = {}
    BY <2>1 DEF IInv, ParadoOK, GruposOK, Andando
  <2> QED
    BY <2>1, <2>2 DEF CopiasOK
<1>5. CASE etapa_dedup
  <2>1. edits' = edits
    <3>1. HashCompletos => edits' = edits
      <4>1. HashCompletos => UNCHANGED fsVars
        BY Zenon DEF HashCompletos, ComecarFase
      <4> QED
        BY <4>1 DEF fsVars
    <3> QED
      BY <1>5, <3>1 DEF etapa_dedup, Classificar, HashAmostra, FimDedup, ComecarFase, fsVars
  <2> QED
    BY <1>1, <1>5, <2>1, ClassificarCopias, HashAmostraCopias, HashCompletosCopias, FimDedupCopias
       DEF etapa_dedup
<1>6. CASE \E w \in Workers : Worker(w)
  <2>1. PICK w \in Workers : Worker(w)
    BY <1>6
  <2>2. MesmosArquivos /\ UNCHANGED <<fsVars, fase, grupos>> /\ edits' = edits
    BY <2>1, TarefaMesma DEF fsVars
  <2>3. fase \in {"classificar", "hash_amostra", "hash_completo"}
    <3>1. CASE Pegar(w)
      BY <3>1 DEF Pegar, IInv, ParadoOK, TypeOK, Fases, Andando
    <3>2. CASE job[w].at # "idle"
      BY <3>2, TarefaEmCurso
    <3> QED
      BY <2>1, <3>1, <3>2 DEF Worker, fd_dir, abrir, Ler
  <2>4. \A g \in grupos : g \subseteq Arqs
    BY DEF IInv, GruposOK, Lidos
  <2>5. CASE edits = 0
    <3>1. /\ \E i : Efeito(i)
          /\ \A u \in Workers : job'[u].at = "ler" => Perm[job'[u].ino] # "none"
      BY <2>1, <2>5, PegarEfeito, FdDirEfeito, AbrirEfeito, LerEfeito DEF Worker
    <3> QED
      BY <2>2, <2>3, <2>4, <2>5, <3>1, CopiasTarefa
  <2> QED
    BY <1>1, <2>2, <2>5
<1>7. CASE UNCHANGED vars
  <2>1. UNCHANGED <<node, edits, v, fase, todo, job, res, grupos>>
    BY <1>7 DEF vars, fsVars, taskVars
  <2>2. \A k \in Arqs : Pendente(k)' <=> Pendente(k)
    BY <2>1 DEF Pendente
  <2>3. Arqs' = Arqs /\ \A g \in grupos : g \subseteq Arqs
    BY <2>1 DEF Arqs, IInv, GruposOK, Lidos
  <2> QED
    BY <2>1, <2>2, <2>3, MesmosValores DEF CopiasOK
<1> QED
  BY <1>3, <1>4, <1>5, <1>6, <1>7 DEF Next

LEMMA InitCopias == Init => CopiasOK
BY DEF Init, CopiasOK, NoJob

----------------------------------------------------------------------------
(***************************************************************************)
(* Sums. The sum of the sizes becomes a cardinality: x weighs f[x].        *)
(***************************************************************************)
Pesos(f, S) == UNION {{x} \X (1..f[x]) : x \in S}
Peso(f, S) == Cardinality(Pesos(f, S))

LEMMA PesoDeUm ==
    ASSUME NEW f, NEW x, f[x] \in Nat
    PROVE  IsFiniteSet({x} \X (1..f[x])) /\ Cardinality({x} \X (1..f[x])) = f[x]
<1> DEFINE n == f[x]
<1>1. n \in Nat
  OBVIOUS
<1> HIDE DEF n
<1>2. IsFiniteSet(1..n) /\ Cardinality(1..n) = n
  <2>1. 1 \in Int /\ n \in Int
    BY <1>1
  <2>2. IsFiniteSet(1..n) /\ Cardinality(1..n) = IF 1 > n THEN 0 ELSE n - 1 + 1
    BY <2>1, FS_Interval
  <2> QED
    BY <1>1, <2>2
<1>3. IsFiniteSet({x}) /\ Cardinality({x}) = 1
  BY FS_Singleton
<1>4. IsFiniteSet({x} \X (1..n)) /\ Cardinality({x} \X (1..n)) = Cardinality({x}) * Cardinality(1..n)
  BY <1>2, <1>3, FS_Product
<1> QED
  BY <1>1, <1>2, <1>3, <1>4 DEF n

LEMMA PesoNatural ==
    ASSUME NEW f, NEW S, IsFiniteSet(S), \A x \in S : f[x] \in Nat
    PROVE  IsFiniteSet(Pesos(f, S)) /\ Peso(f, S) \in Nat
<1> DEFINE T == {{x} \X (1..f[x]) : x \in S}
<1>1. IsFiniteSet(T)
  <2> DEFINE m == [x \in S |-> {x} \X (1..f[x])]
  <2>1. m \in Surjection(S, T)
    BY DEF Surjection
  <2> HIDE DEF m, T
  <2> QED
    BY <2>1, FS_Surjection
<1>2. \A t \in T : IsFiniteSet(t)
  BY PesoDeUm
<1> HIDE DEF T
<1>3. IsFiniteSet(UNION T)
  BY <1>1, <1>2, FS_UNION
<1> QED
  BY <1>3, FS_CardinalityType DEF Pesos, Peso, T

\* Sets apart weigh what they weigh together.
LEMMA PesoDaUniao ==
    ASSUME NEW f, NEW A, NEW B, IsFiniteSet(A), IsFiniteSet(B), A \cap B = {},
           \A x \in A : f[x] \in Nat, \A x \in B : f[x] \in Nat
    PROVE  /\ Peso(f, A \cup B) = Peso(f, A) + Peso(f, B)
           /\ Peso(f, A) \in Nat /\ Peso(f, B) \in Nat
<1>2. IsFiniteSet(Pesos(f, A)) /\ IsFiniteSet(Pesos(f, B)) /\ Peso(f, A) \in Nat /\ Peso(f, B) \in Nat
  BY PesoNatural
<1>3. Pesos(f, A \cup B) = Pesos(f, A) \cup Pesos(f, B)
  BY DEF Pesos
<1>4. Pesos(f, A) \cap Pesos(f, B) = {}
  BY DEF Pesos
<1>5. Cardinality(Pesos(f, A) \cap Pesos(f, B)) = 0
  BY <1>4, FS_EmptySet
<1>6. Cardinality(Pesos(f, A) \cup Pesos(f, B))
         = Cardinality(Pesos(f, A)) + Cardinality(Pesos(f, B)) - Cardinality(Pesos(f, A) \cap Pesos(f, B))
  BY <1>2, FS_Union
<1> DEFINE a == Cardinality(Pesos(f, A))
           b == Cardinality(Pesos(f, B))
           c == Cardinality(Pesos(f, A \cup B))
<1>7. a \in Nat /\ b \in Nat /\ c = a + b - 0
  BY <1>2, <1>3, <1>5, <1>6 DEF Peso
<1> HIDE DEF a, b, c
<1>8. a \in Nat /\ b \in Nat /\ c = a + b
  BY <1>7
<1> QED
  BY <1>8 DEF Peso, a, b, c

LEMMA PesoComMais ==
    ASSUME NEW f, NEW A, IsFiniteSet(A), NEW x, x \notin A, f[x] \in Nat,
           \A y \in A : f[y] \in Nat
    PROVE  Peso(f, A \cup {x}) = Peso(f, A) + f[x]
<1>1. Peso(f, A \cup {x}) = Peso(f, A) + Peso(f, {x})
  <2> DEFINE B == {x}
  <2>1. A \cap B = {} /\ \A y \in B : f[y] \in Nat
    OBVIOUS
  <2>2. IsFiniteSet(B)
    BY FS_Singleton
  <2> HIDE DEF B
  <2>3. Peso(f, A \cup B) = Peso(f, A) + Peso(f, B)
    BY <2>1, <2>2, PesoDaUniao
  <2> QED
    BY <2>3 DEF B
<1>2. Pesos(f, {x}) = {x} \X (1..f[x])
  BY DEF Pesos
<1>3. Peso(f, {x}) = f[x]
  BY <1>2, PesoDeUm DEF Peso
<1> QED
  BY <1>1, <1>3

LEMMA PesoDeNenhum == \A f : Peso(f, {}) = 0
<1>1. \A f : Pesos(f, {}) = {}
  BY DEF Pesos
<1> QED
  BY <1>1, FS_EmptySet DEF Peso

\* The sum a fold computes, by whatever order C takes.
SomaPor(g, f, S, C) ==
    g = [ss \in SUBSET S |-> IF ss = {} THEN 0 ELSE g[ss \ {C[ss]}] + f[C[ss]]]

LEMMA PesoSoma ==
    ASSUME NEW f, NEW S, IsFiniteSet(S), \A x \in S : f[x] \in Nat,
           NEW C, \A ss \in SUBSET S : ss # {} => C[ss] \in ss
    PROVE  SomaPor([ss \in SUBSET S |-> Peso(f, ss)], f, S, C)
<1> DEFINE g == [ss \in SUBSET S |-> Peso(f, ss)]
<1>1. ASSUME NEW ss \in SUBSET S
      PROVE  g[ss] = IF ss = {} THEN 0 ELSE g[ss \ {C[ss]}] + f[C[ss]]
  <2>1. CASE ss = {}
    BY <2>1, PesoDeNenhum
  <2>2. CASE ss # {}
    <3>1. C[ss] \in ss /\ ss \ {C[ss]} \in SUBSET S /\ (ss \ {C[ss]}) \cup {C[ss]} = ss
      BY <2>2
    <3>2. Peso(f, ss) = Peso(f, ss \ {C[ss]}) + f[C[ss]]
      <4> DEFINE x == C[ss]
                 A == ss \ {x}
      <4>1. x \in S /\ A \in SUBSET S /\ x \notin A /\ A \cup {x} = ss
        BY <3>1
      <4>a. IsFiniteSet(A) /\ \A y \in A : f[y] \in Nat
        BY <4>1, FS_Subset
      <4> HIDE DEF x, A
      <4>2. Peso(f, A \cup {x}) = Peso(f, A) + f[x]
        BY <4>1, <4>a, PesoComMais
      <4> QED
        BY <4>1, <4>2 DEF x, A
    <3> QED
      BY <2>2, <3>1, <3>2
  <2> QED
    BY <2>1, <2>2
<1>2. g = [ss \in SUBSET S |-> g[ss]]
  OBVIOUS
<1> HIDE DEF g
<1>3. g = [ss \in SUBSET S |-> IF ss = {} THEN 0 ELSE g[ss \ {C[ss]}] + f[C[ss]]]
  BY <1>1, <1>2
<1> QED
  BY <1>3 DEF SomaPor, g

LEMMA SomaPesa ==
    ASSUME NEW f, NEW S, IsFiniteSet(S), \A x \in S : f[x] \in Nat,
           NEW C, \A ss \in SUBSET S : ss # {} => C[ss] \in ss,
           NEW g, SomaPor(g, f, S, C)
    PROVE  g[S] = Peso(f, S)
<1> DEFINE Erros == {ss \in SUBSET S : g[ss] # Peso(f, ss)}
           Tamanhos == {k \in Nat : \E ss \in Erros : Cardinality(ss) = k}
<1>1. \A ss \in SUBSET S : IsFiniteSet(ss) /\ Cardinality(ss) \in Nat
  BY FS_Subset, FS_CardinalityType
<1> SUFFICES ASSUME Erros # {} PROVE FALSE
  OBVIOUS
<1>2. PICK k \in Tamanhos : \A j \in Tamanhos : k <= j
  <2>1. Tamanhos \subseteq Nat /\ Tamanhos # {}
    BY <1>1
  <2> HIDE DEF Tamanhos
  <2> QED
    BY <2>1, LeastNatural
<1>3. PICK ss \in Erros : Cardinality(ss) = k
  BY <1>2
<1>4. ss # {}
  <2>1. g[{}] = 0
    <3>1. {} \in SUBSET S
      OBVIOUS
    <3> QED
      BY <3>1 DEF SomaPor
  <2> QED
    BY <1>3, <2>1, PesoDeNenhum
<1> DEFINE x == C[ss]
           A == ss \ {x}
<1>5. ss \in SUBSET S /\ x \in ss /\ x \in S /\ A \in SUBSET S /\ x \notin A /\ A \cup {x} = ss
  BY <1>3, <1>4
<1>6. g[ss] = g[A] + f[x]
  BY <1>4, <1>5 DEF SomaPor
<1> HIDE DEF x, A
<1>7. Cardinality(A) = k - 1 /\ k \in Nat
  <2>1. Cardinality(A \cup {x}) = Cardinality(A) + 1 /\ Cardinality(A) \in Nat
    BY <1>1, <1>5, FS_AddElement
  <2>2. Cardinality(A \cup {x}) = k /\ k \in Nat
    BY <1>2, <1>3, <1>5
  <2> DEFINE c == Cardinality(A)
  <2> HIDE DEF c
  <2>3. k = c + 1 /\ c \in Nat /\ k \in Nat
    BY <2>1, <2>2 DEF c
  <2> QED
    BY <2>3 DEF c
<1>8. A \notin Erros
  <2> SUFFICES ASSUME A \in Erros PROVE FALSE
    OBVIOUS
  <2>1. k - 1 \in Tamanhos
    BY <1>1, <1>5, <1>7
  <2> QED
    BY <1>2, <1>7, <2>1
<1>9. Peso(f, ss) = Peso(f, A) + f[x]
  <2>1. IsFiniteSet(A) /\ \A y \in A : f[y] \in Nat
    BY <1>1, <1>5
  <2> QED
    BY <1>5, <2>1, PesoComMais
<1> QED
  BY <1>3, <1>5, <1>6, <1>8, <1>9

Algum(ss) == CHOOSE x \in ss : TRUE

\* SomaTam computes a weight.
LEMMA SomaTamPesa ==
    ASSUME NEW us, IsFiniteSet(us), NEW f, \A x \in us : f[x] \in Nat,
           \A x \in us : Tam(x) = f[x]
    PROVE  SomaTam(us) = Peso(f, us)
<1> DEFINE C == [ss \in SUBSET us |-> Algum(ss)]
           T(g) == [ss \in SUBSET us |->
                     IF ss = {} THEN 0
                     ELSE g[ss \ {Algum(ss)}] + Tam(Algum(ss))]
           g == CHOOSE g : g = T(g)
           h == [ss \in SUBSET us |-> Peso(f, ss)]
<1>1. \A ss \in SUBSET us : ss # {} => C[ss] \in ss
  BY DEF Algum
<1>2. \A y : SomaPor(y, f, us, C) <=> y = T(y)
  <2> SUFFICES ASSUME NEW y PROVE SomaPor(y, f, us, C) <=> y = T(y)
    OBVIOUS
  <2> DEFINE D == [ss \in SUBSET us |-> IF ss = {} THEN 0 ELSE y[ss \ {C[ss]}] + f[C[ss]]]
  <2>1. ASSUME NEW ss \in SUBSET us
        PROVE  (IF ss = {} THEN 0 ELSE y[ss \ {C[ss]}] + f[C[ss]])
                 = IF ss = {} THEN 0
                   ELSE y[ss \ {Algum(ss)}] + Tam(Algum(ss))
    <3>1. C[ss] = Algum(ss)
      OBVIOUS
    <3> HIDE DEF C
    <3>2. ss # {} => f[C[ss]] = Tam(C[ss])
      BY <1>1
    <3> QED
      BY <3>1, <3>2
  <2> HIDE DEF C
  <2>2. D = T(y)
    BY <2>1, Zenon
  <2>3. SomaPor(y, f, us, C) <=> y = D
    BY Zenon DEF SomaPor
  <2> HIDE DEF D, T
  <2> QED
    BY <2>2, <2>3
<1> HIDE DEF C
<1>3. SomaPor(h, f, us, C)
  BY <1>1, PesoSoma
<1>4. SomaTam(us) = g[us]
  BY Zenon DEF SomaTam, FoldSet, MapThenFoldSet, Algum
<1>5. g = T(g)
  <2>1. \E y : y = T(y)
    BY <1>2, <1>3
  <2> HIDE DEF T
  <2> QED
    BY <2>1
<1> HIDE DEF g, T
<1>6. SomaPor(g, f, us, C)
  BY <1>2, <1>5
<1>7. g[us] = Peso(f, us)
  BY <1>1, <1>6, SomaPesa
<1> QED
  BY <1>4, <1>7

----------------------------------------------------------------------------
(***************************************************************************)
(* What the duplicate search says when it ends.                            *)
(***************************************************************************)
LEMMA UniaoApartada ==
    ASSUME NEW A, NEW B, IsFiniteSet(A), IsFiniteSet(B), A \cap B = {}
    PROVE  Cardinality(A \cup B) = Cardinality(A) + Cardinality(B)
<1> DEFINE a == Cardinality(A)
           b == Cardinality(B)
           c == Cardinality(A \cup B)
<1>1. c = a + b - Cardinality(A \cap B)
  BY FS_Union
<1>2. Cardinality(A \cap B) = 0
  BY FS_EmptySet
<1>3. a \in Nat /\ b \in Nat
  BY FS_CardinalityType
<1> HIDE DEF a, b, c
<1>4. c = a + b
  BY <1>1, <1>2, <1>3
<1> QED
  BY <1>4 DEF a, b, c

\* The first of a group is one of the group, and none comes before it.
LEMMA PrimeiroDe ==
    ASSUME NEW g, g \subseteq Nat, g # {}
    PROVE  Primeiro(g) \in g /\ \A j \in g : Primeiro(g) <= j
<1>1. \E i \in g : \A j \in g : i <= j
  BY LeastNatural
<1> QED
  BY <1>1 DEF Primeiro

LEMMA ArqsFinito ==
    ASSUME v \in Varreduras
    PROVE  IsFiniteSet(Arqs) /\ Arqs \subseteq Nat
<1>1. Len(v.arquivos) \in Nat
  BY DEF Varreduras
<1>2. 1 \in Int /\ Len(v.arquivos) \in Int /\ Arqs \subseteq Nat
  BY <1>1 DEF Arqs
<1> QED
  BY <1>2, FS_Interval, Zenon DEF Arqs

\* The groups, when nobody has changed the tree: all the copies of a content.
LEMMA GruposNoFim ==
    ASSUME IInv, CopiasOK, edits = 0, fase = "fim", NEW g \in grupos
    PROVE  /\ g \subseteq Arqs /\ g # {} /\ \A h \in grupos : h # g => g \cap h = {}
           /\ Primeiro(g) \in g /\ \A j \in g : Primeiro(g) <= j
           /\ \A j \in g : Comparavel(j)
           /\ \A j, k \in g : Atual(j).data = Atual(k).data
<1>1. g \subseteq Lidos /\ g # {} /\ \A h \in grupos : h # g => g \cap h = {}
  BY DEF IInv, GruposOK, CopiasOK
<1>2. g \subseteq Arqs /\ \A j \in g : res[j].ok
  BY <1>1 DEF Lidos
<1>3. Primeiro(g) \in g /\ \A j \in g : Primeiro(g) <= j
  <2>1. g \subseteq Nat
    BY <1>2, ArqsFinito DEF IInv, TypeOK
  <2> QED
    BY <1>1, <2>1, PrimeiroDe
<1>4. \A j \in g : Comparavel(j)
  BY <1>2 DEF CopiasOK
<1>5. \A j, k \in g : Atual(j).data = Atual(k).data
  BY <1>2, Parados, GruposSaoCopias DEF RedundantIsCopy
<1> QED
  BY <1>1, <1>2, <1>3, <1>4, <1>5

Lidas == {i \in Arqs : legivel(i)}
Unicas == {i \in Lidas : \A j \in Lidas : Atual(j).data = Atual(i).data => i <= j}

\* The redundant files are those that hold bytes and are not the first of their content.
LEMMA RedundantesSao ==
    ASSUME IInv, CopiasOK, edits = 0, fase = "fim"
    PROVE  Redundantes = {i \in Lidas \ Unicas : Tam(i) > 0}
<1>1. ASSUME NEW i \in Redundantes PROVE i \in Lidas /\ i \notin Unicas /\ Tam(i) > 0
  <2>1. PICK g \in grupos : i \in g /\ i # Primeiro(g)
    BY DEF Redundantes
  <2> PICK p : p = Primeiro(g)
    OBVIOUS
  <2>2. /\ p \in g /\ p <= i /\ p # i /\ i \in Arqs /\ p \in Arqs
        /\ Comparavel(i) /\ Comparavel(p) /\ Atual(i).data = Atual(p).data
    BY <2>1, GruposNoFim
  <2>3. i \in Lidas /\ p \in Lidas /\ Tam(i) > 0
    BY <2>2 DEF Lidas, Comparavel
  <2>4. i \in Nat /\ p \in Nat
    BY <2>2 DEF Arqs
  <2>5. ~(i <= p)
    BY <2>2, <2>4
  <2> QED
    BY <2>2, <2>3, <2>5 DEF Unicas
<1>2. ASSUME NEW i \in Lidas, i \notin Unicas, Tam(i) > 0 PROVE i \in Redundantes
  <2>1. PICK j \in Lidas : Atual(j).data = Atual(i).data /\ ~(i <= j)
    BY <1>2 DEF Unicas
  <2>2. i \in Arqs /\ j \in Arqs /\ i \in Nat /\ j \in Nat
    BY DEF Lidas, Arqs
  <2>3. Tam(j) = Tam(i) /\ j # i
    BY <2>1, <2>2, Parados
  <2>4. Copias(i, j)
    BY <1>2, <2>1, <2>3 DEF Copias, Comparavel, Lidas
  <2>5. PICK g \in grupos : i \in g /\ j \in g
    BY <2>2, <2>4 DEF CopiasOK
  <2> PICK p : p = Primeiro(g)
    OBVIOUS
  <2>6. p <= j /\ p \in Nat
    BY <2>5, GruposNoFim DEF Arqs
  <2>7. i # p
    BY <2>1, <2>2, <2>6
  <2> QED
    BY <2>5, <2>7 DEF Redundantes
<1> QED
  BY <1>1, <1>2

LEMMA BytesDuplicados ==
    ASSUME IInv, CopiasOK, edits = 0, fase = "fim"
    PROVE  SomaTam(Redundantes) = SomaTam(Lidas) - SomaTam(Unicas)
<1> PICK f : f = [i \in Arqs |-> Tam(i)]
  OBVIOUS
<1>1. \A i \in Arqs : f[i] = Tam(i) /\ f[i] \in Nat
  BY Parados
<1>2. Unicas \subseteq Lidas /\ Lidas \subseteq Arqs /\ Redundantes \subseteq Lidas
  BY RedundantesSao DEF Unicas, Lidas
<1>3. IsFiniteSet(Lidas) /\ IsFiniteSet(Unicas) /\ IsFiniteSet(Redundantes)
  <2>1. IsFiniteSet(Arqs)
    BY ArqsFinito DEF IInv, TypeOK
  <2> QED
    BY <1>2, <2>1, FS_Subset
<1>4. ASSUME NEW S \in {Lidas, Unicas, Redundantes} PROVE SomaTam(S) = Peso(f, S)
  <2>1. IsFiniteSet(S) /\ S \subseteq Arqs
    BY <1>2, <1>3
  <2>2. \A i \in S : f[i] \in Nat /\ Tam(i) = f[i]
    BY <1>1, <2>1
  <2> QED
    BY <2>1, <2>2, SomaTamPesa
<1>5. Redundantes \cap Unicas = {}
  BY RedundantesSao
<1>6. Pesos(f, Lidas) = Pesos(f, Redundantes \cup Unicas)
  <2>1. \A i \in Lidas : i \notin Redundantes \cup Unicas => 1..f[i] = {}
    <3> SUFFICES ASSUME NEW i \in Lidas, i \notin Redundantes \cup Unicas PROVE 1..f[i] = {}
      OBVIOUS
    <3>1. ~(f[i] > 0) /\ f[i] \in Nat
      BY <1>1, <1>2, RedundantesSao
    <3> QED
      BY <3>1
  <2> QED
    BY <1>2, <2>1 DEF Pesos
<1>7. Peso(f, Lidas) = Peso(f, Redundantes \cup Unicas)
  BY <1>6 DEF Peso
<1>8. /\ Peso(f, Redundantes \cup Unicas) = Peso(f, Redundantes) + Peso(f, Unicas)
      /\ Peso(f, Redundantes) \in Nat /\ Peso(f, Unicas) \in Nat
  <2>1. \A i \in Lidas : f[i] \in Nat
    BY <1>1, <1>2
  <2>2. (\A i \in Redundantes : f[i] \in Nat) /\ \A i \in Unicas : f[i] \in Nat
    BY <1>2, <2>1
  <2> QED
    BY <1>3, <1>5, <2>2, PesoDaUniao
<1>9. /\ SomaTam(Lidas) = Peso(f, Lidas) /\ SomaTam(Unicas) = Peso(f, Unicas)
      /\ SomaTam(Redundantes) = Peso(f, Redundantes)
  BY <1>4
<1> QED
  BY <1>7, <1>8, <1>9

LEMMA RedundantesContados ==
    ASSUME IInv, CopiasOK, edits = 0, fase = "fim"
    PROVE  Cardinality(Redundantes) + Cardinality(grupos) = Cardinality(UNION grupos)
<1> DEFINE U == UNION grupos
           f == [g \in grupos |-> Primeiro(g)]
           P == {Primeiro(g) : g \in grupos}
<1>1. IsFiniteSet(Arqs)
  BY ArqsFinito DEF IInv, TypeOK
<1>2. U \subseteq Arqs /\ P \subseteq U /\ Redundantes \subseteq U /\ U = Redundantes \cup P
  BY GruposNoFim DEF Redundantes
<1>3. Redundantes \cap P = {}
  <2> SUFFICES ASSUME NEW g \in grupos, NEW h \in grupos, NEW i \in g, i # Primeiro(g), i = Primeiro(h)
               PROVE  FALSE
    BY DEF Redundantes
  <2>1. i \in h
    BY GruposNoFim
  <2>2. g = h
    BY <2>1, GruposNoFim
  <2> QED
    BY <2>2
<1>4. IsFiniteSet(grupos)
  <2>1. grupos \subseteq SUBSET Arqs
    BY GruposNoFim
  <2> QED
    BY <1>1, <2>1, FS_SUBSET, FS_Subset
<1>5. /\ f \in [grupos -> P] /\ \A p \in P : \E g \in grupos : f[g] = p
      /\ \A g, h \in grupos : f[g] = f[h] => g = h
  <2>1. f \in [grupos -> P] /\ \A p \in P : \E g \in grupos : f[g] = p
    OBVIOUS
  <2>2. ASSUME NEW g \in grupos, NEW h \in grupos, Primeiro(g) = Primeiro(h) PROVE g = h
    <3>1. Primeiro(g) \in g /\ Primeiro(g) \in h
      BY <2>2, GruposNoFim
    <3> QED
      BY <3>1, GruposNoFim
  <2> QED
    BY <2>1, <2>2
<1> HIDE DEF f, P, U
<1>6. Cardinality(P) = Cardinality(grupos)
  BY <1>4, <1>5, MesmoTamanho
<1>7. IsFiniteSet(Redundantes) /\ IsFiniteSet(P)
  <2>1. Redundantes \subseteq Arqs /\ P \subseteq Arqs
    BY <1>2
  <2> QED
    BY <1>1, <2>1, FS_Subset
<1>8. Cardinality(U) = Cardinality(Redundantes) + Cardinality(P)
  BY <1>2, <1>3, <1>7, UniaoApartada
<1> QED
  BY <1>6, <1>8 DEF U

LEMMA CopiasAchadas ==
    ASSUME IInv, CopiasOK
    PROVE  CopiesAreFound
<1> SUFFICES ASSUME fase = "fim", edits = 0
             PROVE  /\ montar_dedup.bytes_duplicados = SomaTam(Lidas) - SomaTam(Unicas)
                    /\ montar_dedup.arquivos_redundantes + montar_dedup.grupos = Cardinality(UNION grupos)
  BY DEF CopiesAreFound, Lidas, Unicas
<1>1. /\ montar_dedup.bytes_duplicados = SomaTam(Redundantes)
      /\ montar_dedup.arquivos_redundantes = Cardinality(Redundantes)
      /\ montar_dedup.grupos = Cardinality(grupos)
  BY DEF montar_dedup
<1> QED
  BY <1>1, BytesDuplicados, RedundantesContados

----------------------------------------------------------------------------
(***************************************************************************)
(* The theorems.                                                           *)
(***************************************************************************)
\* The walk, the readers and the groups keep their types, whatever changes meanwhile.
THEOREM TypeCorrect == Spec => []TypeOK
<1>1. IInv => TypeOK
  BY DEF IInv
<1> QED
  BY <1>1, InitIInv, StepIInv, PTL DEF Spec

\* A task reads no inode but the one the walk met, and the files that etapa_dedup
\* declares duplicates hold the same bytes if nobody has changed them since the walk,
\* each in one group, for any tree, workers and interleaving of other programs.
THEOREM RedundantAreCopies == Spec => []RedundantIsCopy
BY InitIInv, StepIInv, GruposSaoCopias, PTL DEF Spec

\* In a tree nobody changed, the walk meets each file it can reach exactly once, or says
\* that it stopped at max_arquivos, and accounts for each entry it lists: for any tree,
\* hard links, depth, devices and refusals included, and any number of workers.
THEOREM ScanIsExact == Spec => []ScanExact
<1>1. Init => IInv /\ WalkOK
  BY InitIInv, InitWalk
<1>2. IInv /\ WalkOK /\ [Next]_vars => IInv' /\ WalkOK'
  BY StepIInv, WalkStep
<1>3. IInv /\ WalkOK => ScanExact
  BY AndadoExato
<1> QED
  BY <1>1, <1>2, <1>3, PTL DEF Spec

\* In a tree nobody changed, the duplicate search finds every copy: what it counts as
\* duplicated is all the readable bytes but one file of each content, for any tree, any
\* contents, workers and cache of open directories.
THEOREM CopiesFound == Spec => []CopiesAreFound
<1>1. Init => IInv /\ WalkOK /\ LeitoresOK /\ CopiasOK
  BY InitIInv, InitWalk, InitLeitores, InitCopias
<1>2. IInv /\ WalkOK /\ LeitoresOK /\ CopiasOK /\ [Next]_vars
        => IInv' /\ WalkOK' /\ LeitoresOK' /\ CopiasOK'
  BY StepIInv, WalkStep, LeitoresStep, CopiasStep
<1>3. IInv /\ CopiasOK => CopiesAreFound
  BY CopiasAchadas
<1> QED
  BY <1>1, <1>2, <1>3, PTL DEF Spec

=============================================================================
