------------------------------ MODULE BlockPlan ------------------------------
(***************************************************************************)
(* bench/plano_bloco.py: which candidate (a codec, perhaps behind a         *)
(* transform) the planner takes for a block. Each block is labelled with    *)
(* the size every candidate gives it, the sizes get values with the         *)
(* prices of economia.py, models trained without the file (or the class)    *)
(* of a block plan it, and the plans are compared with the oracle.          *)
(*                                                                         *)
(* A block is [arq, cls, len, z, ruim, naorev, x]: z[c][t] is its size by    *)
(* codec c behind transform t (0: none); ruim the candidates and naorev     *)
(* the transforms that do not give the block back; x[v] its features by     *)
(* variant v of the sample they are taken from.                            *)
(***************************************************************************)
EXTENDS BenchEconomy

CONSTANTS
    NTransforms,        \* len(TRANSFORMS)
    Limiar,             \* of ts, in hundredths
    Tol,                \* of a label, in thousandths
    Prof, MinFolha,     \* of the tree
    NVariantes,         \* len(VARIANTES): 1 and 2 are the start of a block and all over it
    Maiores,            \* the variants of 16 KiB
    Media,              \* 1 / 0.02: what of a weight is the mean gap
    CompCusto, DescCusto,   \* [codec -> cost], per unit of length, before a core's loss
    TransCusto,         \* of a transform, either way
    Curva,              \* what a core loses, as in economia.py
    PrecoArm,           \* price * months * redundancy, per unit of length
    Camadas             \* reads in the life of a block, one number for a layer

ASSUME PlanAssumption ==
    /\ NTransforms \in Nat \ {0} /\ {Limiar, Tol, Prof} \subseteq Nat
    /\ MinFolha \in Nat \ {0} /\ Media \in Nat \ {0}
    /\ NVariantes \in Nat /\ NVariantes >= 2 /\ Maiores \subseteq 1..NVariantes
    /\ Camadas \subseteq Nat /\ PrecoArm \in Nat /\ TransCusto \in Nat

NS == 3 + NTransforms
NC == NS + 5
SYNC == 1..NS

\* np.argmin: the first of the least.
MenorDe(S, custo(_)) ==
    LET c == [j \in S |-> custo(j)]
    IN  CHOOSE j \in S : \A k \in S : c[j] < c[k] \/ (c[j] = c[k] /\ j <= k)

\* The codec of a candidate; its transform: one of its own, none (0), or ts (-1).
cod_do_candidato(j) ==
    CASE j = 1 -> <<"stored", 0>>
      [] j = 2 -> <<"zstd-1", 0>>
      [] j = 3 -> <<"zstd-3", 0>>
      [] j \in 4..NS -> <<"zstd-3", j - 3>>
      [] j = NS + 1 -> <<"zstd-19", 0>>
      [] j = NS + 2 -> <<"xz-9e", 0>>
      [] j = NS + 3 -> <<"bzip2-9", 0>>
      [] j = NS + 4 -> <<"zstd-19", -1>>
      [] j = NS + 5 -> <<"xz-9e", -1>>

----------------------------------------------------------------------------
(***************************************************************************)
(* rotular_bloco, cmd_rotular.                                             *)
(***************************************************************************)
\* The transform worth its place before the slow codecs; 0 is none.
ts(b) ==
    LET mi == MenorDe(1..NTransforms, LAMBDA t : b.z["zstd-3"][t])
        ref == IF b.z["zstd-3"][0] < b.len THEN b.z["zstd-3"][0] ELSE b.len
    IN  IF 100 * b.z["zstd-3"][mi] < (100 - Limiar) * ref THEN mi ELSE 0

\* The transform a candidate really runs behind; -1: the candidate was not tried.
atras(b, j) ==
    LET t == cod_do_candidato(j)[2]
    IN  IF t >= 0 THEN t ELSE IF ts(b) = 0 THEN -1 ELSE ts(b)

tam(b, j) ==
    CASE j = 1 -> b.len
      [] j > 1 /\ atras(b, j) = -1 -> -1
      [] OTHER -> b.z[cod_do_candidato(j)[1]][atras(b, j)]

\* A candidate is right when what comes out has the hash of the block: its codec
\* gives its input back, and so does its transform.
ok(b, j) ==
    /\ atras(b, j) # -1
    /\ j \notin b.ruim
    /\ atras(b, j) \notin b.naorev

\* A block with its labels: what the files of cmd_rotular hold of it.
rotular_bloco(b) ==
    [arq |-> b.arq, cls |-> b.cls, len |-> b.len, x |-> b.x, ts |-> ts(b),
     tam |-> [j \in 1..NC |-> tam(b, j)],
     ruins |-> {j \in 1..NC : tam(b, j) >= 0 /\ ~ok(b, j)}]

cmd_rotular(bs) == [i \in DOMAIN bs |-> rotular_bloco(bs[i])]

----------------------------------------------------------------------------
(***************************************************************************)
(* construir_valores: what is saved is what a block shrinks by, never less   *)
(* than nothing; a block that did not shrink is not decompressed. Costs and  *)
(* values are of the whole block, where the code has them of a GB.           *)
(***************************************************************************)
tam_eff(b, j) == IF b.tam[j] < b.len THEN b.tam[j] ELSE b.len
Validos(b) == {j \in 1..NC : b.tam[j] >= 0}

\* serie: two stages one behind the other take the sum of their times.
serie(b, j, custo) ==
    LET t == IF cod_do_candidato(j)[2] >= 0 THEN cod_do_candidato(j)[2] ELSE b.ts
    IN  IF j = 1 THEN 0 ELSE custo[cod_do_candidato(j)[1]] + (IF t > 0 THEN TransCusto ELSE 0)

\* What the load of compressing makes a core lose either way.
cc(b, j) == b.len * serie(b, j, CompCusto) * perda(Curva.comp, serie(b, j, CompCusto))
cd(b, j) == b.len * serie(b, j, DescCusto) * perda(Curva.decomp, serie(b, j, CompCusto))

V(b, j, n) ==
    LET s == b.len - tam_eff(b, j)
    IN  s * PrecoArm - cc(b, j) - (IF s > 0 THEN n * cd(b, j) ELSE 0)

Rotulos == {-1} \cup Camadas    \* -1 is the label "tam"

custo_para_rotulo(b, j, r) == IF r = -1 THEN tam_eff(b, j) ELSE -V(b, j, r)

\* The bug a check of it must find: the oracle is the first candidate within the tolerance.
oraculo_tolerante(b, r) ==
    LET c(j) == custo_para_rotulo(b, j, r)
        melhor == Min({c(j) : j \in SYNC})
    IN  Min({j \in SYNC : 1000 * c(j) <= 1000 * melhor + 500 * (IF melhor < 0 THEN -melhor ELSE melhor)})

oraculo(b, r) == MenorDe(SYNC, LAMBDA j : custo_para_rotulo(b, j, r))

\* The label a model learns: the first candidate within the tolerance.
rotulos_de_custo(b, r) ==
    LET c == [j \in SYNC |-> custo_para_rotulo(b, j, r)]
        melhor == Min(Range(c))
        abs == IF melhor < 0 THEN -melhor ELSE melhor
    IN  Min({j \in SYNC : 1000 * c[j] <= 1000 * melhor + Tol * abs})

----------------------------------------------------------------------------
(***************************************************************************)
(* pesos_gap, ajustar_arvore, prever_arvore. I are the places in d of the   *)
(* blocks a node is made of; weights are whole, up to a factor.             *)
(***************************************************************************)
NF == NTransforms + 2   \* h0, the entropy behind each transform, the probe

Vistos(d, v) == [i \in DOMAIN d |-> [d[i] EXCEPT !.x = @[v]]]

\* What is lost in the mean by not taking the best, times the candidates.
Gaps(d, r) ==
    [i \in DOMAIN d |->
        LET c == [j \in SYNC |-> custo_para_rotulo(d[i], j, r)]
            melhor == Min(Range(c))
        IN  MapThenSumSet(LAMBDA j : c[j] - melhor, SYNC)]

RECURSIVE mdc(_, _)
mdc(a, b) == IF b = 0 THEN a ELSE mdc(b, a % b)

\* The mean is of all the blocks, whoever learns from them.
pesos_gap(gaps) ==
    LET n == Len(gaps)
        soma == FoldSeq(LAMBDA g, acc : g + acc, 0, gaps)
        w == [i \in DOMAIN gaps |-> Media * n * gaps[i] + soma]
        comum == FoldSeq(LAMBDA x, acc : mdc(x, acc), 0, w)
    IN  [i \in DOMAIN gaps |-> IF soma = 0 THEN 1 ELSE w[i] \div comum]

Pesos(d, r, pesado) == IF pesado THEN pesos_gap(Gaps(d, r)) ELSE [i \in DOMAIN d |-> 1]

Peso(w, I) == MapThenSumSet(LAMBDA i : w[i], I)
Votos(y, w, I, k) == Peso(w, {i \in I : y[i] = k})
Maioria(y, w, I) == MenorDe(SYNC, LAMBDA k : -Votos(y, w, I, k))

\* np.quantile of what a feature has in I at 4, 8, ... 96 hundredths, in hundredths.
quantis(d, I, f) ==
    LET xs == SetToSortSeq({<<d[i].x[f], i>> : i \in I},
                           LAMBDA p, q : p[1] < q[1] \/ (p[1] = q[1] /\ p[2] < q[2]))
        n == Len(xs)
        em(h) == LET pos == h * (n - 1)
                     k == pos \div 100
                 IN  IF k + 1 = n THEN 100 * xs[n][1]
                     ELSE 100 * xs[k + 1][1] + (pos % 100) * (xs[k + 2][1] - xs[k + 1][1])
    IN  {em(4 * q) : q \in 1..24}

Abaixo(d, I, f, t) == {i \in I : 100 * d[i].x[f] <= t}

\* p[1]/p[2] < q[1]/q[2], by their continued fractions.
RECURSIVE Menor(_, _)
Menor(p, q) ==
    LET a == p[1] \div p[2]  b == q[1] \div q[2]
        r == p[1] % p[2]     t == q[1] % q[2]
    IN  a < b \/ (a = b /\ t > 0 /\ (r = 0 \/ Menor(<<q[2], t>>, <<p[2], r>>)))

\* The weight of a node less its impurity; of a cut, the sum of those of its sides.
Quadrados(y, w, I) == MapThenSumSet(LAMBDA k : Votos(y, w, I, k) ^ 2, SYNC)
Pureza(y, w, I) == <<Quadrados(y, w, I), Peso(w, I)>>
PurezaDoCorte(y, w, e, o) ==
    <<Quadrados(y, w, e) * Peso(w, o) + Quadrados(y, w, o) * Peso(w, e), Peso(w, e) * Peso(w, o)>>

divide(I, k) == k >= MinFolha /\ Cardinality(I) - k >= MinFolha

\* The cuts that gain, with enough blocks on both sides, behind how pure they are.
cortes(d, y, w, I) ==
    LET lado(c) == Abaixo(d, I, c[1], c[2])
        todos == {c \in UNION {{f} \X quantis(d, I, f) : f \in 1..NF} : divide(I, Cardinality(lado(c)))}
        puro == Pureza(y, w, I)
    IN  {c \in {<<PurezaDoCorte(y, w, lado(c), I \ lado(c)), c[1], c[2]>> : c \in todos} : Menor(puro, c[1])}

\* The purest; of those, the first feature, at the lowest.
melhor_corte(cs) ==
    CHOOSE c \in cs : \A o \in cs :
        \/ Menor(o[1], c[1])
        \/ ~Menor(c[1], o[1]) /\ (c[2] < o[2] \/ (c[2] = o[2] /\ c[3] <= o[3]))

folha(y, w, I) == [feat |-> 0, n |-> Cardinality(I), cls |-> Maioria(y, w, I)]

RECURSIVE construir(_, _, _, _, _)
ramo(d, y, w, I, prof, c) ==
    LET e == Abaixo(d, I, c[2], c[3])
    IN  [feat |-> c[2], thr |-> c[3],
         esq |-> construir(d, y, w, e, prof + 1), dir |-> construir(d, y, w, I \ e, prof + 1)]
cortado(d, y, w, I, prof, cs) ==
    IF cs = {} THEN folha(y, w, I) ELSE ramo(d, y, w, I, prof, melhor_corte(cs))
construir(d, y, w, I, prof) ==
    IF prof >= Prof \/ Cardinality({y[i] : i \in I}) <= 1 \/ Cardinality(I) < 2 * MinFolha
    THEN folha(y, w, I)
    ELSE cortado(d, y, w, I, prof, cortes(d, y, w, I))

ajustar_arvore(d, y, w, I) == construir(d, y, w, I, 0)

RECURSIVE prever_arvore(_, _)
prever_arvore(m, x) ==
    IF m.feat = 0 THEN m.cls
    ELSE prever_arvore(IF 100 * x[m.feat] <= m.thr THEN m.esq ELSE m.dir, x)

RECURSIVE Folhas(_)
Folhas(m) == IF m.feat = 0 THEN {m.n} ELSE Folhas(m.esq) \cup Folhas(m.dir)

\* Who a model learns from: those of other groups than g.
\* The bug a check of it must find: a block's own group is among them.
TreinoTodos(gs, g) == DOMAIN gs
Treino(gs, g) == {k \in DOMAIN gs : gs[k] # g}

\* Each block by a model of the blocks of the other files, or classes; gs are those of the blocks.
prever_todos(m, d, gs) == [i \in DOMAIN d |-> prever_arvore(m[gs[i]], d[i].x)]
validacao_cruzada(d, y, w, gs) ==
    prever_todos([g \in Range(gs) |-> ajustar_arvore(d, y, w, Treino(gs, g))], d, gs)

Arqs(d) == [i \in DOMAIN d |-> d[i].arq]
Classes(d) == [i \in DOMAIN d |-> d[i].cls]

----------------------------------------------------------------------------
(***************************************************************************)
(* The other plans, and cmd_avaliar.                                        *)
(***************************************************************************)
plano_probe(x, limiar) == IF x[NF] > limiar THEN 1 ELSE 3

plano_regra(x, margem, h0_stored) ==
    LET t == MenorDe(1..NTransforms, LAMBDA k : x[k + 1] - x[1])
    IN  IF x[1] > h0_stored THEN 1 ELSE IF x[1] - x[t + 1] >= margem THEN 3 + t ELSE 3

rotulos(d, r) == [i \in DOMAIN d |-> rotulos_de_custo(d[i], r)]

\* The fixed plans and those of the oracles; the rule has the variant the models have.
PlanosFixos(d, v) ==
    {[i \in DOMAIN d |-> 2], [i \in DOMAIN d |-> 3], [i \in DOMAIN d |-> plano_regra(d[i].x[v], 1, 2)]}
    \cup {[i \in DOMAIN d |-> plano_probe(d[i].x[k], 2)] : k \in 1..2}
    \cup {[i \in DOMAIN d |-> oraculo(d[i], r)] : r \in Rotulos}

Bytes(d, I, plano) == MapThenSumSet(LAMBDA i : tam_eff(d[i], plano[i]), I)
Valor(d, I, plano, n) == MapThenSumSet(LAMBDA i : V(d[i], plano[i], n), I)
De(d, r) == [i \in DOMAIN d |-> oraculo(d[i], r)]

\* The bytes of the plans of the other files' models, by variant and by weights or not.
tarefa_triagem(d, v, pesado) ==
    Bytes(d, DOMAIN d, validacao_cruzada(Vistos(d, v), rotulos(d, -1), Pesos(d, -1, pesado), Arqs(d)))

\* The least regret, in hundredths; 16 KiB cost 0.05 more. It is judged on all the files.
MenorNota(nota) ==
    LET Vem(k, o) == k[1] < o[1] \/ (k[1] = o[1] /\ (~k[2] \/ o[2]))
    IN  CHOOSE k \in DOMAIN nota : \A o \in DOMAIN nota : nota[k] < nota[o] \/ (nota[k] = nota[o] /\ Vem(k, o))

Escolhida(d) ==
    LET nota(k, orc) == 2000 * (tarefa_triagem(d, k[1], k[2]) - orc) + (IF k[1] \in Maiores THEN orc ELSE 0)
    IN  MenorNota([k \in (1..NVariantes) \X BOOLEAN |-> nota(k, Bytes(d, DOMAIN d, De(d, -1)))])

\* Of a plan, over the blocks I: a class, or all of them.
resumo_plano(d, I, plano) ==
    [bytes |-> Bytes(d, I, plano), bytes_oraculo |-> Bytes(d, I, De(d, -1)),
     regret |-> [n \in Camadas |-> Valor(d, I, De(d, n), n) - Valor(d, I, plano, n)]]

acuracias(d, r, plano) ==
    [estrita |-> {i \in DOMAIN d : plano[i] = oraculo(d[i], r)},
     tolerante |-> {i \in DOMAIN d :
        LET c(j) == custo_para_rotulo(d[i], j, r)
            melhor == c(oraculo(d[i], r))
        IN  1000 * c(plano[i]) <= 1000 * melhor + 5 * (IF melhor < 0 THEN -melhor ELSE melhor)}]

matriz_confusao(d, r, plano) ==
    [p \in SYNC \X SYNC |-> Cardinality({i \in DOMAIN d : oraculo(d[i], r) = p[1] /\ plano[i] = p[2]})]

erros_por_arquivo(d, plano) ==
    [a \in {d[i].arq : i \in DOMAIN d} |->
        LET I == {i \in DOMAIN d : d[i].arq = a} IN Bytes(d, I, plano) - Bytes(d, I, De(d, -1))]

\* What is left of the value of the best if all the candidates are compressed to find it.
medir_todos(d, n) ==
    MapThenSumSet(LAMBDA i :
        LET o == oraculo(d[i], n)
        IN  V(d[i], o, n) - MapThenSumSet(LAMBDA j : cc(d[i], j), SYNC \ {o}),
        DOMAIN d)

\* The oracles with the slow codecs: of what a later pass may take, of all.
orc_async(b) == MenorDe({j \in Validos(b) : j \notin 2..NS}, LAMBDA j : tam_eff(b, j))
orc_tudo(b) == MenorDe(Validos(b), LAMBDA j : tam_eff(b, j))

\* The transforms against zstd-3.
analise_transforms(d, I) ==
    [z3 |-> Bytes(d, I, [i \in DOMAIN d |-> 3]),
     melhor |-> MapThenSumSet(LAMBDA i : Min({tam_eff(d[i], j) : j \in 3..NS}), I)]

criterio_parada(d, modelo, custo) ==
    LET probe == Min({Bytes(d, DOMAIN d, [i \in DOMAIN d |-> plano_probe(d[i].x[k], 2)]) : k \in 1..2})
        orc == Bytes(d, DOMAIN d, De(d, -1))
        deles == Bytes(d, DOMAIN d, modelo)
        ok_i(b) == 100 * (b - orc) <= orc
        todas == ok_i(deles) /\ 100 * (probe - deles) >= probe /\ custo <= 2
    IN  [probe_basta |-> ok_i(probe), todas_ok |-> todas,
         veredito |-> IF ok_i(probe) THEN "NAO VALE: so o probe" ELSE IF todas THEN "VALE" ELSE "NAO VALE"]

----------------------------------------------------------------------------
\* What cmd_avaliar says of a plan.
Avaliacao(d, plano) ==
    LET classes == {d[i].cls : i \in DOMAIN d}
    IN  [todos |-> resumo_plano(d, DOMAIN d, plano),
         porClasse |-> [c \in classes |-> resumo_plano(d, {i \in DOMAIN d : d[i].cls = c}, plano)],
         porArquivo |-> erros_por_arquivo(d, plano),
         confusao |-> matriz_confusao(d, -1, plano),
         acc |-> acuracias(d, -1, plano),
         criterio |-> criterio_parada(d, plano, 0),
         medir_todos |-> [n \in Camadas |-> medir_todos(d, n)],
         orc_async |-> Bytes(d, DOMAIN d, [i \in DOMAIN d |-> orc_async(d[i])]),
         orc_tudo |-> Bytes(d, DOMAIN d, [i \in DOMAIN d |-> orc_tudo(d[i])]),
         transforms |-> analise_transforms(d, DOMAIN d)]
=============================================================================
