----------------------------- MODULE BenchSampling -----------------------------
(***************************************************************************)
(* bench/perfil_dataset.py, what it says of a data set from a part of it:    *)
(* families of versions and the pairs of them that are measured; the blocks  *)
(* drawn for the sample, read by workers whose answers come in any order      *)
(* and may stop half way; the ratios worked out from the rows.               *)
(*                                                                         *)
(* A file is [i, tam, cls, legivel, redundante, chave, ord, blocos]: chave    *)
(* is its key in each pass, ord its place by path and time, blocos its       *)
(* blocks, each [n, z, tr]: bytes, size by codec, and by transform.          *)
(***************************************************************************)
EXTENDS Naturals, Integers, Sequences, FiniteSets, SequencesExt, FiniteSetsExt

CONSTANTS
    TolNum, TolDen,     \* 1 + tol_tamanho
    MinimoPares,        \* pairs every class may have
    Bloco,              \* TAMANHO_BLOCO
    MaxBlocos,          \* blocks of a task
    CodecsRapidos, CodecsLentos, ClassesTransform

ASSUME SamplingAssumption ==
    /\ TolDen \in Nat \ {0} /\ TolNum \in Nat /\ TolNum >= TolDen
    /\ Bloco \in Nat \ {0} /\ MaxBlocos \in Nat \ {0} /\ MinimoPares \in Nat

Soma(f(_), S) == MapThenSumSet(f, S)
MenorDois(a, b) == IF a < b THEN a ELSE b

----------------------------------------------------------------------------
(***************************************************************************)
(* etapa_familias. A family is [chave, cadeia]: its key, and files in order.  *)
(***************************************************************************)
\* chave_familia: by pass.
Modos == <<"A", "B", "C">>

PorOrdem(S) == SetToSortSeq(S, LAMBDA a, b : a.ord < b.ord)
DentroTol(a, b) ==
    LET maior == Max({a.tam, b.tam}) menor == Min({a.tam, b.tam})
    IN  maior * TolDen <= TolNum * menor

\* The members in order, cut where two sizes are too far apart; one alone is no family.
montar_cadeias(membros) ==
    LET m == PorOrdem(membros)
        inicios == SetToSortSeq({k \in DOMAIN m : k = 1 \/ ~DentroTol(m[k], m[k - 1])}, <) \o <<Len(m) + 1>>
    IN  {c \in {SubSeq(m, inicios[j], inicios[j + 1] - 1) : j \in 1..(Len(inicios) - 1)} : Len(c) >= 2}

\* Those the passes before have not used.
\* The bug a check of it must find: the files a pass has used stay for the next.
Livres_todos(livres, achadas) == livres
Livres(livres, achadas) == livres \ UNION {Range(f.cadeia) : f \in achadas}

Passada(s, modo) ==
    LET chaves == {a.chave[modo] : a \in s.livres}
        achadas == UNION {{[chave |-> <<modo, k>>, cadeia |-> c] :
                            c \in montar_cadeias({a \in s.livres : a.chave[modo] = k})} : k \in chaves}
    IN  [livres |-> Livres(s.livres, achadas), familias |-> s.familias \cup achadas]

etapa_familias(arqs) ==
    FoldLeft(Passada, [livres |-> {a \in arqs : a.tam > 0 /\ a.legivel /\ ~a.redundante}, familias |-> {}],
             Modos).familias

\* Every member and the one before it.
Pares(familias) ==
    UNION {{<<f.cadeia[k - 1], f.cadeia[k]>> : k \in 2..Len(f.cadeia)} : f \in familias}

\* How many pairs of each class are measured. At least MinimoPares of each if there is room,
\* and the rest in proportion; where there is no room, in proportion, and one of each.
alocar_pares(n, total) ==
    LET classes == {c \in DOMAIN n : n[c] > 0}
        base == [c \in classes |-> MenorDois(n[c], MinimoPares)]
        soma == Soma(LAMBDA c : base[c], classes)
        falta == [c \in classes |-> n[c] - base[c]]
        tot == Soma(LAMBDA c : falta[c], classes)
        um == IF total >= Cardinality(classes) THEN 1 ELSE 0
    IN  CASE classes = {} \/ total <= 0 -> [c \in {} |-> 0]
          [] classes # {} /\ total > 0 /\ soma > total ->
                [c \in classes |-> Max({um, (base[c] * total) \div soma})]
          [] OTHER -> [c \in classes |->
                base[c] + (IF tot = 0 THEN 0
                           ELSE MenorDois(falta[c], ((total - soma) * falta[c]) \div tot))]

\* tarefa_delta: a window of both; patch is what the new one takes after the old one.
\* <<>> where one cannot be opened, or has no bytes in the window.
tarefa_delta(par, patch, aberto) ==
    IF ~aberto \/ par[1].tam = 0 \/ par[2].tam = 0 THEN <<>>
    ELSE <<[nov |-> par[2].i, ant |-> par[1].i, cls |-> par[2].cls, z3 |-> par[2].tam, patch |-> patch]>>

\* montar_familias, of a class: what is in families, and not the first of one.
montar_familias(familias, c) ==
    LET de(f, S) == {k \in S : f.cadeia[k].cls = c}
        bytes(S(_)) == Soma(LAMBDA f : Soma(LAMBDA k : f.cadeia[k].tam, de(f, S(f))), familias)
    IN  [em_familias |-> bytes(LAMBDA f : 1..Len(f.cadeia)), nao_base |-> bytes(LAMBDA f : 2..Len(f.cadeia))]

\* resumo_delta_classe: the patches over zstd-3, a fraction; <<>> with nothing to divide by.
resumo_delta_classe(medidos) ==
    LET z3 == Soma(LAMBDA r : r.z3, medidos)
    IN  IF z3 <= 0 THEN <<>> ELSE <<Soma(LAMBDA r : r.patch, medidos), z3>>

----------------------------------------------------------------------------
(***************************************************************************)
(* planejar_amostra. orc, orc_l are the bytes to read of a class, for the     *)
(* fast codecs and the slow ones.                                          *)
(***************************************************************************)
Populacao(arqs, c) == {a \in arqs : a.cls = c /\ a.tam > 0 /\ a.legivel}
BytesDe(S) == Soma(LAMBDA a : a.tam, S)
Unidades(a) == (a.tam + Bloco - 1) \div Bloco
Censo(S, orc) == orc >= BytesDe(S)

\* How many blocks of a file: its share, rounded at random.
Quantos(a, S, orc) ==
    LET b == BytesDe(S) e == orc * Unidades(a)
    IN  IF Censo(S, orc) THEN {Unidades(a)}
        ELSE {e \div b} \cup (IF e % b = 0 THEN {} ELSE {(e \div b) + 1})

Sorteios(a, S, orc) == UNION {kSubset(MenorDois(k, Unidades(a)), 1..Unidades(a)) : k \in Quantos(a, S, orc)}

\* Which of the blocks are for the slow codecs too.
Lentos(blocos, S, orc, orc_l) ==
    IF orc_l >= orc \/ Censo(S, orc_l) THEN {blocos} ELSE IF orc_l = 0 THEN {{}} ELSE SUBSET blocos

\* Where no block is for the slow codecs, the first one is.
ComUmLento(p, S) ==
    LET com == {a \in S : p[a].blocos # {}}
        primeiro == CHOOSE a \in com : \A o \in com : a.i <= o.i
    IN  IF com = {} \/ \E a \in S : p[a].lentos # {} THEN p
        ELSE [p EXCEPT ![primeiro].lentos = {Min(p[primeiro].blocos)}]

\* The plans the draws may give, for the files of a class.
planejar_amostra(S, orc, orc_l) ==
    LET de(a) == UNION {{[blocos |-> b, lentos |-> l] : l \in Lentos(b, S, orc, orc_l)} : b \in Sorteios(a, S, orc)}
    IN  {ComUmLento(p, S) : p \in {p \in [S -> UNION {de(a) : a \in S}] : \A a \in S : p[a] \in de(a)}}

\* The bug a check of it must find: a task has the first block of the next one too.
tarefas_da_amostra_uma_a_mais(p) ==
    UNION {LET bs == SetToSortSeq(p[a].blocos, <)
           IN  {[a |-> a, blocos |-> SubSeq(bs, j, MenorDois(j + MaxBlocos, Len(bs))), lentos |-> p[a].lentos] :
                    j \in {j \in DOMAIN bs : (j - 1) % MaxBlocos = 0}} : a \in DOMAIN p}

\* A task has at most MaxBlocos of the blocks of a file.
tarefas_da_amostra(p) ==
    UNION {LET bs == SetToSortSeq(p[a].blocos, <)
           IN  {[a |-> a, blocos |-> SubSeq(bs, j, MenorDois(j + MaxBlocos - 1, Len(bs))), lentos |-> p[a].lentos] :
                    j \in {j \in DOMAIN bs : (j - 1) % MaxBlocos = 0}} : a \in DOMAIN p}

----------------------------------------------------------------------------
(***************************************************************************)
(* tarefa_amostra: a row of each block; the file may be shorter than it was   *)
(* (its blocks from `fim` on are empty) and a read may fail (the blocks from   *)
(* `falha` on have no rows). Rows carry b, the block, for the properties.     *)
(***************************************************************************)
\* The transform, or none (0), that is best before zstd-3; -1 where none is tried.
Escolha(a, bl) ==
    IF a.cls \notin ClassesTransform THEN [escolha |-> -1, melhor |-> 0]
    ELSE LET t(k) == IF k = 0 THEN MenorDois(bl.z["zstd-3"], bl.n) ELSE MenorDois(bl.tr[k], bl.n)
             k == CHOOSE k \in 0..Len(bl.tr) : \A o \in 0..Len(bl.tr) : t(k) < t(o) \/ (t(k) = t(o) /\ k <= o)
         IN  [escolha |-> k, melhor |-> t(k)]

Linha(t, b) ==
    LET bl == t.a.blocos[b] lento == b \in t.lentos
    IN  [arq |-> t.a.i, b |-> b, n |-> bl.n, lento |-> lento,
         tam |-> [c \in CodecsRapidos \cup CodecsLentos |->
                    IF c \in CodecsRapidos \/ lento THEN MenorDois(bl.z[c], bl.n) ELSE 0],
         cru |-> {c \in CodecsRapidos \cup (IF lento THEN CodecsLentos ELSE {}) : bl.z[c] >= bl.n},
         escolha |-> Escolha(t.a, bl).escolha, melhor |-> Escolha(t.a, bl).melhor]

tarefa_amostra(t, falha, fim) ==
    LET lidas == SelectSeq(SubSeq(t.blocos, 1, MenorDois(falha - 1, Len(t.blocos))), LAMBDA b : b < fim)
    IN  [a |-> t.a, linhas |-> [k \in DOMAIN lidas |-> Linha(t, lidas[k])],
         erro |-> falha <= Len(t.blocos)]

\* etapa_amostrar: what an answer adds.
VaziaAmostra(S) ==
    [linhas |-> <<>>, lido |-> [a \in S |-> 0], erros |-> 0, comErro |-> {},
     porArq |-> [a \in S |-> [n |-> 0, z3 |-> 0, lento |-> 0, blocos |-> 0]]]

Chegou(s, r) ==
    LET somaL(f(_)) == FoldSeq(LAMBDA l, acc : f(l) + acc, 0, r.linhas)
    IN  [s EXCEPT !.linhas = @ \o r.linhas,
                  !.lido[r.a] = @ + somaL(LAMBDA l : l.n),
                  !.erros = @ + (IF r.erro THEN 1 ELSE 0),
                  !.comErro = @ \cup (IF r.erro THEN {r.a} ELSE {}),
                  !.porArq[r.a] = [n |-> @.n + somaL(LAMBDA l : l.n), z3 |-> @.z3 + somaL(LAMBDA l : l.tam["zstd-3"]),
                                   lento |-> @.lento + somaL(LAMBDA l : IF l.lento THEN l.n ELSE 0),
                                   blocos |-> @.blocos + Len(r.linhas)]]

----------------------------------------------------------------------------
(***************************************************************************)
(* resumir_classe, agregar_dataset. A ratio is a fraction <<num, den>>; <<>>  *)
(* stands for None.                                                        *)
(***************************************************************************)
SomaLinhas(ls, f(_)) == FoldSeq(LAMBDA l, acc : f(l) + acc, 0, ls)

\* A slow codec: over zstd-3 in the blocks drawn for it, times zstd-3 over all of them.
resumir_classe(ls, S) ==
    LET n == SomaLinhas(ls, LAMBDA l : l.n)
        z3 == SomaLinhas(ls, LAMBDA l : l.tam["zstd-3"])
        z3l == SomaLinhas(ls, LAMBDA l : IF l.lento THEN l.tam["zstd-3"] ELSE 0)
        de(c) == SomaLinhas(ls, LAMBDA l : l.tam[c])
        comT == SelectSeq(ls, LAMBDA l : l.escolha >= 0)
    IN  [arquivos |-> Cardinality({ls[k].arq : k \in DOMAIN ls}), blocos |-> Len(ls),
         bytes_populacao |-> BytesDe(S), bytes_amostrados |-> n,
         r |-> [c \in CodecsRapidos \cup CodecsLentos |->
                    IF c \in CodecsRapidos THEN (IF n > 0 THEN <<de(c), n>> ELSE <<>>)
                    ELSE IF z3l > 0 THEN <<de(c) * z3, z3l * n>> ELSE <<>>],
         crus |-> [c \in CodecsRapidos \cup CodecsLentos |-> Len(SelectSeq(ls, LAMBDA l : c \in l.cru))],
         melhor |-> IF comT = <<>> THEN <<>> ELSE <<SomaLinhas(ls, LAMBDA l : l.melhor), n>>]

\* montar_amostra: the classes with rows.
montar_amostra(pop, linhas) ==
    [c \in {c \in DOMAIN linhas : linhas[c] # <<>>} |-> resumir_classe(linhas[c], pop[c])]

\* A codec is told of the whole if every class has it; the weights are the bytes of a class.
agregar_dataset(por) ==
    LET total == Soma(LAMBDA c : por[c].bytes_populacao, DOMAIN por)
        somar(acc, c, cod) ==
            LET r == por[c].r[cod] IN <<acc[1] * r[2] + por[c].bytes_populacao * r[1] * acc[2], acc[2] * r[2]>>
        de(cod) == FoldLeft(LAMBDA acc, c : somar(acc, c, cod), <<0, 1>>, SetToSeq(DOMAIN por))
    IN  IF total <= 0 THEN [cod \in {} |-> <<>>]
        ELSE [cod \in {cod \in CodecsRapidos \cup CodecsLentos : \A c \in DOMAIN por : por[c].r[cod] # <<>>} |->
                <<de(cod)[1], de(cod)[2] * total>>]
=============================================================================
