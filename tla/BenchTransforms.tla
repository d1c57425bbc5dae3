---------------------------- MODULE BenchTransforms ----------------------------
(***************************************************************************)
(* How the bench tools rewrite and cut bytes before they measure: the        *)
(* transforms of bench/plano_bloco.py and their emulation in                 *)
(* bench/openzl_bench.py, the halves and blocks OpenZL is trained and tested  *)
(* on, and the files the kernel's tar is sorted into. A byte is a number      *)
(* below Base; 0 is the newline and 1 the comma.                             *)
(***************************************************************************)
EXTENDS Naturals, Integers, Sequences, FiniteSets, SequencesExt, FiniteSetsExt

CONSTANTS
    Base,           \* values of a byte
    MinBloco,       \* below so many bytes for each, nothing is cut in blocks
    Grande, Medio,  \* bytes above which a top of the tree is split, a part of it kept
    Setor           \* bytes of a header of the tar, to a multiple of which its files are filled

ASSUME TransformsAssumption ==
    /\ Base \in Nat /\ Base >= 4 /\ {MinBloco, Grande, Medio} \subseteq Nat /\ Setor \in Nat \ {0}

NovaLinha == 0
Virgula == 1

----------------------------------------------------------------------------
(***************************************************************************)
(* plano_bloco.py: delta and byte split, over words of w bytes (the low byte *)
(* first); what is left of the last word stays as it is.                     *)
(***************************************************************************)
Cauda(b, w) == SubSeq(b, (Len(b) \div w) * w + 1, Len(b))
Palavras(b, w) ==
    [i \in 1..(Len(b) \div w) |->
        FoldRight(LAMBDA x, acc : x + Base * acc, SubSeq(b, (i - 1) * w + 1, i * w), 0)]
EmBytes(ps, w) ==
    FlattenSeq([i \in DOMAIN ps |-> [k \in 1..w |-> (ps[i] \div Base ^ (k - 1)) % Base]])

delta_apply(b, w) ==
    LET a == Palavras(b, w)
    IN  EmBytes([i \in DOMAIN a |-> IF i = 1 THEN a[1] ELSE (a[i] - a[i - 1]) % Base ^ w], w) \o Cauda(b, w)

delta_invert(b, w) ==
    LET d == Palavras(b, w)
    IN  EmBytes([i \in DOMAIN d |-> FoldSeq(LAMBDA x, acc : x + acc, 0, SubSeq(d, 1, i)) % Base ^ w], w)
        \o Cauda(b, w)

\* The bytes as n rows of w, and the columns of that.
bsplit_apply(b, w) ==
    LET n == Len(b) \div w
    IN  [k \in 1..(n * w) |-> b[((k - 1) % n) * w + ((k - 1) \div n) + 1]] \o Cauda(b, w)

\* The bug a check of it must find: the rows and the columns are confused.
bsplit_invert_trocado(b, w) == bsplit_apply(b, w)

bsplit_invert(b, w) ==
    LET n == Len(b) \div w
    IN  [k \in 1..(n * w) |-> b[((k - 1) % w) * n + ((k - 1) \div w) + 1]] \o Cauda(b, w)

aplicar(b, t) == IF t.tipo = "delta" THEN delta_apply(b, t.w) ELSE bsplit_apply(b, t.w)
inverter(b, t) == IF t.tipo = "delta" THEN delta_invert(b, t.w) ELSE bsplit_invert(b, t.w)

\* The slow ones they are tested against.
delta_ref(b, w) ==
    LET a == <<0>> \o Palavras(b, w)
    IN  EmBytes([i \in 1..(Len(a) - 1) |-> (a[i + 1] - a[i] + Base ^ w) % Base ^ w], w) \o Cauda(b, w)

bsplit_ref(b, w) ==
    LET n == Len(b) \div w
        De(k) == CHOOSE pi \in (0..(w - 1)) \X (0..(n - 1)) : pi[1] * n + pi[2] = k - 1
    IN  [k \in DOMAIN b |-> IF k <= n * w THEN b[De(k)[2] * w + De(k)[1] + 1] ELSE b[k]]

----------------------------------------------------------------------------
(***************************************************************************)
(* openzl_bench.py: the same by slices, and a CSV by columns.               *)
(***************************************************************************)
t_delta(b, w) ==
    LET a == Palavras(b, w)
        resto == [i \in 1..(Len(a) - 1) |-> (a[i + 1] - a[i]) % Base ^ w]
    IN  (IF a = <<>> THEN <<>> ELSE EmBytes(<<a[1]>> \o resto, w)) \o Cauda(b, w)

t_delta_inv(b, w) ==
    LET soma(acc, x) == Append(acc, ((IF acc = <<>> THEN 0 ELSE Last(acc)) + x) % Base ^ w)
    IN  EmBytes(FoldLeft(soma, <<>>, Palavras(b, w)), w) \o Cauda(b, w)

t_split(b, w) ==
    LET n == Len(b) \div w
    IN  FlattenSeq([p \in 1..w |-> [i \in 1..n |-> b[(i - 1) * w + p]]]) \o Cauda(b, w)

t_split_inv(b, w) ==
    LET n == Len(b) \div w
        fatia(p) == SubSeq(b, (p - 1) * n + 1, p * n)
    IN  [k \in 1..(n * w) |-> fatia(((k - 1) % w) + 1)[((k - 1) \div w) + 1]] \o Cauda(b, w)

\* A number as bytes of half a Base each, the low one first; all but the last are marked.
Meia == Base \div 2
RECURSIVE varint(_)
varint(v) == IF v < Meia THEN <<v>> ELSE <<(v % Meia) + Meia>> \o varint(v \div Meia)

\* What is between the separators.
Partes(b, sep) ==
    LET fins == SetToSortSeq({k \in DOMAIN b : b[k] = sep}, <) \o <<Len(b) + 1>>
    IN  [i \in DOMAIN fins |-> SubSeq(b, (IF i = 1 THEN 1 ELSE fins[i - 1] + 1), fins[i] - 1)]

Juntar(partes, sep) ==
    FlattenSeq([i \in DOMAIN partes |-> IF i = 1 THEN partes[1] ELSE <<sep>> \o partes[i]])

\* <<>> where it does not apply: no table of two columns and four lines.
t_csv(b) ==
    LET final == b # <<>> /\ Last(b) = NovaLinha
        corpo == IF final THEN Front(b) ELSE b
        linhas == [i \in DOMAIN Partes(corpo, NovaLinha) |-> Partes(Partes(corpo, NovaLinha)[i], Virgula)]
        cols == Len(linhas[1])
        campos == FlattenSeq([c \in 1..cols |-> [i \in DOMAIN linhas |-> linhas[i][c]]])
    IN  IF cols < 2 \/ Len(linhas) < 4 \/ \E i \in DOMAIN linhas : Len(linhas[i]) # cols THEN <<>>
        ELSE <<Base - 1, Virgula, IF final THEN 1 ELSE 0>> \o varint(Len(linhas)) \o varint(cols)
             \o FlattenSeq([i \in DOMAIN campos |-> varint(Len(campos[i]))]) \o FlattenSeq(campos)

\* The number at place p, and the place behind it.
RECURSIVE ler(_, _)
ler(b, p) ==
    IF b[p] < Meia THEN <<b[p], p + 1>>
    ELSE LET resto == ler(b, p + 1) IN <<(b[p] - Meia) + Meia * resto[1], resto[2]>>

RECURSIVE lerVarios(_, _, _)
lerVarios(b, p, n) ==
    IF n = 0 THEN <<<<>>, p>>
    ELSE LET v == ler(b, p)
             resto == lerVarios(b, v[2], n - 1)
         IN  <<<<v[1]>> \o resto[1], resto[2]>>

t_csv_inv(b) ==
    LET l == ler(b, 4)
        c == ler(b, l[2])
        tams == lerVarios(b, c[2], l[1] * c[1])
        Ate(k) == tams[2] + FoldSeq(LAMBDA x, acc : x + acc, 0, SubSeq(tams[1], 1, k))
        campos == [k \in DOMAIN tams[1] |-> SubSeq(b, Ate(k - 1), Ate(k) - 1)]
        linhas == [i \in 1..l[1] |-> Juntar([j \in 1..c[1] |-> campos[(j - 1) * l[1] + i]], b[2])]
    IN  Juntar(linhas, NovaLinha) \o (IF b[3] # 0 THEN <<NovaLinha>> ELSE <<>>)

\* The chains that are measured: of a CSV, or of numbers of w bytes.
cadeias_transformadas(tipo, w) ==
    LET t(op, l) == [op |-> op, w |-> l]
    IN  IF tipo = "csv"
        THEN {<<>>, <<t("csv", 0)>>, <<t("csv", 0), t("delta", 1)>>}
        ELSE {<<>>, <<t("split", w)>>, <<t("delta", w)>>, <<t("delta", w), t("split", w)>>}

direta(b, t) ==
    CASE t.op = "csv" -> t_csv(b) [] t.op = "delta" -> t_delta(b, t.w) [] t.op = "split" -> t_split(b, t.w)
inversa(b, t) ==
    CASE t.op = "csv" -> t_csv_inv(b) [] t.op = "delta" -> t_delta_inv(b, t.w)
      [] t.op = "split" -> t_split_inv(b, t.w)

\* A chain stops where a transform does not apply; it is undone from its end.
cmd_transformadas(b, tipo, w) ==
    [cad \in cadeias_transformadas(tipo, w) |->
        IF cad # <<>> /\ cad[1].op = "csv" /\ t_csv(b) = <<>> THEN [aplicavel |-> FALSE, bit_exato |-> FALSE]
        ELSE LET x == FoldLeft(direta, b, cad)
             IN  [aplicavel |-> TRUE, bit_exato |-> FoldLeft(inversa, x, Reverse(cad)) = b]]

----------------------------------------------------------------------------
(***************************************************************************)
(* openzl_bench.py: training is the first half of a file, the test the rest; *)
(* both are cut where a record (alin bytes, behind base of them) or a line   *)
(* begins. Places count from 0.                                             *)
(***************************************************************************)
Chao(x, alin, base) == base + ((x - base) \div alin) * alin
\* The place behind the first newline from p on; -1 if there is none.
AposLinha(b, p) ==
    LET ks == {k \in DOMAIN b : k > p /\ b[k] = NovaLinha} IN IF ks = {} THEN -1 ELSE Min(ks)

particionar(b, alin, base, por_linha) ==
    LET corte == base + (((Len(b) - base) \div 2) \div alin) * alin
    IN  IF por_linha /\ AposLinha(b, corte) # -1 THEN AposLinha(b, corte) ELSE corte

dividir_em_blocos(b, k, alin, base, por_linha) ==
    LET n == Len(b)
        prox(pos, i) ==
            LET c == Max({Chao((n * i) \div k, alin, base), Last(pos)})
            IN  IF ~por_linha THEN c ELSE IF AposLinha(b, c) = -1 THEN n ELSE AposLinha(b, c)
        pos == Append(FoldLeft(LAMBDA acc, i : Append(acc, prox(acc, i)), <<0>>, [i \in 1..(k - 1) |-> i]), n)
        blocos == [i \in 1..k |-> SubSeq(b, pos[i] + 1, pos[i + 1])]
    IN  IF k <= 1 \/ n < k * MinBloco THEN <<b>> ELSE SelectSeq(blocos, LAMBDA x : x # <<>>)

\* cmd_preparar, of a file: a CSV has its first line before the test and every sample.
preparar(b, k, alin, base, por_linha, csv) ==
    LET corte == particionar(b, alin, base, por_linha)
        cab == IF csv THEN SubSeq(b, 1, AposLinha(b, 0)) ELSE <<>>
        com(x) == IF IsPrefix(cab, x) THEN x ELSE cab \o x
        blocos == dividir_em_blocos(SubSeq(b, 1, corte), k, alin, base, por_linha)
    IN  [corte |-> corte, cab |-> cab, blocos |-> blocos,
         amostras |-> [i \in DOMAIN blocos |-> com(blocos[i])],
         teste |-> cab \o SubSeq(b, corte + 1, Len(b))]

\* The blocks frames are made of; the rest of the file, and a block without an end, are left.
RECURSIVE cortar_de(_, _, _, _, _)
cortar_de(b, pos, tam, maximo, por_linha) ==
    LET fim == IF por_linha /\ pos + tam < Len(b) THEN AposLinha(b, pos + tam) ELSE pos + tam
    IN  IF pos >= Len(b) \/ maximo = 0 \/ pos + tam >= Len(b) \/ fim = -1 THEN <<>>
        ELSE <<SubSeq(b, pos + 1, fim)>> \o cortar_de(b, fim, tam, maximo - 1, por_linha)

cortar_blocos(b, tam, maximo, alin, por_linha) ==
    cortar_de(b, 0, Max({alin, (tam \div alin) * alin}), maximo, por_linha)

----------------------------------------------------------------------------
(***************************************************************************)
(* plano_bloco.py, kernel: the tar as a sequence of entries [tipo, nome,     *)
(* dados, path, size]: tipo is "0" (a regular file), "5", "L", "x" or "g"; a *)
(* name is a sequence of parts, a part one of characters, in their order;    *)
(* path and size are what an L or an x says of the next (<<>>, -1: nothing). *)
(* The tool stops at its limit, which may cut the last file it reads; a flow  *)
(* that ends early does the same.                                           *)
(***************************************************************************)
Ponto == 1      \* any character but letters, digits, "-" and "_"
Traco == 2      \* "_"
Raiz == <<9>>   \* "raiz"
Resto == <<8>>  \* "resto"

grupo_de(nome) ==
    CASE Len(nome) <= 2 -> <<Raiz, <<Traco>>>>
      [] Len(nome) = 3 -> <<nome[2], <<Traco>>>>
      [] Len(nome) > 3 -> <<nome[2], nome[3]>>

Enchido(n) == n + ((-n) % Setor)  \* with its padding

\* A name or a size of an L or an x is for the next entry that is neither; g is read and not used.
LerEntrada(s, e, limite) ==
    LET nome == IF s.pax # <<>> /\ s.pax[1].path # <<>> THEN s.pax[1].path
                ELSE IF s.longo # <<>> THEN s.longo ELSE e.nome
        tam == IF s.pax # <<>> /\ s.pax[1].size # -1 THEN s.pax[1].size ELSE e.tam
        lido == Min({tam, Max({0, limite - (s.pos + Setor)})})
        k == grupo_de(nome)
        antes == IF k \in DOMAIN s.grupos THEN s.grupos[k] ELSE [dados |-> <<>>, n |-> 0]
        livre == [s EXCEPT !.longo = <<>>, !.pax = <<>>, !.pos = @ + Setor + Enchido(tam)]
        passada == [s EXCEPT !.pos = @ + Setor + Enchido(e.tam)]
    IN  CASE s.parou \/ s.pos >= limite -> s
          [] ~s.parou /\ s.pos < limite /\ e.tipo = "L" -> [passada EXCEPT !.longo = e.path]
          [] ~s.parou /\ s.pos < limite /\ e.tipo = "x" -> [passada EXCEPT !.pax = <<e>>]
          [] ~s.parou /\ s.pos < limite /\ e.tipo = "g" -> passada
          [] ~s.parou /\ s.pos < limite /\ e.tipo = "0" ->
                [livre EXCEPT !.grupos = (k :> [dados |-> antes.dados \o SubSeq(e.dados, 1, lido), n |-> antes.n + 1]) @@ @,
                              !.n_reg = @ + 1, !.parou = lido < tam,
                              !.pos = IF lido < tam THEN s.pos + Setor + lido ELSE @]
          [] OTHER -> livre

\* sorted: of two names.
Vem(a, b) ==
    \/ IsStrictPrefix(a, b)
    \/ \E i \in 1..Min({Len(a), Len(b)}) : a[i] < b[i] /\ \A j \in 1..(i - 1) : a[j] = b[j]

\* The pieces the groups are put together to: a top that is big gives one to every part of
\* some size and one to the rest. A name is put together with "_".
Pedacos(grupos) ==
    LET tops == {k[1] : k \in DOMAIN grupos}
        De(top) == {k \in DOMAIN grupos : k[1] = top}
        total(top) == MapThenSumSet(LAMBDA k : Len(grupos[k].dados), De(top))
        Medios(top) == {k \in De(top) : Len(grupos[k].dados) >= Medio}
        resto(top) == De(top) \ Medios(top)
        grandes == {top \in tops : total(top) > Grande}
        pedaco(top, resta, nome, ks) == [top |-> top, resto |-> resta, nome |-> nome, ks |-> ks]
    IN  {pedaco(top, FALSE, top, De(top)) : top \in tops \ grandes}
        \cup UNION {{pedaco(top, FALSE, top \o <<Traco>> \o k[2], {k}) : k \in Medios(top)} : top \in grandes}
        \cup {pedaco(top, TRUE, top \o <<Traco, Traco>> \o Resto, resto(top)) :
                    top \in {top \in grandes : \E k \in resto(top) : grupos[k].dados # <<>>}}

\* Of the pieces of one name the last is kept: of a later top, or the rest of one.
finais(pedacos) ==
    {p \in pedacos : \A q \in pedacos : q # p /\ q.nome = p.nome =>
        Vem(q.top, p.top) \/ (q.top = p.top /\ p.resto)}

\* The name of a file; one of two files of a name is written over, by the later.
seguro(nome) == [i \in DOMAIN nome |-> IF nome[i] = Ponto THEN Traco ELSE nome[i]]
gravados(pedacos) ==
    LET ps == finais(pedacos)
    IN  {p \in ps : \A q \in ps : q # p /\ seguro(q.nome) = seguro(p.nome) => Vem(q.nome, p.nome)}

extrair_kernel(entradas, limite) ==
    LET s == FoldLeft(LAMBDA acc, e : LerEntrada(acc, e, limite),
                      [longo |-> <<>>, pax |-> <<>>, grupos |-> <<>>, n_reg |-> 0, pos |-> 0, parou |-> FALSE], entradas)
        pedacos == Pedacos(s.grupos)
        De(caminho) == CHOOSE p \in gravados(pedacos) : seguro(p.nome) = caminho
        ordem(p) == SetToSortSeq(p.ks, LAMBDA a, b : Vem(a[2], b[2]))
    IN  [n_reg |-> s.n_reg, pos |-> s.pos, pedacos |-> pedacos,
         grupos |-> [caminho \in {seguro(p.nome) : p \in pedacos} |->
            [dados |-> FlattenSeq([i \in DOMAIN ordem(De(caminho)) |-> s.grupos[ordem(De(caminho))[i]].dados]),
             n |-> MapThenSumSet(LAMBDA k : s.grupos[k].n, De(caminho).ks)]]]
=============================================================================
