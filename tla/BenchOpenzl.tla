------------------------------ MODULE BenchOpenzl ------------------------------
(***************************************************************************)
(* bench/openzl_bench.py razao and relatorio: every file of the manifest by   *)
(* the baselines, by OpenZL as it comes, by its profiles, and trained on the  *)
(* file's first half. The result is written over the last one when a file is  *)
(* done; --retomar goes on from what is there, --somente takes some files     *)
(* again for what they lack, --sem-treino leaves the training for later.      *)
(*                                                                         *)
(* A file of the manifest is [id, classe, n, sha_ok, base, perfis, treinar,   *)
(* exato, ferr, treino]: its labels of each kind in order, which baselines    *)
(* give it back, what the tool makes of it by label and strictness, which     *)
(* trainings work. An item of the result is [id, base, openzl, treinos], the   *)
(* rows of each in the order they came.                                    *)
(***************************************************************************)
EXTENDS Integers, Sequences, FiniteSets, SequencesExt, FiniteSetsExt

Serial == <<"generico", "serial">>
SerialL9 == <<"generico", "serial@L9">>
Vazio == [itens |-> <<>>, falhas |-> <<>>, violacoes |-> <<>>]
Tem(linhas, rot) == \E k \in DOMAIN linhas : linhas[k].rot = rot
Ids(r) == {r.itens[k].id : k \in DOMAIN r.itens}
Inexata(linha) == ~linha.falhou /\ ~linha.exato

\* Strictly; where that fails, as the tool likes it.
medir_com_fallback(it, rot) ==
    LET r == it.ferr[rot][TRUE]
        r2 == it.ferr[rot][FALSE]
    IN  IF r.falhou THEN [rot |-> rot, estrito_falhou |-> TRUE, falhou |-> r2.falhou, exato |-> r2.exato, comp |-> r2.comp]
        ELSE [rot |-> rot, estrito_falhou |-> FALSE, falhou |-> FALSE, exato |-> r.exato, comp |-> r.comp]

Violou(s, linha) == IF Inexata(linha) THEN Append(s.violacoes, <<s.item.id, linha.rot>>) ELSE s.violacoes

Baseline(it, s, rot) ==
    LET linha == [rot |-> rot, falhou |-> FALSE, exato |-> it.exato[rot]]
    IN  IF Tem(s.item.base, rot) THEN s
        ELSE [s EXCEPT !.item.base = Append(@, linha), !.violacoes = Violou(s, linha)]

Perfil(it, s, rot) ==
    LET linha == medir_com_fallback(it, rot)
    IN  IF Tem(s.item.openzl, rot) THEN s
        ELSE [s EXCEPT !.item.openzl = Append(@, linha), !.violacoes = Violou(s, linha)]

\* A training is made once, whether it works or not; what comes of it is measured.
Treinar(it, s, rot) ==
    LET feito == [s EXCEPT !.item.treinos = Append(@, [rot |-> rot, ok |-> it.treino[rot]])]
    IN  IF Tem(s.item.treinos, rot) THEN s
        ELSE IF ~it.treino[rot] THEN [feito EXCEPT !.falhas = Append(@, <<it.id, rot>>)]
        ELSE Perfil(it, feito, rot)

MedirItem(it, a, r, item) ==
    LET s0 == [item |-> item, falhas |-> r.falhas, violacoes |-> r.violacoes]
        s1 == FoldLeft(LAMBDA s, rot : Baseline(it, s, rot), s0, it.base)
        s2 == FoldLeft(LAMBDA s, rot : Perfil(it, s, rot), s1, <<Serial, SerialL9>> \o it.perfis)
    IN  IF a.sem_treino THEN s2 ELSE FoldLeft(LAMBDA s, rot : Treinar(it, s, rot), s2, it.treinar)

Pulado(a, r, id) == IF a.somente = {} THEN id \in Ids(r) ELSE id \notin a.somente

\* What the loop makes of the result for a file, and whether it is written then.
RazaoItem(it, a, r) ==
    LET novo == it.id \notin Ids(r)
        k == IF novo THEN Len(r.itens) + 1 ELSE CHOOSE k \in DOMAIN r.itens : r.itens[k].id = it.id
        item == IF novo THEN [id |-> it.id, base |-> <<>>, openzl |-> <<>>, treinos |-> <<>>] ELSE r.itens[k]
        s == MedirItem(it, a, r, item)
    IN  CASE Pulado(a, r, it.id) -> [r |-> r, grava |-> FALSE]
          [] ~Pulado(a, r, it.id) /\ ~it.sha_ok ->
                [r |-> [r EXCEPT !.falhas = Append(@, <<it.id, <<"sha">>>>)], grava |-> FALSE]
          [] OTHER -> [r |-> [itens |-> IF novo THEN Append(r.itens, s.item) ELSE [r.itens EXCEPT ![k] = s.item],
                              falhas |-> s.falhas, violacoes |-> s.violacoes], grava |-> TRUE]

\* The result a run begins with; disco is <<>>, or has what was written last.
\* The bug a check of it must find: --retomar begins from nothing, and the first file
\* that is measured writes over what an earlier run had measured.
Retomado_do_zero(disco, a) == Vazio

Retomado(disco, a) == IF a.retomar /\ disco # <<>> THEN disco[1] ELSE Vazio

----------------------------------------------------------------------------
(***************************************************************************)
(* construir_relatorio.                                                    *)
(***************************************************************************)
\* The first of the best ratio; 0 if all failed.
melhor_openzl(linhas) ==
    LET ok == {k \in DOMAIN linhas : ~linhas[k].falhou}
    IN  IF ok = {} THEN 0
        ELSE CHOOSE k \in ok : \A o \in ok : linhas[k].comp < linhas[o].comp \/ (linhas[k].comp = linhas[o].comp /\ k <= o)

\* What one would have chosen without measuring: trained, then a profile, then as it comes.
escolher_apriori(linhas) ==
    LET ok == {k \in DOMAIN linhas : ~linhas[k].falhou}
        de(tipo, S) == {k \in S : linhas[k].rot[1] = tipo}
        serial == {k \in ok : linhas[k].rot = <<"treinado", "serial">>}
        preferidos == <<de("treinado", ok) \ serial, serial, de("perfil", ok), {k \in DOMAIN linhas : linhas[k].rot = Serial}>>
        i == CHOOSE i \in DOMAIN preferidos : preferidos[i] # {} /\ \A j \in 1..(i - 1) : preferidos[j] = {}
    IN  Min(preferidos[i])

LinhaDe(item) ==
    LET g == SelectSeq(item.openzl, LAMBDA l : l.rot[1] = "generico")
        ap == item.openzl[escolher_apriori(item.openzl)]
        mb == melhor_openzl(item.openzl)
    IN  [id |-> item.id, melhor_configuracao |-> item.openzl[mb].rot, apriori |-> ap.rot,
         bytes |-> [melhor |-> item.openzl[mb].comp, apriori |-> ap.comp, generico |-> g[melhor_openzl(g)].comp],
         estrito_falhou |-> {item.openzl[k].rot : k \in {k \in DOMAIN item.openzl : item.openzl[k].estrito_falhou}}]

\* The report asks for the ratio of what comes as it is: without one it stops.
Relatavel(item) == \A k \in DOMAIN item.openzl : item.openzl[k].rot = Serial => ~item.openzl[k].falhou

\* Of the classes: the bytes of their files, and what they came to.
construir_relatorio(r, manifesto) ==
    LET it(id) == CHOOSE x \in Range(manifesto) : x.id = id
        linhas == [k \in DOMAIN r.itens |-> LinhaDe(r.itens[k])]
        De(c) == {k \in DOMAIN linhas : it(linhas[k].id).classe = c}
        soma(c, campo) == MapThenSumSet(LAMBDA k : linhas[k].bytes[campo], De(c))
    IN  IF \E k \in DOMAIN r.itens : ~Relatavel(r.itens[k]) THEN [erro |-> TRUE]
        ELSE [erro |-> FALSE, itens |-> linhas,
              classes |-> [c \in {it(id).classe : id \in Ids(r)} |->
                [teste_bytes |-> MapThenSumSet(LAMBDA k : it(linhas[k].id).n, De(c)),
                 melhor |-> soma(c, "melhor"), apriori |-> soma(c, "apriori"), generico |-> soma(c, "generico")]]]
=============================================================================
