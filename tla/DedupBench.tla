----------------------------- MODULE DedupBench -----------------------------
(***************************************************************************)
(* bench/dedup.py: the preparation of the versions, that a kill or a failed *)
(* download may interrupt and the user starts again, and the task of the    *)
(* analysis that cuts two versions into chunks, keeps each chunk once, and  *)
(* rebuilds the second version from what it kept.  bench/cdc.c gives the    *)
(* cuts.  Names in the code's words.                                        *)
(*                                                                         *)
(* A byte is a small number and a hash is what was hashed.                  *)
(***************************************************************************)
EXTENDS Naturals, Sequences, FiniteSets, FiniteSetsExt, SequencesExt

CONSTANTS
    Pares,              \* the pairs of versions: for each, a sequence of
                        \* [c |-> path, s |-> bytes]
    Chunkers,           \* [tipo |-> "fixo" or "cdc", alvo |-> bytes]
    Divisor, Fator,     \* a chunk of cdc has alvo \div Divisor to alvo * Fator bytes (4, 8)
    Gear,               \* the random number of each byte
    MaxExec             \* how often the preparation is started

ASSUME SizesAssumption ==
    /\ {Divisor, Fator} \subseteq Nat \ {0} /\ MaxExec \in Nat
    /\ \A k \in Chunkers : k.alvo \in Nat /\ k.alvo >= Divisor

Vers == {1, 2}

\* A file of a version: where it is, and its bytes.
Arquivo == [c : Nat, s : Seq(Nat)]
ASSUME PairsAssumption == \A p \in Pares : \A v \in Vers : p[v] \in Seq(Arquivo)

VARIABLES
    par,        \* what the server has: the two versions
    disco,      \* dl, arv, tar and manifesto of each version
    sums,       \* sha256sums.asc
    prep,       \* fase_preparar: the version and the statement it has reached
    exec,       \* how often it was started
    tarefa,     \* the conjunto and the chunker of the task of the analysis
    an          \* the locals of varrer_chunks

vars == <<par, disco, sums, prep, exec, tarefa, an>>

\* A file on disk is absent, begun or whole.
Novo == [dl |-> "none", arv |-> FALSE, tar |-> "none", man |-> "none"]
Parado == [ver |-> 0, at |-> "parado"]
NoTask == [tipo |-> "none", chunker |-> [tipo |-> "fixo", alvo |-> 1]]
NoScan == [at |-> "none", ver |-> 1, i |-> 1, pos |-> 0, unicos |-> <<>>, rec |-> <<<<>>, <<>>>>,
           ini |-> <<<<>>, <<>>>>, vs_v1 |-> 0, dup_total |-> 0, bit_exato |-> TRUE]

Init ==
    /\ par \in Pares
    /\ disco = [v \in Vers |-> Novo]
    /\ sums = "none"
    /\ prep = Parado
    /\ exec = 0
    /\ tarefa = NoTask
    /\ an = NoScan

----------------------------------------------------------------------------
(***************************************************************************)
(* fase_preparar, preparar_versao.                                         *)
(***************************************************************************)
Rest == UNCHANGED <<par, sums, exec, tarefa, an>>

Iniciar ==
    /\ prep = Parado /\ exec < MaxExec /\ tarefa = NoTask
    /\ exec' = exec + 1
    /\ prep' = [ver |-> 1, at |-> IF sums = "none" THEN "baixar_somas" ELSE "somas"]
    /\ UNCHANGED <<par, disco, sums, tarefa, an>>

Em(at) == prep.at = at
Vai(at) == prep' = [prep EXCEPT !.at = at]
Erro == prep' = Parado

Poe(campo, x) == disco' = [disco EXCEPT ![prep.ver] = [@ EXCEPT ![campo] = x]]

\* sha_esperado: a failure of the read, or a kill, leaves the file of sums empty.
BaixarSomas ==
    /\ Em("baixar_somas") /\ sums = "none"
    /\ sums' = "part"
    /\ UNCHANGED <<par, disco, prep, exec, tarefa, an>>

SomasChegam ==
    /\ Em("baixar_somas") /\ sums = "part"
    /\ sums' = "whole"
    /\ Vai("somas")
    /\ UNCHANGED <<par, disco, exec, tarefa, an>>

Somas ==
    /\ Em("somas")
    /\ IF sums = "whole" THEN Vai("baixar") ELSE Erro
    /\ UNCHANGED disco /\ Rest

Baixar ==
    /\ Em("baixar")
    /\ IF disco[prep.ver].dl = "none"
          THEN Poe("dl", "part") /\ Vai("baixando")
          ELSE UNCHANGED disco /\ Vai("conferir")
    /\ Rest

Baixado == Em("baixando") /\ Poe("dl", "whole") /\ Vai("conferir") /\ Rest

\* The bug a check of it must find: the file on disk is taken as it is.
ConferirNada ==
    /\ Em("conferir")
    /\ Vai("arv")
    /\ UNCHANGED disco /\ Rest

\* esperado != obtido: the sum of the file on disk, however it got there.
Conferir ==
    /\ Em("conferir")
    /\ IF disco[prep.ver].dl = "whole" THEN Vai("arv") ELSE Erro
    /\ UNCHANGED disco /\ Rest

\* makedirs(exist_ok=False), extractall, the walk.
Extrair ==
    /\ Em("arv")
    /\ IF disco[prep.ver].arv THEN Erro /\ UNCHANGED disco
       ELSE Poe("arv", TRUE) /\ Vai("tar")
    /\ Rest

Empacotar ==
    /\ Em("tar")
    /\ IF disco[prep.ver].tar # "none" THEN Erro /\ UNCHANGED disco
       ELSE Poe("tar", "part") /\ Vai("empacotando")
    /\ Rest

Empacotado == Em("empacotando") /\ Poe("tar", "whole") /\ Vai("apagar") /\ Rest
Apagar == Em("apagar") /\ Poe("arv", FALSE) /\ Vai("manifesto") /\ Rest
Manifesto == Em("manifesto") /\ Poe("man", "part") /\ Vai("escrevendo") /\ Rest

Escrito ==
    /\ Em("escrevendo")
    /\ Poe("man", "whole")
    /\ prep' = IF prep.ver = 1 THEN [ver |-> 2, at |-> "somas"] ELSE Parado
    /\ Rest

\* A kill anywhere, or a download that fails.
Interrompe == prep # Parado /\ Erro /\ UNCHANGED disco /\ Rest

fase_preparar ==
    \/ Iniciar \/ BaixarSomas \/ SomasChegam \/ Somas \/ Baixar \/ Baixado \/ Conferir
    \/ Extrair \/ Empacotar \/ Empacotado \/ Apagar \/ Manifesto \/ Escrito \/ Interrompe

----------------------------------------------------------------------------
(***************************************************************************)
(* Fonte: the files of a version one by one, without the empty ones, or its *)
(* tar as one file (a header, here the path, before each).                  *)
(***************************************************************************)
Cheios(f) ==
    LET junta(acc, x) == IF x.s = <<>> THEN acc ELSE Append(acc, x) IN FoldLeft(junta, <<>>, f)
Pacote(f) ==
    LET junta(acc, x) == acc \o <<x.c>> \o x.s
    IN  <<[c |-> 0, s |-> FoldLeft(junta, <<>>, f)]>>

Fonte(tipo, v) == IF tipo = "arvore" THEN Cheios(par[v]) ELSE Pacote(par[v])

itens(v) == Fonte(tarefa.tipo, v)
Total(seq) == LET soma(acc, x) == acc + Len(x.s) IN FoldLeft(soma, 0, seq)

\* The bug a check of it must find: files of one size count as equal.
categoria_por_tamanho(x) ==
    LET antes == {y \in ToSet(itens(1)) : y.c = x.c} IN
    IF antes = {} THEN "novo"
    ELSE IF \E y \in antes : Len(y.s) = Len(x.s) THEN "igual" ELSE "alterado"

categoria(x) ==
    LET antes == {y \in ToSet(itens(1)) : y.c = x.c} IN
    IF antes = {} THEN "novo" ELSE IF \E y \in antes : y.s = x.s THEN "igual" ELSE "alterado"

(***************************************************************************)
(* fastcdc_cortar: the first position after the minimum where the hash of   *)
(* the bytes met fits the strict mask, then the loose one, then the limit.  *)
(***************************************************************************)
Menor(a, b) == IF a < b THEN a ELSE b
Impressao(buf, pos, de, ate) ==
    LET passo(fp, b) == (2 * fp + Gear[b]) % 16
    IN  FoldLeft(passo, 0, SubSeq(buf, pos + de + 1, pos + ate + 1))

fastcdc_cortar(buf, pos, minimo, normal, maximo) ==
    LET resto == Len(buf) - pos
        lim == Menor(resto, maximo)
        nor == Menor(normal, lim)
        casa(i) == Impressao(buf, pos, minimo, i) % (IF i < nor THEN 4 ELSE 2) = 0
        cortes == {i \in minimo..(lim - 1) : casa(i)}
    IN  IF resto <= minimo THEN resto ELSE IF cortes = {} THEN lim ELSE Min(cortes) + 1

minimo_de(cfg) == cfg.alvo \div Divisor

chunkear(buf, pos, cfg) ==
    IF cfg.tipo = "fixo" THEN Menor(cfg.alvo, Len(buf) - pos)
    ELSE fastcdc_cortar(buf, pos, minimo_de(cfg), cfg.alvo, cfg.alvo * Fator)

\* The entries offs and tams have room for.
Capacidade(n, cfg) ==
    IF cfg.tipo = "fixo" THEN n ELSE n \div minimo_de(cfg) + 2

----------------------------------------------------------------------------
(***************************************************************************)
(* varrer_chunks.                                                          *)
(***************************************************************************)
\* fontes_do_conjunto: the manifest and the tar of both versions are read.
Analisar(tipo, cfg) ==
    /\ prep = Parado /\ tarefa = NoTask
    /\ \A v \in Vers : disco[v].man = "whole" /\ disco[v].tar # "none"
    /\ tarefa' = [tipo |-> tipo, chunker |-> cfg]
    /\ an' = [NoScan EXCEPT !.at = "varrer"]
    /\ UNCHANGED <<par, disco, sums, prep, exec>>

\* The bug a check of it must find: the hash is of the first bytes.
ConhecidoCurto(h) ==
    LET us == {u \in DOMAIN an.unicos : Len(an.unicos[u].h) = Len(h) /\ an.unicos[u].h[1] = h[1]}
    IN  IF us = {} THEN 0 ELSE Min(us)

\* The unique chunk of a hash, 0 when there is none: dic.get.
Conhecido(h) ==
    LET us == {u \in DOMAIN an.unicos : an.unicos[u].h = h} IN IF us = {} THEN 0 ELSE Min(us)

Item == itens(an.ver)[an.i].s

AbrirItem ==
    /\ an.at = "varrer" /\ an.i <= Len(itens(an.ver)) /\ Len(an.ini[an.ver]) < an.i
    /\ an' = [an EXCEPT !.ini[an.ver] = Append(@, Len(an.rec[an.ver]) + 1)]
    /\ UNCHANGED <<par, disco, sums, prep, exec, tarefa>>

Chunk ==
    /\ an.at = "varrer" /\ an.i <= Len(itens(an.ver)) /\ Len(an.ini[an.ver]) = an.i
    /\ an.pos < Len(Item)
    /\ LET tam == chunkear(Item, an.pos, tarefa.chunker)
           h == SubSeq(Item, an.pos + 1, an.pos + tam)
           u == Conhecido(h)
           novo == [h |-> h, ver |-> an.ver, obj |-> an.i, off |-> an.pos, tam |-> tam]
           dup == u # 0 /\ an.ver = 2
       IN  an' = [an EXCEPT
             !.pos = @ + tam,
             !.unicos = IF u = 0 THEN Append(@, novo) ELSE @,
             !.rec[an.ver] = Append(@, IF u = 0 THEN Len(an.unicos) + 1 ELSE u),
             !.dup_total = IF dup THEN @ + tam ELSE @,
             !.vs_v1 = IF dup /\ an.unicos[u].ver = 1 THEN @ + tam ELSE @]
    /\ UNCHANGED <<par, disco, sums, prep, exec, tarefa>>

ProximoItem ==
    /\ an.at = "varrer" /\ an.i <= Len(itens(an.ver))
    /\ Len(an.ini[an.ver]) = an.i /\ an.pos = Len(Item)
    /\ an' = [an EXCEPT !.i = @ + 1, !.pos = 0]
    /\ UNCHANGED <<par, disco, sums, prep, exec, tarefa>>

ProximaVersao ==
    /\ an.at = "varrer" /\ an.i > Len(itens(an.ver))
    /\ an' = IF an.ver = 1 THEN [an EXCEPT !.ver = 2, !.i = 1]
             ELSE [an EXCEPT !.at = "reconstruir"]
    /\ UNCHANGED <<par, disco, sums, prep, exec, tarefa>>

\* The bytes of a unique chunk, read again where it was first met.
Bytes(u) ==
    LET x == an.unicos[u] IN SubSeq(itens(x.ver)[x.obj].s, x.off + 1, x.off + x.tam)

\* The file j of a version from its references, ini[j] to the next.
Refeito(v, j) ==
    LET fim == IF j < Len(an.ini[v]) THEN an.ini[v][j + 1] - 1 ELSE Len(an.rec[v])
        junta(acc, u) == acc \o Bytes(u)
    IN  FoldLeft(junta, <<>>, SubSeq(an.rec[v], an.ini[v][j], fim))

Reconstruir ==
    /\ an.at = "reconstruir"
    /\ an' = [an EXCEPT !.at = "fim",
                        !.bit_exato = \A j \in DOMAIN itens(2) : Refeito(2, j) = itens(2)[j].s]
    /\ UNCHANGED <<par, disco, sums, prep, exec, tarefa>>

\* custo_marginal_z3, a chunk costing its bytes: what the second version adds, by
\* the category of the file that was the first to need it.
Unicos(v) == {u \in DOMAIN an.unicos : an.unicos[u].ver = v}
Soma(us) == LET soma(u, acc) == acc + an.unicos[u].tam IN FoldSet(soma, 0, us)
custo_marginal(cat) == Soma({u \in Unicos(2) : categoria(itens(2)[an.unicos[u].obj]) = cat})

\* tarefa_arquivo_inteiro: the same two counts, a whole file being one chunk.
tarefa_arquivo_inteiro ==
    LET v1 == {itens(1)[k].s : k \in DOMAIN itens(1)}
        f2 == itens(2)
        bytes(js) == LET soma(j, acc) == acc + Len(f2[j].s) IN FoldSet(soma, 0, js)
    IN  [vs_v1 |-> bytes({j \in DOMAIN f2 : f2[j].s \in v1}),
         dup_total |-> bytes({j \in DOMAIN f2 : f2[j].s \in v1 \/ \E k \in 1..(j - 1) : f2[k].s = f2[j].s})]

varrer_chunks == AbrirItem \/ Chunk \/ ProximoItem \/ ProximaVersao \/ Reconstruir

Next ==
    \/ fase_preparar
    \/ \E tipo \in {"arvore", "tar"}, cfg \in Chunkers : Analisar(tipo, cfg)
    \/ varrer_chunks

Spec == Init /\ [][Next]_vars

----------------------------------------------------------------------------
(***************************************************************************)
(* Properties.                                                             *)
(***************************************************************************)
\* However often the preparation is killed, fails or is started again, a manifest
\* that the analysis can read describes a whole tar, made from an archive whose
\* sum was the expected one: partial files of an earlier run are never taken for
\* whole ones.
PreparedIsGenuine ==
    \A v \in Vers : disco[v].man = "whole" => disco[v].tar = "whole" /\ disco[v].dl = "whole"

\* From the unique chunks and the references every file of both versions (the code
\* looks at the second one only) comes back byte by byte, and the cuts fit the
\* arrays that fastcdc_cortar fills.
RebuildExact ==
    an.at = "fim" =>
        /\ an.bit_exato
        /\ \A v \in Vers : \A j \in DOMAIN itens(v) :
              /\ Refeito(v, j) = itens(v)[j].s
              /\ LET fim == IF j < Len(an.ini[v]) THEN an.ini[v][j + 1] ELSE Len(an.rec[v]) + 1
                 IN  fim - an.ini[v][j] <= Capacidade(Len(itens(v)[j].s), tarefa.chunker)

\* The savings reported add up: the second version is what is new in it plus what was
\* there, and the costs of the three categories are the cost of what is new. And chunks
\* find all that whole files find, for every chunker: a file that is there already,
\* under any path, costs nothing, and one that has not changed has no marginal cost (the
\* cuts depend on the bytes of the file alone).
ChunksFindWholeFiles ==
    an.at = "fim" =>
        /\ Total(itens(2)) = Soma(Unicos(2)) + an.dup_total
        /\ an.vs_v1 <= an.dup_total
        /\ custo_marginal("igual") + custo_marginal("alterado") + custo_marginal("novo") = Soma(Unicos(2))
        /\ custo_marginal("igual") = 0
        /\ an.vs_v1 >= tarefa_arquivo_inteiro.vs_v1
        /\ an.dup_total >= tarefa_arquivo_inteiro.dup_total
=============================================================================
