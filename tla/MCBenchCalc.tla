------------------------------ MODULE MCBenchCalc ------------------------------
(* Small inputs for every command of BenchCalc. *)
EXTENDS BenchCalc

----------------------------------------------------------------------------
(* Five blocks of three files and two classes, each of three kinds. *)
CodecsZ == {"zstd-1", "zstd-3", "zstd-19", "xz-9e", "bzip2-9"}
Z(a, b, t1, t2) ==
    [c \in CodecsZ |-> [t \in 0..2 |->
        CASE t = 1 -> t1 [] t = 2 -> t2
          [] t = 0 -> IF c = "zstd-1" THEN a + 1 ELSE IF c \in {"zstd-3", "bzip2-9"} THEN a ELSE b]]
Bl(x, len, z) == [len |-> len, z |-> z, ruim |-> {}, naorev |-> {}, x |-> x]
\* The features of a kind: at the start of a block the first two are alike, all over it the
\* first and the last, in 16 KiB none.
Tipos == <<
    Bl(<<<<1, 2, 1, 1>>, <<1, 2, 1, 1>>, <<1, 2, 1, 2>>>>, 10, Z(5, 4, 8, 7)),
    Bl(<<<<1, 2, 1, 1>>, <<2, 0, 1, 2>>, <<2, 0, 1, 3>>>>, 10, Z(8, 8, 2, 8)),
    Bl(<<<<3, 3, 3, 3>>, <<1, 2, 1, 1>>, <<3, 3, 3, 3>>>>, 10, Z(11, 12, 11, 11))>>
Donos == <<<<1, 1>>, <<1, 1>>, <<2, 1>>, <<2, 1>>, <<3, 2>>>>
Do(i, b) ==
    [arq |-> Donos[i][1], cls |-> Donos[i][2], len |-> b.len, z |-> b.z,
     ruim |-> b.ruim, naorev |-> b.naorev, x |-> b.x]
MCBlocos ==     \* which of the two of file 2 comes first does not matter
    {[i \in 1..5 |-> Do(i, Tipos[g[i]])] : g \in {g \in [1..5 -> 1..3] : g[1] = g[5] /\ g[3] <= g[4]}}
MCCompCusto == [c \in CodecsZ |-> IF c = "zstd-1" THEN 1 ELSE 2]
MCDescCusto == [c \in CodecsZ |-> 1]
MCCurva == [comp |-> <<<<0, 1>>, <<3, 2>>>>, decomp |-> <<<<0, 1>>>>]

----------------------------------------------------------------------------
(* Two files of a class and a made up one of another, by three tables of measurements. *)
MCConfigs == <<"stored", "zstd-3", "zstd-19", "xz-9e">>
Tabela == <<
    [z3 |-> <<3, 1, 1>>, z19 |-> <<2, 6, 1>>, xz |-> <<1, 9, 3>>],
    [z3 |-> <<4, 2, 2>>, z19 |-> <<3, 8, 1>>, xz |-> <<1, 20, 6>>],
    [z3 |-> <<5, 1, 1>>, z19 |-> <<5, 4, 1>>, xz |-> <<4, 8, 2>>]>>
Cel(arq, cls, cfg, orig, m) ==
    [arquivo |-> arq, classe |-> cls, modo |-> "bloco_1MiB", config |-> cfg, orig |-> orig,
     comp |-> m[1], tc |-> m[2], td |-> m[3], exato |-> TRUE]
Cels(arq, cls, t) ==
    {Cel(arq, cls, "stored", 5, <<5, 1, 1>>), Cel(arq, cls, "zstd-3", 5, t.z3),
     Cel(arq, cls, "zstd-19", 5, t.z19), Cel(arq, cls, "xz-9e", 5, t.xz)}
Med(i, j) == Cels("f1", "texto", Tabela[i]) \cup Cels("f2", "texto", Tabela[j]) \cup Cels("f3", "log", Tabela[1])
Prec(p, cpu) == [cpu |-> cpu, arm |-> p]
SDe(med, c) ==
    [cod \in Codecs |-> (CHOOSE r \in agregar(med, {"f3"}) : r.classe = c /\ r.config = cod).s]
\* What a core loses: nothing in either tool; in both by a slower core; at any load from 3
\* hours on, in the estimate half or always, in one way of economia.py or both.
Ideal == <<<<0, 1>>>>
Partilha == <<<<0, 1>>, <<3, 2>>>>
Perdas == <<[lento |-> 1, comp |-> Ideal, decomp |-> Ideal, P |-> 1],
            [lento |-> 2, comp |-> Ideal, decomp |-> Ideal, P |-> 2],
            [lento |-> 1, comp |-> Partilha, decomp |-> Partilha, P |-> 2],
            [lento |-> 1, comp |-> Partilha, decomp |-> Ideal, P |-> 1]>>
Economia(i, j, k, p, n, idade, ret, dd, dl) ==
    [med |-> Med(i, j), sint |-> {"f3"},
     p |-> [T |-> 3, red |-> 1, lento |-> Perdas[k].lento, curva |-> [comp |-> Perdas[k].comp, decomp |-> Perdas[k].decomp],
            pico |-> 4, cenarios |-> {Prec(p, 1), Prec(2, 2)},
            camadas |-> [c \in CAMADAS |-> CASE c = "frio" -> 0 [] c = "morno" -> 2 [] c = "quente" -> 5],
            origens |-> {"zstd-3"}, destinos |-> {"zstd-19", "xz-9e"}, vidas |-> 0..3],
     P |-> [T |-> 3, ret |-> ret, p |-> p, cpu |-> 1, cm |-> 1, m |-> 1, n |-> n, idade |-> idade, perda |-> Perdas[k].P,
            hash |-> 1, dedup |-> dd, delta |-> dl],
     por |-> [texto |-> [bytes |-> 10, s |-> SDe(Med(i, j), "texto")],
              codigo |-> [bytes |-> 5, s |-> [cod \in Codecs |-> IF cod = "zstd-3" THEN 3 ELSE 5]]],
     var |-> [texto |-> [bytes |-> 10, dup |-> 0, fam |-> 0], codigo |-> [bytes |-> 10, dup |-> 5, fam |-> 2],
              vazio |-> [bytes |-> 0, dup |-> 0, fam |-> 0]],
     vazao |-> [codigo |-> [cod \in Codecs |-> [c |-> IF cod = "zstd-3" THEN 2 ELSE 9, d |-> 2]]],
     proxy |-> [texto |-> "texto", codigo |-> "texto"],
     delta |-> [log |-> 5], delta_ag |-> 4,
     rets |-> {8, 10}, precos |-> {[p |-> 1, cpu |-> 1], [p |-> 4, cpu |-> 1]}, cms |-> {0, 1}, leituras |-> {0, 1, 3}]
MCEconomias ==
    {Economia(i, 1, 1, p, n, idade, ret, FALSE, FALSE) :
        i \in 1..3, p \in {1, 4}, n \in {0, 2}, idade \in {0, 1, 4}, ret \in {5, 10}}
    \cup {Economia(i, 1, k, p, n, 1, 10, FALSE, FALSE) : i \in 1..3, k \in 2..4, p \in {1, 4}, n \in {0, 2}}
    \cup {Economia(1, 2, 1, 4, n, 1, ret, dd, TRUE) : n \in {0, 2}, ret \in {5, 10}, dd \in BOOLEAN}

----------------------------------------------------------------------------
(* Bytes, tables of four lines, entries of a tar. *)
SeqDe(S, n) == [1..n -> S]
Linhas == {<<1>>, <<2, 1>>, <<1, 3>>, <<2, 1, 3, 2>>}
Csvs == {Juntar(f, NovaLinha) : f \in [1..4 -> Linhas]}
MCTextos ==
    {[b |-> b, ws |-> {1, 2, 3}] : b \in UNION {SeqDe(0..3, n) : n \in 0..4} \cup SeqDe({0, 3}, 7)}
    \cup {[b |-> b \o f, ws |-> {2}] : b \in Csvs, f \in {<<>>, <<NovaLinha>>}}

Alinhados == {<<1, 0, TRUE, FALSE>>, <<1, 0, TRUE, TRUE>>, <<2, 1, FALSE, FALSE>>, <<2, 0, FALSE, FALSE>>}
MCCortes ==
    {[b |-> b, k |-> k, alin |-> a[1], base |-> a[2], por_linha |-> a[3], csv |-> a[4], tam |-> 3, maximo |-> 2] :
        b \in {b \in UNION {SeqDe({0, 2}, n) : n \in 6..7} : \E i \in 1..4 : b[i] = 0}, k \in {1, 3}, a \in Alinhados}

\* A tree under <<6>> with "a", "b" and "y", and two tops of one name with the part "b" of
\* "a" when that is big: "a_b" and "a.b".
Ent(tipo, nome, d, path) == [tipo |-> tipo, nome |-> nome, dados |-> d, tam |-> Len(d), path |-> path, size |-> -1]
Sob(ps) == <<<<6>>>> \o ps
A == <<3>>
B == <<4>>
Y == <<7>>
F == <<5>>
Entradas ==
    {Ent("0", Sob(<<A, F>>), <<2>>, <<>>), Ent("0", Sob(<<A, Y, F>>), <<3, 3>>, <<>>),
     Ent("0", Sob(<<F>>), <<2, 2, 2>>, <<>>), Ent("0", Sob(<<B, F>>), <<>>, <<>>),
     Ent("0", Sob(<<A, B, F>>), <<2, 3, 2>>, <<>>), Ent("0", Sob(<<A \o <<2>> \o B, F>>), <<3>>, <<>>),
     Ent("0", Sob(<<A \o <<1>> \o B, F>>), <<1>>, <<>>),
     Ent("5", Sob(<<B>>), <<>>, <<>>), Ent("L", <<>>, <<1>>, Sob(<<B, F>>)),
     Ent("x", <<>>, <<1>>, Sob(<<A, Y, F>>)), Ent("x", <<>>, <<1>>, <<>>), Ent("g", <<>>, <<>>, <<>>)}
\* A file with its size in the x before it alone.
Grandes == {<<[Ent("x", <<>>, <<1>>, path) EXCEPT !.size = 3], [Ent("0", Sob(<<A, F>>), <<2, 3, 3>>, <<>>) EXCEPT !.tam = 0], e>> :
                path \in {<<>>, Sob(<<B, F>>)}, e \in Entradas}
MCTars == {[entradas |-> es, limite |-> l] : es \in UNION {SeqDe(Entradas, n) : n \in 1..3} \cup Grandes, l \in {7, 99}}

----------------------------------------------------------------------------
(* Four files of two classes; three files of a sample. *)
Tipo4 == {[tam |-> t, red |-> r, k |-> k] :
            t \in {0, 2, 3, 6}, r \in BOOLEAN, k \in {<<1, 1, 1>>, <<2, 1, 2>>, <<3, 2, 2>>}}
Tipos4 ==   \* of few sizes: one is empty, a copy has the size of another file
    {x \in Tipo4 : \/ x.tam = 0 /\ ~x.red /\ x.k[1] = 1
                   \/ x.tam \in {2, 3} /\ ~x.red
                   \/ x.tam = 6 /\ ~x.red /\ x.k[1] = 1
                   \/ x.tam = 3 /\ x.red /\ x.k[1] = 2}
MCColecoes ==
    {[arqs |-> {[i |-> i, tam |-> f[i].tam, cls |-> IF i = 3 THEN "log" ELSE "texto", legivel |-> TRUE,
                 redundante |-> f[i].red, chave |-> [A |-> f[i].k[1], B |-> f[i].k[2], C |-> f[i].k[3]],
                 ord |-> (5 - i)] : i \in 1..4},
      max_pares |-> 2, patch |-> 1] : f \in {g \in [1..4 -> Tipos4] : g[1].tam = 3 /\ ~g[1].red /\ g[1].k[1] = 1}}

Bloc(n, z3, xz, tr) == [n |-> n, z |-> ("zstd-3" :> z3 @@ "xz-9e" :> xz), tr |-> tr]
ArqA(i, cls, bs) ==
    [i |-> i, tam |-> FoldSeq(LAMBDA b, acc : b.n + acc, 0, bs), cls |-> cls, legivel |-> TRUE, blocos |-> bs]
MCAmostras ==
    {[arqs |-> {ArqA(1, "texto", <<Bloc(2, 1, 1, <<2>>), Bloc(2, 3, 2, <<1>>), Bloc(1, 1, 1, <<1>>)>>),
                ArqA(2, IF o = 3 THEN "texto" ELSE "log", <<Bloc(2, 2, 1, <<1>>)>>)},
      orc |-> o, orc_l |-> IF o = 9 THEN 9 ELSE 2, fim |-> f] : o \in {3, 9}, f \in {2, 9}}

----------------------------------------------------------------------------
(* Two files, and what OpenZL makes of them strictly and not. *)
R(falhou, exato, comp) == [falhou |-> falhou, exato |-> exato, comp |-> comp]
Ferr(a, b) == (TRUE :> a) @@ (FALSE :> b)
Bom == Ferr(R(FALSE, TRUE, 4), R(FALSE, TRUE, 4))
Falha == Ferr(R(TRUE, FALSE, 0), R(TRUE, FALSE, 0))
PerfilCsv == <<"perfil", "csv">>
TreinoSerial == <<"treinado", "serial">>
TreinoCsv == <<"treinado", "csv">>
ItemO(id, conf, serial, perfil, treinado, treinos) ==
    [id |-> id, classe |-> "texto", n |-> 6, sha_ok |-> conf, base |-> <<<<"zstd-3">>, <<"xz-9e">>>>, perfis |-> <<PerfilCsv>>,
     treinar |-> <<TreinoSerial, TreinoCsv>>, exato |-> (<<"zstd-3">> :> TRUE @@ <<"xz-9e">> :> (id = 1)),
     ferr |-> (Serial :> serial @@ SerialL9 :> Bom @@ PerfilCsv :> perfil @@ TreinoSerial :> Bom @@ TreinoCsv :> treinado),
     treino |-> (TreinoSerial :> treinos @@ TreinoCsv :> TRUE)]
MCManifestos ==
    {<<ItemO(1, TRUE, s, p, t, w), ItemO(2, conf, Bom, p, Falha, TRUE)>> :
        s \in {Bom, Falha}, p \in {Ferr(R(TRUE, FALSE, 0), R(FALSE, FALSE, 3)), Falha},
        t \in {Ferr(R(FALSE, TRUE, 2), R(FALSE, TRUE, 2)), Ferr(R(FALSE, FALSE, 5), R(FALSE, TRUE, 5))}, w \in BOOLEAN, conf \in BOOLEAN}
MCOpcoes == [retomar : BOOLEAN, somente : {{}, {1}, {2}}, sem_treino : BOOLEAN]
=============================================================================
