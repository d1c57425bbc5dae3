------------------------------- MODULE BenchCalc -------------------------------
(***************************************************************************)
(* The commands of the bench tools whose results rest on a calculation: each *)
(* behaviour is one command on one input, one step per stage of it. What the  *)
(* stages compute is in the modules this one extends.                       *)
(***************************************************************************)
EXTENDS BlockPlan, BenchTransforms, BenchSampling, BenchOpenzl, TLC

CONSTANTS
    \* The inputs of plano_bloco.py avaliar; of economia.py and of the estimate; of
    \* openzl_bench.py transformadas and preparar; of plano_bloco.py kernel; of
    \* perfil_dataset.py varrer (families) and amostrar; of openzl_bench.py razao, with the
    \* options it is called with, and how many times it is called.
    Blocos, Economias, Textos, Cortes, Tars, Colecoes, Amostras, Manifestos, Opcoes, MaxVezes

VARIABLES etapa, dados, res

vars == <<etapa, dados, res>>

Init == etapa = "inicio" /\ dados = <<>> /\ res = <<>>

Vai(de, para) == etapa = de /\ etapa' = para

----------------------------------------------------------------------------
(* plano_bloco.py: rotular, the models, avaliar. *)
Rotular ==
    /\ Vai("inicio", "rotulado")
    /\ \E bs \in Blocos : dados' = cmd_rotular(bs)
    /\ UNCHANGED res

\* The variant of the sample and the weights the models have.
Triar ==
    /\ Vai("rotulado", "triado")
    /\ res' = [k |-> Escolhida(dados)]
    /\ UNCHANGED dados

tarefa_modelos ==
    /\ Vai("triado", "com modelos")
    /\ \E d \in {Vistos(dados, res.k[1])}, y \in {[r \in Rotulos |-> rotulos(dados, r)]},
          w \in {[r \in Rotulos |-> Pesos(dados, r, res.k[2])]} :
        res' = [k |-> res.k, y |-> y,
                lofo |-> [r \in Rotulos |-> validacao_cruzada(d, y[r], w[r], Arqs(d))],
                loco |-> [r \in Rotulos |-> validacao_cruzada(d, y[r], w[r], Classes(d))],
                final |-> [r \in Rotulos |-> ajustar_arvore(d, y[r], w[r], DOMAIN d)]]
    /\ UNCHANGED dados

cmd_avaliar ==
    /\ Vai("com modelos", "avaliado")
    /\ res' = [planos |-> {Avaliacao(dados, p) : p \in PlanosFixos(dados, res.k[1])
                            \cup {res.lofo[r] : r \in Rotulos} \cup {res.loco[r] : r \in Rotulos}}]
    /\ UNCHANGED dados

----------------------------------------------------------------------------
(* economia.py, and the estimate that takes its speeds. *)
cmd_economia ==
    /\ Vai("inicio", "calculado")
    /\ \E e \in Economias : dados' = e /\ res' = calcular(e.med, e.sint, e.p)

cmd_estimar ==
    /\ Vai("calculado", "estimado")
    /\ LET medidas == carregar_vazoes_medidas(dados.med, dados.sint)
       IN  res' = [calc |-> res, est |-> estimar_economia(dados, medidas)]
    /\ UNCHANGED dados

----------------------------------------------------------------------------
(* Bytes: transforms, halves and blocks, the kernel's tar. *)
autoteste_transforms ==
    /\ Vai("inicio", "transformado")
    /\ \E t \in Textos :
        /\ dados' = t
        /\ res' = [numeros |-> [w \in t.ws |-> cmd_transformadas(t.b, "numerico", w)],
                   csv |-> cmd_transformadas(t.b, "csv", 0)]

cmd_preparar ==
    /\ Vai("inicio", "preparado")
    /\ \E c \in Cortes :
        /\ dados' = c
        /\ res' = [p |-> preparar(c.b, c.k, c.alin, c.base, c.por_linha, c.csv),
                   quadros |-> cortar_blocos(c.b, c.tam, c.maximo, c.alin, c.por_linha)]

cmd_kernel ==
    /\ Vai("inicio", "extraido")
    /\ \E t \in Tars : dados' = t /\ res' = extrair_kernel(t.entradas, t.limite)

----------------------------------------------------------------------------
(* perfil_dataset.py: families and their pairs; the sample. *)
cmd_varrer ==
    /\ Vai("inicio", "com familias")
    /\ \E c \in Colecoes : dados' = c /\ res' = [familias |-> etapa_familias(c.arqs)]

etapa_delta ==
    /\ Vai("com familias", "com pares")
    /\ LET pares == Pares(res.familias)
           classes == {a.cls : a \in dados.arqs}
           aloc == alocar_pares([c \in classes |-> Cardinality({p \in pares : p[2].cls = c})], dados.max_pares)
       IN  \E escolhidos \in SUBSET pares : \E abertos \in SUBSET escolhidos :
            /\ \A c \in classes : Cardinality({p \in escolhidos : p[2].cls = c})
                                    = (IF c \in DOMAIN aloc THEN aloc[c] ELSE 0)
            /\ LET medidos == UNION {Range(tarefa_delta(p, dados.patch, p \in abertos)) : p \in escolhidos}
               IN  res' = [familias |-> res.familias, pares |-> pares, medidos |-> medidos,
                           porClasse |-> [c \in classes |-> montar_familias(res.familias, c)],
                           delta |-> [c \in classes |-> resumo_delta_classe({r \in medidos : r.cls = c})],
                           delta_ag |-> resumo_delta_classe(medidos)]
    /\ UNCHANGED dados

Planejar ==
    /\ Vai("inicio", "amostrando")
    /\ \E am \in Amostras :
        LET C == {a.cls : a \in am.arqs}
            pop == [c \in C |-> Populacao(am.arqs, c)]
            planos == [c \in C |-> planejar_amostra(pop[c], am.orc, am.orc_l)]
        IN  \E p \in {p \in [C -> UNION {planos[c] : c \in C}] : \A c \in C : p[c] \in planos[c]} :
            /\ dados' = [pop |-> pop, plano |-> p, fim |-> am.fim, censo |-> \A c \in C : Censo(pop[c], am.orc)]
            /\ res' = [pend |-> UNION {tarefas_da_amostra(p[c]) : c \in C}, s |-> [c \in C |-> VaziaAmostra(pop[c])]]

\* The answer of a worker; it read all the blocks of its task, or failed at one.
Chega ==
    /\ etapa = "amostrando"
    /\ \E t \in res.pend : \E falha \in 1..(Len(t.blocos) + 1) :
        res' = [pend |-> res.pend \ {t},
                s |-> [res.s EXCEPT ![t.a.cls] = Chegou(@, tarefa_amostra(t, falha, dados.fim))]]
    /\ UNCHANGED <<etapa, dados>>

Montar ==
    /\ Vai("amostrando", "amostrado")
    /\ res.pend = {}
    /\ LET por == montar_amostra(dados.pop, [c \in DOMAIN res.s |-> res.s[c].linhas])
       IN  res' = [s |-> res.s, por |-> por, dataset |-> agregar_dataset(por)]
    /\ UNCHANGED dados

----------------------------------------------------------------------------
(* openzl_bench.py: razao again and again, cut short or not; relatorio. *)
Medir ==
    /\ Vai("inicio", "parado")
    /\ \E m \in Manifestos : dados' = m
    /\ res' = [disco |-> <<>>, antes |-> <<>>, r |-> Vazio, k |-> 1, a |-> [retomar |-> FALSE], vezes |-> 0]

cmd_razao ==
    /\ Vai("parado", "medindo")
    /\ res.vezes < MaxVezes
    /\ \E a \in Opcoes :
        res' = [res EXCEPT !.r = Retomado(res.disco, a),
                           !.antes = res.disco,    \* what is on the disk as this run begins
                           !.k = 1, !.a = a, !.vezes = @ + 1]
    /\ UNCHANGED dados

\* The result is written whole, in the place of the one before.
RazaoArquivo ==
    /\ etapa = "medindo" /\ res.k <= Len(dados)
    /\ LET x == RazaoItem(dados[res.k], res.a, res.r)
       IN  res' = [res EXCEPT !.k = @ + 1, !.r = x.r, !.disco = IF x.grava THEN <<x.r>> ELSE @]
    /\ UNCHANGED <<etapa, dados>>

\* Killed, or stopped by an exception: what was not written is lost.
RazaoCai ==
    /\ Vai("medindo", "parado")
    /\ res' = [res EXCEPT !.r = Vazio, !.k = 1]
    /\ UNCHANGED dados

RazaoFim ==
    /\ Vai("medindo", "parado")
    /\ res.k > Len(dados)
    /\ res' = [res EXCEPT !.disco = <<res.r>>, !.r = Vazio, !.k = Len(dados) + 1]
    /\ UNCHANGED dados

cmd_relatorio ==
    /\ Vai("parado", "relatado")
    /\ res.disco # <<>>
    /\ res' = [disco |-> res.disco, rel |-> construir_relatorio(res.disco[1], dados)]
    /\ UNCHANGED dados

Next ==
    \/ Rotular \/ Triar \/ tarefa_modelos \/ cmd_avaliar
    \/ cmd_economia \/ cmd_estimar
    \/ autoteste_transforms \/ cmd_preparar \/ cmd_kernel
    \/ cmd_varrer \/ etapa_delta \/ Planejar \/ Chega \/ Montar
    \/ Medir \/ cmd_razao \/ RazaoArquivo \/ RazaoCai \/ RazaoFim \/ cmd_relatorio

Spec == Init /\ [][Next]_vars

----------------------------------------------------------------------------
(***************************************************************************)
(* Properties.                                                             *)
(***************************************************************************)
\* A plan is never better than the oracle, in bytes or in the value of any layer of
\* storage; what is told of classes and of files adds up to what is told of all; where
\* the probe is within 1% of the oracle no model can pass the criterion.
RegretsAddUp ==
    etapa = "avaliado" => \A a \in res.planos :
        /\ a.todos.bytes >= a.todos.bytes_oraculo
        /\ \A n \in Camadas : a.todos.regret[n] >= 0
        /\ a.todos.bytes = MapThenSumSet(LAMBDA c : a.porClasse[c].bytes, DOMAIN a.porClasse)
        /\ a.todos.bytes - a.todos.bytes_oraculo = MapThenSumSet(LAMBDA f : a.porArquivo[f], DOMAIN a.porArquivo)
        /\ MapThenSumSet(LAMBDA p : a.confusao[p], DOMAIN a.confusao) = Len(dados)
        /\ MapThenSumSet(LAMBDA j : a.confusao[<<j, j>>], SYNC) = Cardinality(a.acc.estrita)
        /\ a.criterio.probe_basta => ~a.criterio.todas_ok
        /\ a.orc_tudo <= a.todos.bytes_oraculo /\ a.orc_tudo <= a.orc_async
        /\ a.todos.bytes_oraculo <= a.transforms.melhor /\ a.transforms.melhor <= a.transforms.z3

\* What a model knows of the file its plan is judged on is one number, and nothing if the
\* weights are all one: with other labels there, and the gaps of its blocks put on one of
\* them, it plans the same. (The number is the mean gap; variant and weights were chosen by
\* the regret on all the files.) A leaf stands for enough blocks, or is the whole tree.
JudgedOnUnseen ==
    etapa = "com modelos" =>
        /\ \A r \in Rotulos : res.final[r].feat > 0 => \A n \in Folhas(res.final[r]) : n >= MinFolha
        /\ \A r \in Rotulos : \A g \in Range(Arqs(dados)) :
            LET I == {i \in DOMAIN dados : dados[i].arq = g}
                gaps == Gaps(dados, r)
                juntos == [i \in DOMAIN dados |->
                            IF i = Min(I) THEN MapThenSumSet(LAMBDA k : gaps[k], I) ELSE IF i \in I THEN 0 ELSE gaps[i]]
                w == IF res.k[2] THEN pesos_gap(juntos) ELSE [i \in DOMAIN dados |-> 1]
                outra == validacao_cruzada(Vistos(dados, res.k[1]),
                            [i \in DOMAIN dados |-> IF i \in I THEN 1 ELSE res.y[r][i]], w, Arqs(dados))
            IN  \A i \in I : outra[i] = res.lofo[r][i]

----------------------------------------------------------------------------
\* What a class is worth under a policy of the estimate.
Vale(c, pol) ==
    avaliar_classe(dados.P, monta_infos(dados)[c], pol, res.est.h[c], dados.por[c].s, razao_delta(dados, c),
                   dados.P.dedup, dados.P.delta).liquido

\* The policy the estimate recommends pays: a class is worth no less than stored as it is,
\* and recompressing it later adds just what choosing to said it would. More reads never
\* make the whole worth more, dearer transfers never less, although the policies are
\* chosen again for each.
PolicyPays ==
    etapa = "estimado" /\ ~res.est.erro =>
        /\ \A c \in DOMAIN res.est.por_classe :
            LET r == res.est.por_classe[c]
                so(sync) == [sync |-> sync, async |-> "nenhum"]
            IN  /\ r.pt.liquido >= Vale(c, so("stored"))
                /\ r.pt.liquido = Vale(c, so(r.pol.sync)) + monta_infos(dados)[c].bytes * r.pol.nv
                /\ r.pol.nv >= 0
        /\ LET s == res.est.sensibilidade
           IN  /\ \A n, k \in DOMAIN s.leit : n <= k => s.leit[n].liquido >= s.leit[k].liquido
               /\ \A x, y \in DOMAIN s.mov : x[1] * x[2] <= y[1] * y[2] => s.mov[x].liquido <= s.mov[y].liquido

\* The two tools price alike, where a core loses the same in both. For a class measured
\* itself, without doubles or versions, kept whole and once: zstd-3 is worth the same to both
\* if the curve of economia.py has at its load what the estimate takes for all; and if it
\* has that with every core in use, a recompression pays back in the same time, and it pays
\* in the life that is left just when the reads of that life are fewer than economia.py
\* allows (where the destination is not the faster one to read).
ToolsAgree ==
    etapa = "estimado" /\ ~res.est.erro /\ dados.P.ret = Esc /\ dados.p.red = 1
        => \A c \in DOMAIN dados.por : \A camada \in CAMADAS : \A cen \in dados.p.cenarios :
            LET P == dados.P
                p == dados.p
                i == monta_infos(dados)[c]
                rec(cod) == CHOOSE r \in res.calc.recs : r.classe = c /\ r.config = cod
                mesa == res.calc.mesas[<<<<c, "bloco_1MiB">>, cen, camada>>]
                iguais == /\ c \notin DOMAIN dados.vazao /\ dados.proxy[c] = c /\ i.dup = 0 /\ i.fam = 0
                          /\ cen = [cpu |-> P.cpu, arm |-> P.p] /\ p.camadas[camada] = P.n
                          /\ \A cod \in Codecs : rec(cod).s = dados.por[c].s[cod] /\ rec(cod).s > 0
                \* The efficiencies the prices rest on: at the load of zstd-3, and of a full server.
                mesmaNaCarga == \A tab \in {p.curva.comp, p.curva.decomp} :
                                    p.lento * perda(tab, carga_media(rec("zstd-3"), p)) = P.perda
                mesmaCheio == \A tab \in {p.curva.comp, p.curva.decomp} : p.lento * cheio(tab) = P.perda
                z3 == avaliar_classe(P, i, [sync |-> "zstd-3", async |-> "nenhum"], res.est.h[c],
                                     dados.por[c].s, -1, FALSE, FALSE)
            IN  /\ iguais /\ mesmaNaCarga =>
                    z3.liquido - z3.movimento
                        = i.bytes * Esc ^ 4 * P.T * liquido_gb(rec("zstd-3"), p, cen, camada).liquido
                /\ iguais /\ mesmaCheio => \A D \in Range(CANDIDATOS_ASSINCRONOS) :
                    LET x == mesa.recompressao[<<rec("zstd-3"), rec(D)>>]
                        a == avaliar_assincrono(P, i, res.est.h[c], dados.por[c].s, -1, FALSE, FALSE, D)
                        L == MaiorQueZero(P.T - P.idade)
                    IN  <<rec("zstd-3"), rec(D)>> \in DOMAIN mesa.recompressao =>
                        /\ (a.denom > 0) = (x.denom > 0)
                        /\ x.vale_algum_dia => a.repack * x.denom = x.repack * P.T * a.denom
                        /\ L \in p.vidas /\ rec(D).hd >= rec("zstd-3").hd =>
                            LET n_max == x.n_max[L]
                            IN  a.paga = (/\ n_max # <<>>
                                          /\ IF n_max[2] = 0 THEN n_max[1] > 0
                                             ELSE P.n * L * n_max[2] < n_max[1] * P.T)

----------------------------------------------------------------------------
\* A name is the path of the last x before it, or of the last L, behind the file before it.
NomeDe(es, k) ==
    LET j == Max({0} \cup {j \in 1..(k - 1) : es[j].tipo \in {"0", "5"}})
        ultimo(tipo) == Max({0} \cup {h \in (j + 1)..(k - 1) : es[h].tipo = tipo})
        de(tipo) == IF ultimo(tipo) = 0 THEN <<>> ELSE es[ultimo(tipo)].path
    IN  IF de("x") # <<>> THEN de("x") ELSE IF de("L") # <<>> THEN de("L") ELSE es[k].nome

\* No byte is lost or moved. Every transform is undone by its inverse and is what the slow
\* one of the self test and the other tool make of it; the blocks a model of OpenZL is
\* trained on make up the half before the cut, begin at a record or a line, and share
\* nothing with the test; frames are cut from the start of the file without a gap; each
\* regular file of the tar up to the limit lies whole in the file of its part of the tree,
\* unless that of another part has the same name: then one of the two is there, whole.
BytesComeBack ==
    /\ etapa = "transformado" =>
        LET b == dados.b
        IN  /\ \A w \in dados.ws :
                /\ \A tipo \in {"delta", "bsplit"} :
                    LET t == [tipo |-> tipo, w |-> w] IN inverter(aplicar(b, t), t) = b /\ Len(aplicar(b, t)) = Len(b)
                /\ delta_apply(b, w) = delta_ref(b, w) /\ t_delta(b, w) = delta_ref(b, w)
                /\ bsplit_apply(b, w) = bsplit_ref(b, w) /\ t_split(b, w) = bsplit_ref(b, w)
                /\ \A cad \in DOMAIN res.numeros[w] : res.numeros[w][cad].bit_exato
            /\ \A cad \in DOMAIN res.csv : res.csv[cad].aplicavel => res.csv[cad].bit_exato
    /\ etapa = "preparado" =>
        LET b == dados.b p == res.p
            Ate(k) == FoldSeq(LAMBDA x, acc : Len(x) + acc, 0, SubSeq(p.blocos, 1, k))
            corteBom(x) == x = 0 \/ IF dados.por_linha THEN x = Len(b) \/ b[x] = NovaLinha ELSE (x - dados.base) % dados.alin = 0
        IN  /\ FlattenSeq(p.blocos) \o SubSeq(p.teste, Len(p.cab) + 1, Len(p.teste)) = b
            /\ \A k \in 1..(Len(p.blocos) - 1) : corteBom(Ate(k))
            /\ \A k \in DOMAIN p.amostras : IsPrefix(p.cab, p.amostras[k]) /\ IsSuffix(p.blocos[k], p.amostras[k])
            /\ IsPrefix(FlattenSeq(res.quadros), b) /\ Len(res.quadros) <= dados.maximo
    /\ etapa = "extraido" =>
        LET es == dados.entradas
            Comeca(k) == FoldSeq(LAMBDA e, acc : Setor + Enchido(Len(e.dados)) + acc, 0, SubSeq(es, 1, k - 1))
            Cabem(k) == dados.limite - Comeca(k) - Setor
            regs == {k \in DOMAIN es : es[k].tipo = "0" /\ Comeca(k) < dados.limite}
            Da(k) == CHOOSE p \in res.pedacos : grupo_de(NomeDe(es, k)) \in p.ks
            Sozinha(p) == \A q \in res.pedacos : seguro(q.nome) = seguro(p.nome) => q = p
        IN  /\ res.n_reg = Cardinality(regs)
            /\ (\A p \in res.pedacos : Sozinha(p)) =>
                    MapThenSumSet(LAMBDA a : Len(res.grupos[a].dados), DOMAIN res.grupos)
                        = MapThenSumSet(LAMBDA k : Min({Len(es[k].dados), Max({0, Cabem(k)})}), regs)
            /\ \A k \in regs : es[k].dados # <<>> /\ Len(es[k].dados) <= Cabem(k) =>
                    LET arq == res.grupos[seguro(Da(k).nome)].dados
                        dela == \E i \in 1..(Len(arq) - Len(es[k].dados) + 1) : SubSeq(arq, i, i + Len(es[k].dados) - 1) = es[k].dados
                    IN  dela \/ ~Sozinha(Da(k))
            /\ \A a \in DOMAIN res.grupos : \E p \in res.pedacos :
                    /\ seguro(p.nome) = a
                    /\ res.grupos[a].n = Cardinality({k \in regs : grupo_de(NomeDe(es, k)) \in p.ks})
                    /\ Len(res.grupos[a].dados)
                        = MapThenSumSet(LAMBDA k : Min({Len(es[k].dados), Max({0, Cabem(k)})}),
                                        {k \in regs : grupo_de(NomeDe(es, k)) \in p.ks})

----------------------------------------------------------------------------
\* Families share no file: what a class has in versions and what it has in copies are no
\* more than it has. No two neighbours of a family differ by more than the tolerance, and
\* none is left out that the first pass would have put behind its neighbour. Every pair
\* measured is one of a family.
FamiliesDisjoint ==
    etapa = "com pares" =>
        /\ \A f, g \in res.familias : f # g => Range(f.cadeia) \cap Range(g.cadeia) = {}
        /\ \A f \in res.familias : \A k \in 2..Len(f.cadeia) : DentroTol(f.cadeia[k - 1], f.cadeia[k])
        /\ \A c \in DOMAIN res.porClasse :
            LET D == {a \in dados.arqs : a.cls = c}
            IN  BytesDe({a \in D : a.redundante}) + res.porClasse[c].em_familias <= BytesDe(D)
        /\ Cardinality(res.pares) = MapThenSumSet(LAMBDA f : Len(f.cadeia) - 1, res.familias)
        /\ \A a, b \in {a \in dados.arqs : a.tam > 0 /\ a.legivel /\ ~a.redundante} :
            /\ a.chave["A"] = b.chave["A"] /\ a.ord < b.ord /\ DentroTol(a, b)
            /\ ~\E o \in dados.arqs : o.chave["A"] = a.chave["A"] /\ a.ord < o.ord /\ o.ord < b.ord
                                      /\ o.tam > 0 /\ o.legivel /\ ~o.redundante
            => \E f \in res.familias : {a, b} \subseteq Range(f.cadeia)
        /\ Cardinality(res.medidos) <= Cardinality(res.pares)

\* In whatever order the workers answer, and however many stop half way: no block is counted
\* twice, none that was read is left out, the bytes of a file are those of its rows. Where
\* all was read by every codec, the ratios are those of the data set itself.
SampleCounted ==
    etapa = "amostrado" =>
        /\ \A c \in DOMAIN res.s :
            LET s == res.s[c] ls == s.linhas
            IN  /\ \A j, k \in DOMAIN ls : j # k => <<ls[j].arq, ls[j].b>> # <<ls[k].arq, ls[k].b>>
                /\ \A a \in DOMAIN s.lido :
                    LET dele == SelectSeq(ls, LAMBDA l : l.arq = a.i)
                    IN  /\ s.lido[a] = SomaLinhas(dele, LAMBDA l : l.n) /\ s.porArq[a].n = s.lido[a]
                        /\ {dele[k].b : k \in DOMAIN dele} \subseteq dados.plano[c][a].blocos
                        /\ a \notin s.comErro => Len(dele) = Cardinality({b \in dados.plano[c][a].blocos : b < dados.fim})
                /\ SomaLinhas(ls, LAMBDA l : l.n) <= BytesDe(dados.pop[c])
        /\ LET todos == UNION {dados.pop[c] : c \in DOMAIN dados.pop}
               tudo == /\ dados.censo /\ \A c \in DOMAIN res.s : \A a \in dados.pop[c] :
                            /\ a \notin res.s[c].comErro /\ dados.fim > Unidades(a)
                            /\ dados.plano[c][a].lentos = dados.plano[c][a].blocos
               DoTodo(cod) == MapThenSumSet(LAMBDA a : FoldSeq(LAMBDA bl, acc : MenorDois(bl.z[cod], bl.n) + acc, 0, a.blocos), todos)
           IN  tudo => \A cod \in CodecsRapidos \cup CodecsLentos :
                    cod \in DOMAIN res.dataset /\ res.dataset[cod][1] * BytesDe(todos) = DoTodo(cod) * res.dataset[cod][2]

----------------------------------------------------------------------------
\* However razao is called and wherever it is cut short: a file is in the result once, and
\* a label once in the file; the violations are the inexact results, each once; a file's
\* trainings were all made or none, what one made was measured, one that failed is told of.
\* --retomar loses nothing that was there, and a run over all files that came to its end
\* has every file that is the manifest's. The report stops only for a file that has no
\* generic result, and what it calls the best is not worse than the choice made unmeasured.
ResultHoldsAll ==
    /\ etapa \in {"parado", "medindo", "relatado"} /\ res.disco # <<>> =>
        LET r == res.disco[1]
            UmaVez(s, f(_)) == \A j, k \in DOMAIN s : f(s[j]) = f(s[k]) => j = k
            Rot(l) == l.rot
            it(id) == CHOOSE x \in Range(dados) : x.id = id
        IN  /\ UmaVez(r.itens, LAMBDA i : i.id)
            /\ UmaVez(r.violacoes, LAMBDA v : v)
            /\ \A i \in Range(r.itens) : UmaVez(i.base, Rot) /\ UmaVez(i.openzl, Rot) /\ UmaVez(i.treinos, Rot)
            /\ Range(r.violacoes) = UNION {{<<i.id, l.rot>> : l \in {l \in Range(i.base \o i.openzl) : Inexata(l)}} : i \in Range(r.itens)}
            /\ \A i \in Range(r.itens) :
                /\ {l.rot : l \in Range(i.treinos)} \in {{}, Range(it(i.id).treinar)}
                /\ \A t \in Range(i.treinos) :
                        IF t.ok THEN Tem(i.openzl, t.rot) ELSE <<i.id, t.rot>> \in Range(r.falhas) /\ ~Tem(i.openzl, t.rot)
    /\ etapa = "parado" /\ res.disco # <<>> /\ res.vezes > 0 =>
        /\ res.a.retomar /\ res.antes # <<>> => \A i \in Range(res.antes[1].itens) : \E j \in Range(res.disco[1].itens) :
                j.id = i.id /\ IsPrefix(i.base, j.base) /\ IsPrefix(i.openzl, j.openzl) /\ IsPrefix(i.treinos, j.treinos)
        /\ res.k > Len(dados) /\ res.a.somente = {} => Ids(res.disco[1]) = {x.id : x \in {x \in Range(dados) : x.sha_ok}}
    /\ etapa = "relatado" =>
        /\ res.rel.erro = (\E i \in Range(res.disco[1].itens) : \E l \in Range(i.openzl) : l.rot = Serial /\ l.falhou)
        /\ ~res.rel.erro => \A c \in DOMAIN res.rel.classes :
                res.rel.classes[c].melhor <= res.rel.classes[c].apriori /\ res.rel.classes[c].melhor <= res.rel.classes[c].generico
=============================================================================
