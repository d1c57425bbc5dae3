----------------------------- MODULE BenchCells -----------------------------
(***************************************************************************)
(* bench/syntrabench.py: the phases of the benchmark, the cells that worker *)
(* processes take from a queue, the rounds of the scaling phase that a      *)
(* barrier starts together, and the file of measurements that every run     *)
(* loads, merges its phases into and saves.  The user starts the tool again *)
(* with any --fase, for all the files or some, on the same file of          *)
(* measurements; the system may kill a worker, and the user the tool.       *)
(* Names in the code's words.                                               *)
(*                                                                         *)
(* A measurement is whether the blocks came back bit by bit; sizes and      *)
(* times are left out.                                                      *)
(***************************************************************************)
EXTENDS Naturals, Integers, Sequences, FiniteSets, SequencesExt, FiniteSetsExt

CONSTANTS
    Arquivos,           \* the manifest: a set of [nome, classe, tam, sintetico]
    Selecoes,           \* --arquivos: the files a run may be for
    Cap, Bloco, Mib,    \* the slice of a file, the block of a dictionary cell, of the pool
    ConfigsDe,          \* CONFIGS_INTEIRO and CONFIGS_BLOCO: the configurations of a mode
    ConfigsCompleto, Longa, Velocidade, Lentas,
    ClassesDic, Niveis,
    Ecore,              \* SUBCONJUNTO_ECORE: [arquivos, modos, configs]
    NCpus,              \* how many CPUs --cpu lists
    ConfigsEscala, Ordem, Ns, Rodadas,
    Grupos,             \* --escala-cpus: a set of [lista |-> ranges of CPUs, ns |-> values of N]
    MaxExec, MaxFaltas  \* runs of the tool; measurements not exact, exceptions and killed workers

ASSUME BenchAssumption ==
    /\ Selecoes \subseteq SUBSET Arquivos /\ Mib \in Nat \ {0}
    /\ NCpus \in Nat \ {0} /\ Rodadas \in Nat \ {0} /\ Bloco \in Nat \ {0} /\ Cap \in Nat
    /\ MaxExec \in Nat /\ MaxFaltas \in Nat
\* ORDEM_ESCALA names every CPU of the machine once, and no more are asked for.
ASSUME EscalaAssumption ==
    /\ IsInjective(Ordem)
    /\ Ns \in Seq(Nat \ {0}) /\ \A n \in ToSet(Ns) : 1..n \subseteq DOMAIN Ordem
    /\ \A g \in Grupos : g.ns \in Seq(Nat \ {0})
    /\ ConfigsEscala \in Seq(STRING)

VARIABLES
    disco,      \* the file --saida
    saida,      \* the object main merges into
    t,          \* main: where it is, the phases left, the locals of the phase
    fila,       \* the queue of cells, then one None for each CPU
    caixa,      \* the queue resultados: the messages of different workers in any order
    w,          \* the workers
    bar,        \* the barrier: its state, how many are in wait()
    gasto       \* how often what the bounds limit has happened

vars == <<disco, saida, t, fila, caixa, w, bar, gasto>>

----------------------------------------------------------------------------
(***************************************************************************)
(* The cells of a phase, from the manifest: the files as of a run.         *)
(***************************************************************************)
Cel(tipo, a, modo, config) == [tipo |-> tipo, arquivo |-> a, modo |-> modo, config |-> config]

montar_celulas_principais(as) ==
    {Cel("principal", a, m[1], m[2]) : a \in as,
        m \in UNION {{modo} \X ConfigsDe[modo] : modo \in DOMAIN ConfigsDe}}

montar_celulas_completas(as) ==
    {Cel("completo", a, "inteiro", c) : a \in {x \in as : x.tam > Cap}, c \in ConfigsCompleto}

montar_celulas_dicionario(as) ==
    {Cel("dicionario", a, "bloco", "dic") : a \in {x \in as : x.classe \in ClassesDic}}

celulas_ecore(as) ==
    {Cel("principal", a, m, c) : a \in {x \in as : x.nome \in Ecore.arquivos},
        m \in Ecore.modos, c \in Ecore.configs}

celulas(f, as) ==
    CASE f = "principal" -> montar_celulas_principais(as) \cup montar_celulas_completas(as)
      [] f = "complemento" ->
            {c \in montar_celulas_principais(as) : c.config = Longa} \cup montar_celulas_completas(as)
      [] f = "dicionario" -> montar_celulas_dicionario(as)
      [] OTHER -> celulas_ecore(as)

FasesDeCelulas == {"principal", "complemento", "dicionario", "ecore-P", "ecore-E"}

\* custo_celula: the time expected, here in sixths of a unit; 40 for a dictionary.
custo_celula(c) ==
    LET tam == IF c.tipo = "completo" \/ c.arquivo.tam < Cap THEN c.arquivo.tam ELSE Cap
        v == Velocidade[c.config]
    IN  IF c.tipo = "dicionario" THEN 240
        ELSE IF c.modo # "inteiro" /\ c.config \in Lentas THEN (4 * tam) \div v
        ELSE (6 * tam) \div v

\* The bytes of a file that train its dictionary; for generated logs another file does.
corte(c) ==
    LET regiao == IF c.arquivo.tam < 2 * Cap THEN c.arquivo.tam ELSE 2 * Cap
    IN  (((regiao * 4) \div 10) \div Bloco) * Bloco

\* What a cell measures: one configuration, or every level with and without dictionary.
Variantes(c) == IF c.tipo = "dicionario" THEN Niveis \X BOOLEAN ELSE {"unica"}

\* Without a byte, or without a sample, the cell raises.
Mensuravel(c) ==
    /\ c.arquivo.tam > 0
    /\ c.tipo = "dicionario" /\ c.arquivo.classe # "sint_logs" => corte(c) > 0

----------------------------------------------------------------------------
FIM == [tipo |-> "None"]
SemGrupo == [lista |-> <<>>, ns |-> <<>>]
Vazia == [principal |-> {}, completo |-> {}, dicionario |-> {}, ecore |-> {}, escala |-> {},
          escala_cpus |-> {}, falhas |-> {}, violada |-> {}]
Parado == [at |-> "parado", arquivos |-> {}, fase |-> "none", fases |-> <<>>, grupo |-> SemGrupo,
           ok |-> {}, erros |-> {}, resta |-> 0, parcial |-> {}, sessoes |-> <<>>, linhas |-> {},
           exato |-> TRUE, medidas |-> <<>>]
Fora == [pc |-> "fora", cel |-> FIM, cpu |-> 0, op |-> "comp", r |-> 0]

Trab == UNION {1..n : n \in {NCpus} \cup ToSet(Ns) \cup UNION {ToSet(g.ns) : g \in Grupos}}

Init ==
    /\ disco = Vazia /\ saida = Vazia
    /\ t = Parado
    /\ fila = <<>> /\ caixa = {}
    /\ w = [k \in Trab |-> Fora]
    /\ bar = [estado |-> "enche", n |-> 0]
    /\ gasto = [exec |-> 0, faltas |-> 0]

Gasta(que, max) == gasto[que] < max /\ gasto' = [gasto EXCEPT ![que] = @ + 1]
Vai(k, pc) == w' = [w EXCEPT ![k].pc = pc]
Vivos == {k \in Trab : w[k].pc \notin {"fora", "fim", "morto"}}

----------------------------------------------------------------------------
(***************************************************************************)
(* main: the start of a run.  A run with --escala-cpus refuses a file with  *)
(* the main measurements.                                                   *)
(***************************************************************************)
Fases(fase) ==
    CASE fase = "tudo" -> <<"principal", "dicionario", "ecore-P", "ecore-E", "escala">>
      [] fase = "ecore" -> <<"ecore-P", "ecore-E">>
      [] OTHER -> <<fase>>

Executar(fase, grupo, arquivos) ==
    /\ t.at = "parado"
    /\ grupo # SemGrupo => disco.principal = {}
    /\ Gasta("exec", MaxExec)
    /\ saida' = disco
    /\ t' = [Parado EXCEPT !.at = "main", !.arquivos = arquivos, !.fase = fase,
                           !.fases = Fases(fase), !.grupo = grupo]
    /\ UNCHANGED <<disco, fila, caixa, w, bar>>

\* The last salvar_saida, with the total time.
Terminar ==
    /\ t.at = "main" /\ t.fases = <<>>
    /\ disco' = saida /\ saida' = Vazia
    /\ t' = Parado
    /\ UNCHANGED <<fila, caixa, w, bar, gasto>>

\* The tool is killed: its workers are on their own, and write nothing here.
Interromper ==
    /\ t.at # "parado"
    /\ t' = Parado
    /\ saida' = Vazia /\ fila' = <<>> /\ caixa' = {}
    /\ w' = [k \in Trab |-> Fora]
    /\ bar' = [estado |-> "enche", n |-> 0]
    /\ UNCHANGED <<disco, gasto>>

----------------------------------------------------------------------------
(***************************************************************************)
(* executar_celulas and trabalhador: the dearest cells first.               *)
(***************************************************************************)
CpusDa(f) == IF f \in {"ecore-P", "ecore-E"} THEN 1 ELSE NCpus

\* The bug a check of it must find: one None for all the workers.
UmaSentinela(n) == <<FIM>>
Sentinelas(n) == [k \in 1..n |-> FIM]

ComecarCelulas ==
    /\ t.at = "main" /\ t.fases # <<>> /\ Head(t.fases) \in FasesDeCelulas
    /\ LET f == Head(t.fases)
           cara(a, b) == custo_celula(a) > custo_celula(b)
       IN  /\ fila' = SetToSortSeq(celulas(f, t.arquivos), cara) \o Sentinelas(CpusDa(f))
           /\ w' = [k \in Trab |-> IF k <= CpusDa(f) THEN [Fora EXCEPT !.pc = "livre"] ELSE Fora]
           /\ t' = [t EXCEPT !.at = "celulas", !.ok = {}, !.erros = {},
                             !.resta = Cardinality(celulas(f, t.arquivos))]
    /\ caixa' = {}
    /\ UNCHANGED <<disco, saida, bar, gasto>>

Tomar(k) ==
    /\ w[k].pc = "livre" /\ fila # <<>>
    /\ fila' = Tail(fila)
    /\ w' = [w EXCEPT ![k] = IF Head(fila) = FIM THEN [@ EXCEPT !.pc = "fim"]
                             ELSE [@ EXCEPT !.pc = "mede", !.cel = Head(fila)]]
    /\ UNCHANGED <<disco, saida, t, caixa, bar, gasto>>

Enviar(k, m) ==
    /\ caixa' = caixa \cup {m}
    /\ w' = [w EXCEPT ![k] = [@ EXCEPT !.pc = "livre", !.cel = FIM]]
    /\ UNCHANGED <<disco, saida, t, fila, bar>>

\* medir: every variant of the cell is exact, or one of them is not.
Medir(k) ==
    /\ w[k].pc = "mede" /\ Mensuravel(w[k].cel)
    /\ LET c == w[k].cel
           res(ruins) == {[cel |-> c, var |-> v, exato |-> v \notin ruins] : v \in Variantes(c)}
       IN  \/ Enviar(k, [cel |-> c, ok |-> TRUE, res |-> res({})]) /\ UNCHANGED gasto
           \/ \E v \in Variantes(c) :
                Enviar(k, [cel |-> c, ok |-> TRUE, res |-> res({v})]) /\ Gasta("faltas", MaxFaltas)

\* Any exception of a cell is sent as an error.
Falhar(k) ==
    /\ w[k].pc = "mede"
    /\ IF Mensuravel(w[k].cel) THEN Gasta("faltas", MaxFaltas) ELSE UNCHANGED gasto
    /\ Enviar(k, [cel |-> w[k].cel, ok |-> FALSE, res |-> {}])

\* resultados.get(), without a timeout.
Receber ==
    /\ t.at = "celulas" /\ t.resta > 0
    /\ \E m \in caixa :
        /\ caixa' = caixa \ {m}
        /\ t' = [t EXCEPT !.resta = @ - 1, !.ok = @ \cup m.res,
                          !.erros = IF m.ok THEN @ ELSE @ \cup {m.cel}]
    /\ UNCHANGED <<disco, saida, fila, w, bar, gasto>>

----------------------------------------------------------------------------
(***************************************************************************)
(* main: a phase is merged into saida, and saved with a rename.            *)
(***************************************************************************)
Chave(x) == [fase |-> "celula", cel |-> x.cel, var |-> x.var]
NaoExatos(xs) == {Chave(x) : x \in {y \in xs : ~y.exato}}

\* The bug a check of it must find: the failures of the phase before stay.
SemFalhasNada(f) == saida.falhas
SemFalhas(f) == {x \in saida.falhas : x.fase # (IF f = "complemento" THEN "principal" ELSE f)}

\* The main phase writes the list anew, the others append.
Violacoes(f, novas) == IF f = "principal" THEN novas ELSE saida.violada \cup novas

Do(xs, tipo) == {x \in xs : x.cel.tipo = tipo}
Nucleo(f) == {[x EXCEPT !.var = f] : x \in t.ok}
Juntada(f) ==
    LET base == [saida EXCEPT !.falhas = SemFalhas(f) \cup {[fase |-> f, cel |-> c] : c \in t.erros}]
        com(novas) == [base EXCEPT !.violada = Violacoes(f, NaoExatos(novas))]
    IN  CASE f = "principal" ->
               [com(t.ok) EXCEPT !.principal = Do(t.ok, "principal"), !.completo = Do(t.ok, "completo")]
          [] f = "complemento" ->
               [com(t.ok) EXCEPT
                  !.principal = {x \in @ : x.cel.config # Longa} \cup Do(t.ok, "principal"),
                  !.completo = Do(t.ok, "completo")]
          [] f = "dicionario" -> [com(t.ok) EXCEPT !.dicionario = t.ok]
          [] f = "ecore-P" -> base
          [] f = "ecore-E" -> [com(t.parcial \cup Nucleo(f)) EXCEPT !.ecore = t.parcial \cup Nucleo(f)]

\* After the last message and the join of every worker.
Guardar ==
    /\ t.at = "celulas" /\ t.resta = 0 /\ Vivos = {}
    /\ LET f == Head(t.fases) IN
        /\ saida' = Juntada(f)
        /\ disco' = IF f = "ecore-P" THEN disco ELSE Juntada(f)
        /\ t' = [t EXCEPT !.at = "main", !.fases = Tail(@),
                          !.parcial = IF f = "ecore-P" THEN Nucleo(f) ELSE {}]
    /\ w' = [k \in Trab |-> Fora]
    /\ UNCHANGED <<fila, caixa, bar, gasto>>

----------------------------------------------------------------------------
(***************************************************************************)
(* fase_escala and fase_escala_cpus: one session of n workers for each      *)
(* configuration and each n.                                                *)
(***************************************************************************)
\* analisar_cpus: the ranges in order; a CPU met twice is an error.
analisar_cpus(lista) ==
    LET junta(acc, x) == acc \o [i \in 1..(x[2] + 1 - x[1]) |-> x[1] + i - 1]
    IN  FoldLeft(junta, <<>>, lista)
CpusValidas(g) ==
    LET cpus == analisar_cpus(g.lista)
    IN  IsInjective(cpus) /\ \A n \in ToSet(g.ns) : 1..n \subseteq DOMAIN cpus

CpusDaSessao == IF t.grupo = SemGrupo THEN Ordem ELSE analisar_cpus(t.grupo.lista)
Sessoes(ns) ==
    [i \in 1..(Len(ConfigsEscala) * Len(ns)) |->
        [config |-> ConfigsEscala[((i - 1) \div Len(ns)) + 1], n |-> ns[((i - 1) % Len(ns)) + 1]]]

ComecarEscala ==
    /\ t.at = "main" /\ t.fases # <<>> /\ Head(t.fases) = "escala"
    /\ IF t.grupo # SemGrupo /\ ~CpusValidas(t.grupo)
          THEN t' = Parado /\ saida' = Vazia
          ELSE /\ t' = [t EXCEPT !.at = "escala", !.linhas = {},
                           !.sessoes = Sessoes(IF t.grupo = SemGrupo THEN Ns ELSE t.grupo.ns)]
               /\ UNCHANGED saida
    /\ UNCHANGED <<disco, fila, caixa, w, bar, gasto>>

Ops == {"comp", "decomp"}
Voltas == 0..(Rodadas - 1)

\* The blocks of the files that are data of the world, dealt out to the workers of a
\* session; one that gets none is a division by zero.
pool_blocos == MapThenSumSet(LAMBDA a : IF a.sintetico THEN 0 ELSE a.tam \div Mib, t.arquivos)

SemBlocos ==
    /\ t.at = "escala" /\ t.sessoes # <<>> /\ Head(t.sessoes).n > pool_blocos
    /\ t' = Parado /\ saida' = Vazia
    /\ UNCHANGED <<disco, fila, caixa, w, bar, gasto>>

AbrirSessao ==
    /\ t.at = "escala" /\ t.sessoes # <<>> /\ Head(t.sessoes).n <= pool_blocos
    /\ LET n == Head(t.sessoes).n IN
        /\ bar' = [estado |-> "enche", n |-> 0]
        /\ w' = [k \in Trab |-> IF k <= n THEN [Fora EXCEPT !.pc = "prepara", !.cpu = CpusDaSessao[k]]
                                ELSE Fora]
        /\ t' = [t EXCEPT !.at = "sessao", !.resta = n + n * 2 * Rodadas, !.exato = TRUE,
                          !.medidas = [x \in Ops \X Voltas |-> 0]]
    /\ caixa' = {}
    /\ UNCHANGED <<disco, saida, fila, gasto>>

\* The blocks of the worker are compressed and come back, before any round.
Preparar(k) ==
    /\ w[k].pc = "prepara"
    /\ \E exato \in BOOLEAN :
        /\ IF exato THEN UNCHANGED gasto ELSE Gasta("faltas", MaxFaltas)
        /\ caixa' = caixa \cup {[i |-> k, msg |-> "setup", exato |-> exato]}
    /\ Vai(k, "espera")
    /\ UNCHANGED <<disco, saida, t, fila, bar>>

Partes == Head(t.sessoes).n

\* The barrier lets its last party through and drains before it fills again.
Sai(n) == [estado |-> IF n = 0 THEN "enche" ELSE "escoa", n |-> n]

\* The bug a check of it must find: the barrier is made for one worker less.
EntrarUmAMenos(k) ==
    /\ w[k].pc = "espera" /\ t.at = "sessao" /\ bar.estado # "escoa"
    /\ IF bar.estado = "quebrada" THEN Vai(k, "morto") /\ UNCHANGED bar
       ELSE IF bar.n + 1 >= Partes - 1 THEN Vai(k, "mede_rodada") /\ bar' = Sai(bar.n)
       ELSE Vai(k, "barreira") /\ bar' = [bar EXCEPT !.n = @ + 1]
    /\ UNCHANGED <<disco, saida, t, fila, caixa, gasto>>

Entrar(k) ==
    /\ w[k].pc = "espera" /\ bar.estado # "escoa"
    /\ IF bar.estado = "quebrada" THEN Vai(k, "morto") /\ UNCHANGED bar
       ELSE IF bar.n + 1 = Partes THEN Vai(k, "mede_rodada") /\ bar' = Sai(bar.n)
       ELSE Vai(k, "barreira") /\ bar' = [bar EXCEPT !.n = @ + 1]
    /\ UNCHANGED <<disco, saida, t, fila, caixa, gasto>>

Passar(k) ==
    /\ w[k].pc = "barreira" /\ bar.estado # "enche"
    /\ IF bar.estado = "quebrada" THEN Vai(k, "morto") /\ bar' = [bar EXCEPT !.n = @ - 1]
       ELSE Vai(k, "mede_rodada") /\ bar' = Sai(bar.n - 1)
    /\ UNCHANGED <<disco, saida, t, fila, caixa, gasto>>

\* barreira.wait(timeout=300): the others will find it broken.
TempoBarreira(k) ==
    /\ w[k].pc = "barreira" /\ bar.estado = "enche"
    /\ bar' = [estado |-> "quebrada", n |-> bar.n - 1]
    /\ Vai(k, "morto")
    /\ UNCHANGED <<disco, saida, t, fila, caixa, gasto>>

MedirRodada(k) ==
    /\ w[k].pc = "mede_rodada"
    /\ caixa' = caixa \cup {[i |-> k, msg |-> "medida", op |-> w[k].op, r |-> w[k].r]}
    /\ w' = [w EXCEPT ![k] =
               IF w[k].r < Rodadas - 1 THEN [w[k] EXCEPT !.pc = "espera", !.r = w[k].r + 1]
               ELSE IF w[k].op = "comp" THEN [@ EXCEPT !.pc = "espera", !.op = "decomp", !.r = 0]
               ELSE [@ EXCEPT !.pc = "fim"]]
    /\ UNCHANGED <<disco, saida, t, fila, bar, gasto>>

ReceberMedida ==
    /\ t.at = "sessao" /\ t.resta > 0
    /\ \E m \in caixa :
        /\ caixa' = caixa \ {m}
        /\ t' = IF m.msg = "setup" THEN [t EXCEPT !.resta = @ - 1, !.exato = @ /\ m.exato]
                ELSE [t EXCEPT !.resta = @ - 1, !.medidas[<<m.op, m.r>>] = @ + 1]
    /\ UNCHANGED <<disco, saida, fila, w, bar, gasto>>

\* resultados.get(timeout=600): the tool raises, and leaves once its children have.
TempoFila ==
    /\ t.at = "sessao" /\ t.resta > 0 /\ caixa = {}
    /\ t' = [t EXCEPT !.at = "saindo"]
    /\ UNCHANGED <<disco, saida, fila, caixa, w, bar, gasto>>

Sair ==
    /\ t.at = "saindo" /\ Vivos = {}
    /\ t' = Parado /\ saida' = Vazia
    /\ w' = [k \in Trab |-> Fora] /\ caixa' = {}
    /\ bar' = [estado |-> "enche", n |-> 0]
    /\ UNCHANGED <<disco, fila, gasto>>

FecharSessao ==
    /\ t.at = "sessao" /\ t.resta = 0 /\ Vivos = {}
    /\ LET s == Head(t.sessoes) IN
        t' = [t EXCEPT !.at = "escala", !.sessoes = Tail(@),
                       !.linhas = @ \cup {[config |-> s.config, n |-> s.n, exato |-> t.exato]}]
    /\ w' = [k \in Trab |-> Fora]
    /\ bar' = [estado |-> "enche", n |-> 0]
    /\ UNCHANGED <<disco, saida, fila, caixa, gasto>>

TabelaEscala == IF t.grupo = SemGrupo THEN "escala" ELSE "escala_cpus"
LinhasRuins(tab, ls) ==
    {[fase |-> tab, config |-> l.config, n |-> l.n] : l \in {x \in ls : ~x.exato}}

GuardarEscala ==
    /\ t.at = "escala" /\ t.sessoes = <<>>
    /\ LET junta == [saida EXCEPT ![TabelaEscala] = t.linhas,
                                  !.violada = @ \cup LinhasRuins(TabelaEscala, t.linhas)]
       IN  saida' = junta /\ disco' = junta
    /\ t' = [t EXCEPT !.at = "main", !.fases = Tail(@)]
    /\ UNCHANGED <<fila, caixa, w, bar, gasto>>

----------------------------------------------------------------------------
\* A worker is killed, for want of memory or by hand.
Matar(k) ==
    /\ k \in Vivos /\ Gasta("faltas", MaxFaltas)
    /\ Vai(k, "morto")
    /\ UNCHANGED <<disco, saida, t, fila, caixa, bar>>

trabalhador(k) == Tomar(k) \/ Medir(k) \/ Falhar(k)
trabalhador_escala(k) == Preparar(k) \/ Entrar(k) \/ Passar(k) \/ MedirRodada(k)
executar_celulas == ComecarCelulas \/ Receber \/ Guardar
fase_escala ==
    \/ ComecarEscala \/ SemBlocos \/ AbrirSessao \/ ReceberMedida \/ FecharSessao \/ GuardarEscala \/ Sair

Comandos ==
    \E as \in {Arquivos} \cup Selecoes :
        \/ \E f \in {"tudo", "principal", "complemento", "dicionario", "ecore", "escala"} :
                Executar(f, SemGrupo, as)
        \/ \E g \in Grupos : Executar("escala", g, as)

Next ==
    \/ Comandos \/ executar_celulas \/ fase_escala \/ TempoFila \/ Terminar \/ Interromper
    \/ \E k \in Trab : trabalhador(k) \/ trabalhador_escala(k) \/ TempoBarreira(k) \/ Matar(k)

\* Every process that can go on does, and a wait with a timeout ends.
Spec == Init /\ [][Next]_vars
FairSpec ==
    /\ Spec
    /\ WF_vars(executar_celulas \/ fase_escala \/ Terminar \/ TempoFila)
    /\ \A k \in Trab : WF_vars(trabalhador(k) \/ trabalhador_escala(k) \/ TempoBarreira(k))

----------------------------------------------------------------------------
(***************************************************************************)
(* Properties.                                                             *)
(***************************************************************************)
Tabelas(o) == o.principal \cup o.completo \cup o.dicionario \cup o.ecore
Inexatos(o) ==
    NaoExatos(Tabelas(o)) \cup LinhasRuins("escala", o.escala)
        \cup LinhasRuins("escala_cpus", o.escala_cpus)

\* The cells that the tables, or the rows of the P cores not yet in them, hold, and
\* those on the list of failures.
Contadas(o, parcial) == {x.cel : x \in Tabelas(o) \cup parcial} \cup {x.cel : x \in o.falhas}

\* When a phase of cells has been merged, each of its cells has either all of its
\* measurements or one failure (the complement, which keeps its old failures: one
\* or the other), whatever workers died idle. A cell that was measured or listed as
\* failed and is neither now is of a file the run was not for, as the phase writes its
\* tables and its failures anew, or it is a failure of the main phase that the
\* complement takes off the list without measuring the cell. A measurement that goes is
\* one that the phase makes, on the same cores. When a session of the scaling phase
\* closes, every round has been measured by every worker. A full run ends with a list
\* of violations that names exactly the measurements of its tables that were not exact,
\* whatever was in the file before.
CellsAccounted ==
    [][/\ \A f \in FasesDeCelulas :
            (Guardar /\ Head(t.fases) = f) =>
               /\ \A c \in celulas(f, t.arquivos) :
                   LET todas == IF f = "ecore-P" THEN t'.parcial
                                ELSE IF f = "ecore-E" THEN {x \in saida'.ecore : x.var = f}
                                ELSE saida'.principal \cup saida'.completo \cup saida'.dicionario
                       meus == {x \in todas : x.cel = c}
                       medida == Cardinality(meus) = Cardinality(Variantes(c))
                       falha == [fase |-> f, cel |-> c] \in saida'.falhas
                   IN  (medida \/ meus = {}) /\ (medida \/ falha) /\ (f = "complemento" \/ ~(medida /\ falha))
               /\ \A c \in Contadas(saida, t.parcial) \ Contadas(saida', t'.parcial) :
                   \/ c \in celulas(f, Arquivos \ t.arquivos)
                   \/ f = "complemento" /\ [fase |-> "principal", cel |-> c] \in saida.falhas
                                        /\ c \notin celulas(f, t.arquivos)
               /\ \A x \in Tabelas(saida) \ Tabelas(saida') :
                   /\ x.cel \in celulas(f, Arquivos)
                   /\ x \in saida.ecore <=> f = "ecore-E"
       /\ FecharSessao => \A x \in DOMAIN t.medidas : t.medidas[x] = Partes
       /\ Terminar /\ t.fase = "tudo" =>
            disco'.violada = NaoExatos(Tabelas(disco')) \cup LinhasRuins("escala", disco'.escala)]_vars

\* No worker measures a round while another is still in an earlier one, also when
\* workers die in the barrier, and no two of a session share a CPU.
RoundsTogether ==
    \A j, k \in Trab :
        w[j].pc = "mede_rodada" /\ w[k].pc = "mede_rodada" =>
            w[j].op = w[k].op /\ w[j].r = w[k].r /\ (j # k => w[j].cpu # w[k].cpu)

\* What nobody ends: a message that a killed worker owed to get(), and a barrier
\* that counts a killed worker among those inside.
MensagemPerdida ==
    /\ t.at = "celulas"
    /\ t.resta > Cardinality(caixa) + Cardinality({k \in Trab : w[k].pc = "mede"})
                   + (IF Vivos = {} THEN 0 ELSE Len(SelectSeq(fila, LAMBDA c : c # FIM)))
BarreiraPresa == bar.n > Cardinality({k \in Trab : w[k].pc = "barreira"})

\* The tool ends, also when a scaling worker dies or a wait times out, except where
\* a worker died with a cell in its hands or within the barrier.
ToolEnds == []<>(t.at = "parado" \/ MensagemPerdida \/ BarreiraPresa)

\* What the report of economia.py says of an empty list: the hash was right in all
\* measurements of the file.
ViolationsListed == disco.violada = {} => Inexatos(disco) = {}
=============================================================================
