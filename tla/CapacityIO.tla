----------------------------- MODULE CapacityIO -----------------------------
(***************************************************************************)
(* bench/capacidade_local.py: a measurement is n worker processes and a     *)
(* parent that meet at a barrier, share a page of memory (the deadline, the *)
(* bytes each worker has done) and end with one message of each worker.     *)
(* io-disco first compresses its input into files of frames, which the      *)
(* decompression tests read round and round; sustentado compresses, or      *)
(* decompresses, blocks it holds in memory.                                *)
(*                                                                         *)
(* A worker may die at any time. The waits of the program have timeouts;    *)
(* those below them have none: the locks of the barrier and of the queue,   *)
(* the notify_all that waits for every sleeper it has counted, the read of  *)
(* the rest of a message, the end of a process that has a message to write. *)
(*                                                                         *)
(* A unit of a file stands for 4 bytes; a block of 1 MiB is B units.        *)
(***************************************************************************)
EXTENDS Naturals, Integers, Sequences, FiniteSets, SequencesExt, FiniteSetsExt

CONSTANTS
    B,                  \* the units of a block, and of the buffer of a file
    Clen,               \* the units each block of the input compresses to: more than
                        \* B when it does not compress
    NPrep,              \* the workers of the preparation, one file each
    NTeste,             \* the workers of a test
    Comandos,           \* [cmd |-> "io_disco" or "sustentado", plano |-> modes]
    Duracao, Intervalo, Folga,  \* of a test, in ticks; Folga is the 0.5 s of the deadline
    Passo,              \* a worker looks at the deadline every Passo blocks
    CapSaida,           \* --io-cap-mib, in units
    MaxPorTic,          \* blocks of a worker for every tick
    MaxTempo, MaxMortes

ASSUME CapacityAssumption ==
    /\ {B, NPrep, NTeste, Passo} \subseteq Nat \ {0} /\ B >= 2
    /\ {Duracao, Folga, MaxPorTic, MaxTempo, MaxMortes, CapSaida} \subseteq Nat
    /\ Intervalo \in Nat \ {0}
    /\ Clen \in Seq(Nat) /\ Clen # <<>> /\ \A b \in DOMAIN Clen : Clen[b] \in 1..(2 * B)
    /\ NTeste <= NPrep         \* 16 files, tests of 8 or 16 workers
    /\ \A c \in Comandos : c.plano \in Seq({"comp", "decomp", "decomp-grava", "sust"})

VARIABLES
    pai,        \* the command: where it is, the plan left, the locals of executar_io
    w,          \* the workers
    mm,         \* the shared page
    fila, bar,  \* the queue of messages, the barrier of n + 1
    comp,       \* the files comp_i.bin; <<>> where there is none
    pasta,      \* --io-dir exists
    agora,      \* the clock
    mortes,
    travas      \* what the dead have left in the barrier and in the queue

vars == <<pai, w, mm, fila, bar, comp, pasta, agora, mortes, travas>>

NMax == IF NPrep > NTeste THEN NPrep ELSE NTeste
Trab == 0..(NMax - 1)
NBlocos == Len(Clen)
CapPreparo == 3 * B * NBlocos + 2 * B       \* 1 << 50: more than the frames of the input

\* regiao: the blocks of the input that are worker i's of n.
regiao(i, n) == <<(i * NBlocos) \div n, ((i + 1) * NBlocos) \div n>>

\* zstd: the units of a compressed block tell the block.
Comprimido(b) == [j \in 1..Clen[b] |-> 100 + b]
Descomprimido(fr) ==
    {b \in DOMAIN Clen : Comprimido(b) = fr}

NoEscritor == [buf |-> <<>>, arq |-> <<>>, off |-> 0, cap |-> 0]
NoLeitor == [fds |-> <<>>, f |-> 1, off |-> 0, pend |-> <<>>, fim_arq |-> FALSE]
Fora == [pc |-> "fora", modo |-> "none", pos |-> 0, cnt |-> 0, dl |-> 0,
         e |-> NoEscritor, l |-> NoLeitor, fr |-> <<>>]
Morto(i) == [Fora EXCEPT !.pc = "morto", !.modo = w[i].modo]
NoMem == [dl |-> 0, feito |-> [i \in Trab |-> 0]]

\* barreira, fila: the lock of the barrier, of the queue, is taken for good; dormindo:
\* workers killed asleep in the barrier; metade: half a message in the queue; retidos:
\* workers whose message is not written.
SemTravas == [barreira |-> FALSE, fila |-> FALSE, metade |-> FALSE, dormindo |-> 0, retidos |-> {}]

Parado == [at |-> "parado", cmd |-> "none", plano |-> <<>>, n |-> 0, resta |-> 0, prazo |-> 0, t0 |-> 0,
           k |-> 1, cum |-> 0, total |-> 0, desde |-> [i \in Trab |-> 0],
           parou |-> FALSE, testes |-> 0]

Init ==
    /\ pai = Parado
    /\ w = [i \in Trab |-> Fora]
    /\ mm = NoMem
    /\ fila = {} /\ bar = [n |-> 0, quebrada |-> FALSE]
    /\ comp = [i \in 0..(NPrep - 1) |-> <<>>]
    /\ pasta = FALSE
    /\ agora = 0 /\ mortes = 0 /\ travas = SemTravas

\* A process ends when its messages are written.
Andam == {i \in Trab : w[i].pc \notin {"fora", "fim", "morto"}}
Vivos == Andam \cup travas.retidos
Ir(at) == pai' = [pai EXCEPT !.at = at]

\* Whoever comes last, or gives up waiting, wakes every sleeper the condition has
\* counted; with a dead one among them it never has done, and keeps the lock.
Acordar == travas' = [travas EXCEPT !.barreira = @ \/ travas.dormindo > 0]

\* A message is written by a thread of its worker, under the lock of the queue, into a
\* pipe that holds some 64 KiB: the latencies of a test are more.
Posta(i, grande) ==
    \E r \in CASE travas.fila \/ travas.retidos # {} -> {{i}}
             [] grande /\ pai.at \in {"erro", "saindo"} -> {{}, {i}}
             [] OTHER -> {{}} :
        travas' = [travas EXCEPT !.retidos = @ \cup r]
Chegadas == {m \in fila : m.i \notin travas.retidos}

----------------------------------------------------------------------------
(***************************************************************************)
(* Escritor: a buffer of one block before the file; a file at its cap is    *)
(* written again from its start.                                            *)
(***************************************************************************)
Sobre(arq, off, buf) ==
    SubSeq(arq, 1, off) \o buf \o SubSeq(arq, off + B + 1, Len(arq))

descarregar(e, buf) ==
    [e EXCEPT !.arq = Sobre(@, e.off, buf),
              !.off = IF @ + B >= e.cap THEN 0 ELSE @ + B]

escrever(e, dados) ==
    LET s == e.buf \o dados
        q == Len(s) \div B
        cheios == [k \in 1..q |-> SubSeq(s, (k - 1) * B + 1, k * B)]
    IN  [FoldLeft(descarregar, e, cheios) EXCEPT !.buf = SubSeq(s, q * B + 1, Len(s))]

\* The bug a check of it must find: the rest of the buffer is not written.
fecharSemResto(e, completar) == e

fechar(e, completar) ==
    IF completar /\ e.buf # <<>>
    THEN [descarregar(e, e.buf \o [x \in 1..(B - Len(e.buf)) |-> 0]) EXCEPT !.buf = <<>>]
    ELSE e

----------------------------------------------------------------------------
(***************************************************************************)
(* The parent: cmd_io_disco and cmd_sustentado, executar_io and             *)
(* sustentado_um.                                                           *)
(***************************************************************************)
Lancar(modo, n) ==
    /\ w' = [i \in Trab |-> IF i < n THEN [Fora EXCEPT !.pc = "abre", !.modo = modo] ELSE Fora]
    /\ mm' = NoMem
    /\ fila' = {} /\ bar' = [n |-> 0, quebrada |-> FALSE] /\ travas' = SemTravas

Comecar ==
    /\ pai.at = "parado"
    /\ \E c \in Comandos :
        /\ pai' = [pai EXCEPT !.cmd = c.cmd, !.plano = c.plano,
                              !.at = IF c.cmd = "io_disco" THEN "preparar" ELSE "plano"]
        /\ pasta' = (c.cmd = "io_disco")
    /\ UNCHANGED <<w, mm, fila, bar, comp, agora, mortes, travas>>

Preparar ==
    /\ pai.at = "preparar"
    /\ Lancar("preparar", NPrep)
    /\ pai' = [pai EXCEPT !.at = "prontos", !.n = NPrep, !.resta = NPrep]
    /\ UNCHANGED <<comp, pasta, agora, mortes>>

Testar ==
    /\ pai.at = "plano" /\ pai.plano # <<>>
    /\ Lancar(Head(pai.plano), NTeste)
    /\ pai' = [Parado EXCEPT !.at = "prontos", !.cmd = pai.cmd, !.plano = pai.plano,
                             !.testes = pai.testes, !.n = NTeste, !.resta = NTeste]
    /\ UNCHANGED <<comp, pasta, agora, mortes>>

EmPreparo == w[0].modo = "preparar"

Pronto ==
    /\ pai.at = "prontos" /\ pai.resta > 0
    /\ \E m \in Chegadas : m.msg = "pronto" /\ fila' = fila \ {m}
    /\ pai' = [pai EXCEPT !.resta = @ - 1]
    /\ UNCHANGED <<w, mm, bar, comp, pasta, agora, mortes, travas>>

\* One of the n + 1 comes to the barrier; the last wakes the others.
Parte ==
    /\ ~travas.barreira
    /\ bar' = [bar EXCEPT !.n = @ + 1]
    /\ IF bar.n = pai.n THEN Acordar ELSE UNCHANGED travas

\* The bug a check of it must find: the deadline never gets to the page.
PrazoSoLocal ==
    /\ pai.at = "prontos" /\ pai.resta = 0
    /\ Parte
    /\ pai' = [pai EXCEPT !.at = "barreira", !.prazo = agora + Duracao + Folga]
    /\ UNCHANGED <<w, mm, fila, comp, pasta, agora, mortes>>

\* The deadline is in the page before any worker is let through.
MarcarPrazo ==
    /\ pai.at = "prontos" /\ pai.resta = 0
    /\ mm' = IF EmPreparo THEN mm ELSE [mm EXCEPT !.dl = agora + Duracao + Folga]
    /\ Parte
    /\ pai' = [pai EXCEPT !.at = "barreira", !.prazo = agora + Duracao + Folga]
    /\ UNCHANGED <<w, fila, comp, pasta, agora, mortes>>

Largar ==
    /\ pai.at = "barreira" /\ ~travas.barreira
    /\ bar.quebrada \/ bar.n = pai.n + 1
    /\ pai' = IF bar.quebrada THEN [pai EXCEPT !.at = "erro"]
              ELSE [pai EXCEPT !.at = IF EmPreparo THEN "fins" ELSE "curva",
                               !.t0 = agora, !.resta = pai.n]
    /\ UNCHANGED <<w, mm, fila, bar, comp, pasta, agora, mortes, travas>>

Somados == MapThenSumSet(LAMBDA i : mm.feito[i], 0..(pai.n - 1))

\* One sample: the sum of the counters, then condicao_parada on what the machine
\* shows; too hot, swapping or out of memory puts the deadline in the past.
Amostrar ==
    /\ pai.at = "curva" /\ pai.k * Intervalo <= Duracao
    /\ agora >= pai.t0 + pai.k * Intervalo
    /\ \E para \in BOOLEAN :
        /\ pai' = [pai EXCEPT !.k = @ + 1, !.cum = Somados,
                              !.at = IF para THEN "fins" ELSE @, !.parou = para,
                              !.desde = IF para THEN [i \in Trab |-> w[i].cnt] ELSE @]
        /\ mm' = IF para THEN [mm EXCEPT !.dl = agora - 1] ELSE mm
    /\ UNCHANGED <<w, fila, bar, comp, pasta, agora, mortes, travas>>

FimDaCurva ==
    /\ pai.at = "curva" /\ pai.k * Intervalo > Duracao
    /\ Ir("fins")
    /\ UNCHANGED <<w, mm, fila, bar, comp, pasta, agora, mortes, travas>>

Receber ==
    /\ pai.at = "fins" /\ pai.resta > 0
    /\ \E m \in Chegadas :
        /\ m.msg = "fim" /\ fila' = fila \ {m}
        /\ pai' = [pai EXCEPT !.resta = @ - 1, !.total = @ + m.bytes]
    /\ UNCHANGED <<w, mm, bar, comp, pasta, agora, mortes, travas>>

\* After the join: the section, or the item of the plan, is saved.
Gravar ==
    /\ pai.at = "fins" /\ pai.resta = 0 /\ Vivos = {}
    /\ pai' = [pai EXCEPT !.at = "plano", !.plano = IF EmPreparo THEN @ ELSE Tail(@),
                          !.testes = IF EmPreparo THEN @ ELSE @ + 1]
    /\ UNCHANGED <<w, mm, fila, bar, comp, pasta, agora, mortes, travas>>

\* The bug a check of it must find: the wait for the workers to be ready has no timeout.
TempoSoNoFim ==
    /\ mortes > 0
    /\ pai.at = "fins" /\ pai.resta > 0 /\ Chegadas = {} /\ ~travas.metade
    /\ Ir("erro")
    /\ UNCHANGED <<w, mm, fila, bar, comp, pasta, agora, mortes, travas>>

\* fila.get(timeout), barreira.wait(timeout): one to fifteen minutes, without an answer.
Tempo ==
    \/ /\ mortes > 0
       /\ pai.at \in {"prontos", "fins"} /\ pai.resta > 0 /\ Chegadas = {} /\ ~travas.metade
       /\ Ir("erro")
       /\ UNCHANGED <<w, mm, fila, bar, comp, pasta, agora, mortes, travas>>
    \/ /\ mortes > 0
       /\ pai.at = "barreira" /\ ~travas.barreira /\ ~bar.quebrada /\ bar.n < pai.n + 1
       /\ Acordar
       /\ IF travas.dormindo > 0 THEN UNCHANGED <<pai, bar>>
          ELSE Ir("erro") /\ bar' = [bar EXCEPT !.quebrada = TRUE]
       /\ UNCHANGED <<w, mm, fila, comp, pasta, agora, mortes>>

\* The finally of cmd_io_disco removes its directory; then the children are joined.
Terminar ==
    /\ pai.at = "erro" \/ (pai.at = "plano" /\ pai.plano = <<>>)
    /\ Ir("saindo")
    /\ pasta' = FALSE
    /\ UNCHANGED <<w, mm, fila, bar, comp, agora, mortes, travas>>

Sair ==
    /\ pai.at = "saindo" /\ Vivos = {}
    /\ Ir("fim")
    /\ UNCHANGED <<w, mm, fila, bar, comp, pasta, agora, mortes, travas>>

----------------------------------------------------------------------------
(***************************************************************************)
(* modo_io_comp_worker and trabalhador_sust.                               *)
(***************************************************************************)
Grava(modo) == modo \in {"comp", "decomp-grava", "preparar"}
Le(modo) == modo \in {"decomp", "decomp-grava"}

\* arquivos_comp: the files range(i, NPrep, n).
Arquivos(i, n) == [k \in 1..((NPrep - i + n - 1) \div n) |-> i + (k - 1) * n]

\* The files are opened by name: after the finally of the command there are none.
Abrir(i) ==
    /\ w[i].pc = "abre"
    /\ Grava(w[i].modo) \/ Le(w[i].modo) => pasta
    /\ w' = [w EXCEPT ![i] =
         [w[i] EXCEPT !.pc = "espera", !.pos = regiao(i, pai.n)[1],
                   !.e = [NoEscritor EXCEPT !.cap = IF w[i].modo = "preparar" THEN CapPreparo ELSE CapSaida],
                   !.l = IF Le(w[i].modo) THEN [NoLeitor EXCEPT !.fds = Arquivos(i, pai.n)] ELSE @]]
    /\ comp' = IF w[i].modo = "preparar" THEN [comp EXCEPT ![i] = <<>>] ELSE comp
    /\ fila' = fila \cup {[msg |-> "pronto", i |-> i, bytes |-> 0]} /\ Posta(i, FALSE)
    /\ UNCHANGED <<pai, mm, bar, pasta, agora, mortes>>

NaoAbre(i) ==
    /\ w[i].pc = "abre" /\ ~pasta
    /\ Grava(w[i].modo) \/ Le(w[i].modo)
    /\ w' = [w EXCEPT ![i] = Morto(i)]
    /\ UNCHANGED <<pai, mm, fila, bar, comp, pasta, agora, mortes, travas>>

Chegar(i) ==
    /\ w[i].pc = "espera" /\ ~travas.barreira
    /\ IF bar.quebrada THEN w' = [w EXCEPT ![i] = Morto(i)] /\ UNCHANGED <<bar, travas>>
       ELSE w' = [w EXCEPT ![i].pc = "barreira"] /\ Parte
    /\ UNCHANGED <<pai, mm, fila, comp, pasta, agora, mortes>>

\* The deadline is read once behind the barrier.
Passar(i) ==
    /\ w[i].pc = "barreira" /\ ~travas.barreira /\ (bar.quebrada \/ bar.n = pai.n + 1)
    /\ w' = [w EXCEPT ![i] = IF bar.quebrada THEN Morto(i)
                             ELSE [w[i] EXCEPT !.pc = "bloco", !.dl = mm.dl]]
    /\ UNCHANGED <<pai, mm, fila, bar, comp, pasta, agora, mortes, travas>>

TempoBarreira(i) ==
    /\ mortes > 0 /\ w[i].pc = "barreira" /\ ~travas.barreira /\ ~bar.quebrada /\ bar.n < pai.n + 1
    /\ Acordar
    /\ IF travas.dormindo > 0 THEN UNCHANGED <<w, bar>>
       ELSE w' = [w EXCEPT ![i] = Morto(i)] /\ bar' = [bar EXCEPT !.quebrada = TRUE]
    /\ UNCHANGED <<pai, mm, fila, comp, pasta, agora, mortes>>

\* The counter of the worker, in blocks.
Feito(i, x) ==
    /\ w' = [w EXCEPT ![i] = [x EXCEPT !.cnt = @ + 1, !.pc = "decide"]]
    /\ mm' = [mm EXCEPT !.feito[i] = w[i].cnt + 1]
    /\ UNCHANGED <<pai, fila, bar, comp, pasta, agora, mortes, travas>>

\* MaxPorTic is how fast a worker is, before the deadline.
PodeBloco(i) ==
    /\ w[i].pc = "bloco"
    /\ w[i].modo = "preparar" \/ w[i].cnt < MaxPorTic * (agora + 1) \/ agora >= pai.prazo

\* comp and preparar: the next block of the region, as a frame: two sizes, the data.
ComprimirBloco(i) ==
    /\ PodeBloco(i) /\ w[i].modo \in {"comp", "preparar"}
    /\ LET c == Comprimido(w[i].pos + 1)
           r == regiao(i, pai.n)
       IN  Feito(i, [w[i] EXCEPT !.e = escrever(escrever(@, <<B, Len(c)>>), c),
                         !.pos = IF @ + 1 >= r[2] /\ w[i].modo = "comp" THEN r[1] ELSE @ + 1])

\* sustentado: a block of the worker's own, without a file.
BlocoSust(i) ==
    /\ PodeBloco(i) /\ w[i].modo = "sust"
    /\ Feito(i, w[i])

\* Leitor.proximo, one turn of its loop each: a frame, the next file, a read.
Disp(i) == Len(w[i].l.pend)
Quadro(i) == Disp(i) >= 2 /\ w[i].l.pend[1] # 0 /\ Disp(i) >= 2 + w[i].l.pend[2]

DescomprimirBloco(i) ==
    /\ PodeBloco(i) /\ Le(w[i].modo) /\ Quadro(i)
    /\ LET pend == w[i].l.pend
           fr == SubSeq(pend, 3, 2 + pend[2])
           x == [w[i] EXCEPT !.fr = fr, !.l.pend = SubSeq(@, 3 + pend[2], Len(@))]
       IN  Feito(i, IF Grava(w[i].modo) THEN [x EXCEPT !.e = escrever(@, [j \in 1..B |-> 1])] ELSE x)

ProximoArquivo(i) ==
    /\ PodeBloco(i) /\ Le(w[i].modo) /\ ~Quadro(i)
    /\ (Disp(i) >= 2 /\ w[i].l.pend[1] = 0) \/ w[i].l.fim_arq
    /\ LET l == w[i].l
       IN  w' = [w EXCEPT ![i].l = [l EXCEPT !.f = (l.f % Len(l.fds)) + 1, !.off = 0,
                                             !.pend = <<>>, !.fim_arq = FALSE]]
    /\ UNCHANGED <<pai, mm, fila, bar, comp, pasta, agora, mortes, travas>>

LerBloco(i) ==
    /\ PodeBloco(i) /\ Le(w[i].modo) /\ ~Quadro(i)
    /\ ~(Disp(i) >= 2 /\ w[i].l.pend[1] = 0) /\ ~w[i].l.fim_arq
    /\ LET l == w[i].l
           arq == comp[l.fds[l.f]]
           lido == SubSeq(arq, l.off + 1, l.off + B)
       IN  w' = [w EXCEPT ![i].l = [l EXCEPT !.pend = l.pend \o lido, !.off = l.off + Len(lido),
                                             !.fim_arq = \/ l.fim_arq \/ lido = <<>>
                                                         \/ l.off + Len(lido) >= Len(arq)]]
    /\ UNCHANGED <<pai, mm, fila, bar, comp, pasta, agora, mortes, travas>>

\* After a block: preparar ends with its region; sustentado compares every block with
\* the deadline it holds and reads it again every Passo blocks; the others do both
\* every Passo blocks.
Decidir(i) ==
    /\ w[i].pc = "decide"
    /\ LET x == w[i]
           cada == x.cnt % Passo = 0
           para == CASE x.modo = "preparar" -> x.pos >= regiao(i, pai.n)[2]
                     [] x.modo = "sust" -> agora >= x.dl
                     [] OTHER -> cada /\ agora >= x.dl
       IN  w' = [w EXCEPT ![i] = [x EXCEPT !.pc = IF para THEN "fecha" ELSE "bloco",
                                           !.dl = IF ~para /\ cada THEN mm.dl ELSE x.dl]]
    /\ UNCHANGED <<pai, mm, fila, bar, comp, pasta, agora, mortes, travas>>

Fechar(i) ==
    /\ w[i].pc = "fecha"
    /\ LET e == fechar(w[i].e, w[i].modo = "preparar")
       IN  /\ w' = [w EXCEPT ![i] = [Fora EXCEPT !.pc = "fim", !.modo = w[i].modo, !.cnt = w[i].cnt]]
           /\ comp' = IF w[i].modo = "preparar" THEN [comp EXCEPT ![i] = e.arq] ELSE comp
    /\ fila' = fila \cup {[msg |-> "fim", i |-> i, bytes |-> w[i].cnt]}
    /\ Posta(i, w[i].modo # "sust")
    /\ UNCHANGED <<pai, mm, bar, pasta, agora, mortes>>

\* A read or a write fails: the worker leaves by the exception, without a message.
Falhar(i) ==
    /\ w[i].pc \in {"abre", "bloco", "fecha"} /\ mortes < MaxMortes
    /\ mortes' = mortes + 1
    /\ w' = [w EXCEPT ![i] = Morto(i)]
    /\ UNCHANGED <<pai, mm, fila, bar, comp, pasta, agora, travas>>

\* A worker is killed: asleep in the barrier or with its lock; with its message written
\* or not, or half of it; with the lock of the queue, for which others then wait.
Suas(i) == {m \in fila : m.i = i /\ (w[i].pc = "fim" => m.msg = "fim")}
Dormia(i) == w[i].pc = "barreira" /\ ~travas.barreira /\ ~bar.quebrada /\ bar.n < pai.n + 1

Morrer(i) ==
    /\ w[i].pc # "fora" /\ (i \in Andam \/ Suas(i) # {})
    /\ pai.at # "fim" /\ mortes < MaxMortes
    /\ mortes' = mortes + 1
    /\ \E escrita, presa, tranca, meia \in BOOLEAN, outras \in SUBSET (fila \ Suas(i)) :
        /\ escrita => i \notin travas.retidos
        /\ presa => w[i].pc \in {"espera", "barreira"}
        /\ tranca => Suas(i) # {} /\ ~travas.fila
        /\ meia => tranca /\ ~escrita /\ w[i].pc = "fim" /\ w[i].modo # "sust"
        /\ outras # {} => tranca
        /\ w' = IF i \in Andam \/ ~escrita THEN [w EXCEPT ![i] = Morto(i)] ELSE w
        /\ fila' = IF escrita THEN fila ELSE fila \ Suas(i)
        /\ travas' = [barreira |-> travas.barreira \/ presa,
                      fila |-> travas.fila \/ tranca,
                      metade |-> travas.metade \/ meia,
                      dormindo |-> travas.dormindo + (IF Dormia(i) /\ ~presa THEN 1 ELSE 0),
                      retidos |-> (travas.retidos \ {i}) \cup {m.i : m \in outras}]
    /\ UNCHANGED <<pai, mm, bar, comp, pasta, agora>>

\* Time goes by while a test runs; it is the workers that are bounded, by tick.
Tic ==
    /\ \/ pai.at = "curva" /\ agora < pai.t0 + Duracao
       \/ agora < MaxTempo /\ \E i \in Trab : w[i].pc \in {"bloco", "decide"} /\ w[i].modo # "preparar"
    /\ agora' = agora + 1
    /\ UNCHANGED <<pai, w, mm, fila, bar, comp, pasta, mortes, travas>>

executar_io ==
    \/ Comecar \/ Preparar \/ Testar \/ Pronto \/ MarcarPrazo \/ Largar \/ Amostrar
    \/ FimDaCurva \/ Receber \/ Gravar \/ Terminar \/ Sair

worker(i) ==
    \/ Abrir(i) \/ NaoAbre(i) \/ Chegar(i) \/ Passar(i) \/ ComprimirBloco(i) \/ BlocoSust(i)
    \/ DescomprimirBloco(i) \/ ProximoArquivo(i) \/ LerBloco(i) \/ Decidir(i) \/ Fechar(i)

Next ==
    \/ executar_io \/ Tempo \/ Tic
    \/ \E i \in Trab : worker(i) \/ TempoBarreira(i) \/ Falhar(i) \/ Morrer(i)

Spec == Init /\ [][Next]_vars

\* Processes that can go on do, time goes by, and a wait with a timeout ends.
FairSpec ==
    /\ Spec
    /\ WF_vars(executar_io) /\ WF_vars(Tempo) /\ WF_vars(Tic)
    /\ \A i \in Trab : WF_vars(worker(i)) /\ WF_vars(TempoBarreira(i))

----------------------------------------------------------------------------
(***************************************************************************)
(* Properties.                                                             *)
(***************************************************************************)
\* The blocks of the files of a worker, in the order of their frames; a worker of the
\* preparation compresses one before it finds that its region is empty.
Fundo(j) == LET r == regiao(j, NPrep) IN IF r[2] > r[1] THEN r[2] ELSE r[1] + 1
Blocos(i, n) ==
    LET de(j) == LET r == regiao(j, NPrep) IN [x \in 1..(Fundo(j) - r[1]) |-> r[1] + x]
        junta(acc, j) == acc \o de(j)
    IN  FoldLeft(junta, <<>>, Arquivos(i, n))

\* The frames that come out of the files, over block borders, padding and the ends
\* of files, are the blocks that went in: each once in every round, in order.
FramesComeBack ==
    \A i \in Trab :
        Le(w[i].modo) /\ w[i].pc # "fim" /\ w[i].cnt > 0 =>
            LET bs == Blocos(i, NTeste)
            IN  Descomprimido(w[i].fr) = {c \in DOMAIN Clen :
                    Comprimido(c) = Comprimido(bs[((w[i].cnt - 1) % Len(bs)) + 1])}

\* Every worker stops for the deadline, not before it, and within 2 * Passo blocks
\* when the parent has put the deadline in the past.
StopsForTheDeadline ==
    \A i \in Trab :
        /\ w[i].pc = "fecha" /\ w[i].modo # "preparar" => pai.parou \/ agora >= pai.prazo
        /\ pai.parou /\ i < pai.n => w[i].cnt <= pai.desde[i] + 2 * Passo

\* A command that has started ends, with every child, also when workers die and when
\* the parent gives up, but for three waits that have no timeout: for the lock of the
\* barrier, for the rest of a message, and, at the end of a worker, for its messages.
CommandEnds ==
    pai.at # "parado" ~> (pai.at = "fim" \/ travas.barreira \/ travas.metade \/ travas.retidos # {})
=============================================================================
