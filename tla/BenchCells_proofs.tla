-------------------------- MODULE BenchCells_proofs --------------------------
(***************************************************************************)
(* Theorems about the rounds of BenchCells, for any number of workers,      *)
(* rounds, sessions, starts and kills.                                      *)
(*                                                                         *)
(* The barrier counts those who came, not those who wait: a worker that is  *)
(* killed inside stays counted. What makes the rounds meet is that the      *)
(* count lies between those who wait and those who wait or are dead, so     *)
(* that whoever completes it finds nobody elsewhere (BarreiraOK).           *)
(***************************************************************************)
EXTENDS BenchCells, FiniteSetTheorems, SequenceTheorems, TLAPS

DaRodada == {"prepara", "espera", "barreira", "mede_rodada"}
EmSessao == t.at \in {"sessao", "saindo"}
NaBarreira == {k \in Trab : w[k].pc = "barreira"}
Contaveis == {k \in Trab : w[k].pc \in {"barreira", "morto"}}

Pos(k) == <<w[k].op, w[k].r>>
Prox(k) ==
    IF w[k].r < Rodadas - 1 THEN <<w[k].op, w[k].r + 1>>
    ELSE IF w[k].op = "comp" THEN <<"decomp", 0>> ELSE <<"fim", 0>>

\* The main program is a record of its fields.
TRec(x) ==
    x = [at |-> x.at, arquivos |-> x.arquivos, fase |-> x.fase, fases |-> x.fases,
         grupo |-> x.grupo, ok |-> x.ok, erros |-> x.erros, resta |-> x.resta,
         parcial |-> x.parcial, sessoes |-> x.sessoes, linhas |-> x.linhas, exato |-> x.exato, medidas |-> x.medidas]

\* The workers, the main program and the barrier are records of their fields.
TypesOK ==
    /\ w = [k \in Trab |-> w[k]]
    /\ \A k \in Trab :
        /\ w[k] = [pc |-> w[k].pc, cel |-> w[k].cel, cpu |-> w[k].cpu, op |-> w[k].op, r |-> w[k].r]
        /\ w[k].op \in Ops /\ w[k].r \in Voltas
    /\ TRec(t)
    /\ t.grupo \in Grupos \cup {SemGrupo}
    /\ t.sessoes \in Seq([config : STRING, n : Nat \ {0}])
    /\ bar \in [estado : {"enche", "escoa", "quebrada"}, n : Nat]

\* The sessions that are left have as many CPUs as they want, each once.
CpusOK ==
    EmSessao \/ t.at = "escala" =>
        /\ IsInjective(CpusDaSessao)
        /\ \A i \in 1..Len(t.sessoes) : 1..t.sessoes[i].n \subseteq DOMAIN CpusDaSessao

\* The workers of a session are the first Partes, on their CPUs; outside of one nobody is
\* in a round.
SessaoOK ==
    /\ EmSessao => t.sessoes # <<>>
    /\ EmSessao => \A k \in Trab : w[k].pc # "fora" => k \in 1..Partes /\ w[k].cpu = CpusDaSessao[k]
    /\ ~EmSessao => (\A k \in Trab : w[k].pc \notin DaRodada) /\ bar = [estado |-> "enche", n |-> 0]

BarreiraOK ==
    /\ IsFiniteSet(Contaveis)
    /\ Cardinality(NaBarreira) <= bar.n
    /\ bar.n <= Cardinality(Contaveis)

\* Who measures is one round behind who waits, but while the barrier drains those inside
\* are in the round of those who measure.
RodadasOK ==
    \A j, k \in Trab :
        /\ w[j].pc = w[k].pc /\ w[k].pc \in {"espera", "barreira", "mede_rodada"} => Pos(j) = Pos(k)
        /\ w[j].pc = "mede_rodada" /\ w[k].pc = "espera" => Pos(k) = Prox(j)
        /\ w[j].pc = "barreira" /\ w[k].pc = "mede_rodada" =>
            Pos(j) = IF bar.estado = "escoa" THEN Pos(k) ELSE Prox(k)
        /\ w[j].pc = "barreira" /\ w[k].pc = "espera" =>
            Pos(k) = IF bar.estado = "escoa" THEN Prox(j) ELSE Pos(j)
        /\ w[j].pc = "prepara" =>
            /\ Pos(j) = <<"comp", 0>>
            /\ bar.estado # "escoa" /\ w[k].pc # "mede_rodada"
            /\ w[k].pc \in {"espera", "barreira"} => Pos(k) = <<"comp", 0>>

IInv == TypesOK /\ CpusOK /\ SessaoOK /\ BarreiraOK /\ RodadasOK

----------------------------------------------------------------------------
\* Nobody is in a round, or all of them prepare.
Comeco ==
    /\ bar = [estado |-> "enche", n |-> 0]
    /\ \A k \in Trab : w[k].pc \in {"fora", "livre", "prepara"} /\ w[k].op = "comp" /\ w[k].r = 0

LEMMA StartIsFair == Comeco => BarreiraOK /\ RodadasOK
<1> SUFFICES ASSUME Comeco PROVE BarreiraOK /\ RodadasOK
  OBVIOUS
<1>1. NaBarreira = {} /\ Contaveis = {}
  BY DEF Comeco, NaBarreira, Contaveis
<1>2. BarreiraOK
  <2>1. IsFiniteSet(Contaveis) /\ Cardinality(NaBarreira) = 0
    BY <1>1, FS_EmptySet
  <2>2. Cardinality(Contaveis) = 0 /\ bar.n = 0
    BY <1>1, FS_EmptySet DEF Comeco
  <2> QED
    BY <2>1, <2>2 DEF BarreiraOK
<1>3. RodadasOK
  BY DEF Comeco, RodadasOK, Pos
<1> QED
  BY <1>2, <1>3

ForaRec == [pc |-> "fora", cel |-> FIM, cpu |-> 0, op |-> "comp", r |-> 0]

LEMMA ForaIs == Fora = ForaRec /\ 0 \in Voltas
BY BenchAssumption DEF Fora, ForaRec, Voltas

LEMMA InitIInv == Init => IInv
<1> SUFFICES ASSUME Init PROVE IInv
  OBVIOUS
<1>1. TypesOK
  <2>1. /\ w = [k \in Trab |-> w[k]]
        /\ \A k \in Trab : w[k] = ForaRec
    BY ForaIs DEF Init
  <2>2. t = Parado
    BY DEF Init
  <2>3. t.grupo = SemGrupo /\ t.sessoes = <<>>
    BY <2>2 DEF Parado
  <2>4. t.sessoes \in Seq([config : STRING, n : Nat \ {0}])
    BY <2>3
  <2>5. TRec(t)
    BY <2>2 DEF Parado, TRec
  <2>6. \A k \in Trab :
          /\ w[k] = [pc |-> w[k].pc, cel |-> w[k].cel, cpu |-> w[k].cpu, op |-> w[k].op, r |-> w[k].r]
          /\ w[k].op \in Ops /\ w[k].r \in Voltas
    BY <2>1, ForaIs DEF ForaRec, Ops
  <2> QED
    BY <2>1, <2>3, <2>4, <2>5, <2>6 DEF Init, TypesOK
<1>2. Comeco
  BY ForaIs DEF Init, Comeco, ForaRec
<1>3. CpusOK /\ SessaoOK
  BY ForaIs DEF Init, CpusOK, SessaoOK, EmSessao, Parado, DaRodada, ForaRec
<1> QED
  BY <1>1, <1>2, <1>3, StartIsFair DEF IInv

\* The main program goes on while the workers and the barrier stay.
LEMMA MainKeeps ==
    ASSUME IInv, UNCHANGED <<w, bar>>, TypesOK', CpusOK', EmSessao' = EmSessao,
           EmSessao => t'.sessoes = t.sessoes /\ t'.grupo = t.grupo
    PROVE  IInv'
<1>1. BarreiraOK' /\ RodadasOK'
  BY DEF IInv, BarreiraOK, RodadasOK, NaBarreira, Contaveis, Pos, Prox
<1>2. SessaoOK'
  BY DEF IInv, SessaoOK, Partes, CpusDaSessao
<1> QED
  BY <1>1, <1>2 DEF IInv

\* A phase begins or ends: no worker is in a round.
LEMMA ResetKeeps ==
    ASSUME IInv, \/ \E n : w' = [k \in Trab |-> IF k <= n THEN [Fora EXCEPT !.pc = "livre"] ELSE Fora]
                 \/ w' = [k \in Trab |-> Fora],
           bar' = [estado |-> "enche", n |-> 0], ~EmSessao', CpusOK',
           TRec(t'),
           t'.grupo \in Grupos \cup {SemGrupo}, t'.sessoes \in Seq([config : STRING, n : Nat \ {0}])
    PROVE  IInv'
<1>1. \A k \in Trab : w'[k] \in {ForaRec, [ForaRec EXCEPT !.pc = "livre"]}
  BY ForaIs
<1>2. TypesOK'
  <2>1. \A k \in Trab :
          /\ w'[k] = [pc |-> w'[k].pc, cel |-> w'[k].cel, cpu |-> w'[k].cpu, op |-> w'[k].op,
                      r |-> w'[k].r]
          /\ w'[k].op \in Ops /\ w'[k].r \in Voltas
    BY <1>1, ForaIs DEF ForaRec, Ops
  <2>2. w' = [k \in Trab |-> w'[k]]
    OBVIOUS
  <2> QED
    BY <2>1, <2>2 DEF TypesOK
<1>3. Comeco'
  BY <1>1 DEF Comeco, ForaRec
<1>4. SessaoOK'
  <2>1. \A k \in Trab : w'[k].pc \notin DaRodada
    BY <1>1 DEF DaRodada, ForaRec
  <2> QED
    BY <2>1 DEF SessaoOK, DaRodada
<1>5. BarreiraOK' /\ RodadasOK'
  BY <1>3, StartIsFair, PTL
<1> QED
  BY <1>2, <1>4, <1>5 DEF IInv

\* What EXCEPT makes of a worker.
LEMMA WorkerExcept ==
    ASSUME NEW x, x = [pc |-> x.pc, cel |-> x.cel, cpu |-> x.cpu, op |-> x.op, r |-> x.r],
           NEW pc, NEW cel, NEW y,
           y = [x EXCEPT !.pc = pc] \/ y = [x EXCEPT !.pc = pc, !.cel = cel]
    PROVE  /\ y.pc = pc /\ y.cpu = x.cpu /\ y.op = x.op /\ y.r = x.r
           /\ y = [pc |-> y.pc, cel |-> y.cel, cpu |-> y.cpu, op |-> y.op, r |-> y.r]
OBVIOUS

\* A worker of a phase of cells takes one, measures it or is done.
LEMMA CellKeeps ==
    ASSUME IInv, NEW k \in Trab, trabalhador(k)
    PROVE  IInv'
<1>0. /\ w = [j \in Trab |-> w[j]]
      /\ w[k] = [pc |-> w[k].pc, cel |-> w[k].cel, cpu |-> w[k].cpu, op |-> w[k].op, r |-> w[k].r]
  BY DEF IInv, TypesOK
<1>1. \/ w' = [w EXCEPT ![k] = [@ EXCEPT !.pc = "fim"]]
      \/ w' = [w EXCEPT ![k] = [@ EXCEPT !.pc = "mede", !.cel = Head(fila)]]
      \/ w' = [w EXCEPT ![k] = [@ EXCEPT !.pc = "livre", !.cel = FIM]]
  <2>1. CASE Tomar(k)
    BY <2>1 DEF Tomar
  <2>2. CASE Medir(k) \/ Falhar(k)
    BY <2>2 DEF Medir, Falhar, Enviar
  <2> QED
    BY <2>1, <2>2 DEF trabalhador
<1>2. w[k].pc \in {"livre", "mede"} /\ UNCHANGED <<t, bar>>
  BY DEF trabalhador, Tomar, Medir, Falhar, Enviar
<1>3. /\ w' = [j \in Trab |-> w'[j]]
      /\ \A j \in Trab : /\ w'[j].op = w[j].op /\ w'[j].r = w[j].r /\ w'[j].cpu = w[j].cpu
                         /\ w'[j] = [pc |-> w'[j].pc, cel |-> w'[j].cel, cpu |-> w'[j].cpu,
                                     op |-> w'[j].op, r |-> w'[j].r]
      /\ w'[k].pc \in {"livre", "mede", "fim"} /\ \A j \in Trab \ {k} : w'[j] = w[j]
  <2>1. /\ \/ w'[k] = [w[k] EXCEPT !.pc = "fim"]
           \/ w'[k] = [w[k] EXCEPT !.pc = "mede", !.cel = Head(fila)]
           \/ w'[k] = [w[k] EXCEPT !.pc = "livre", !.cel = FIM]
        /\ \A j \in Trab \ {k} : w'[j] = w[j]
        /\ w' = [j \in Trab |-> w'[j]]
    BY <1>0, <1>1
  <2>2. /\ w'[k].op = w[k].op /\ w'[k].r = w[k].r /\ w'[k].cpu = w[k].cpu
        /\ w'[k] = [pc |-> w'[k].pc, cel |-> w'[k].cel, cpu |-> w'[k].cpu, op |-> w'[k].op,
                    r |-> w'[k].r]
        /\ w'[k].pc \in {"livre", "mede", "fim"}
    BY <1>0, <2>1, WorkerExcept
  <2> QED
    BY <2>1, <2>2 DEF IInv, TypesOK
<1>4. TypesOK' /\ CpusOK'
  BY <1>2, <1>3 DEF IInv, TypesOK, CpusOK, EmSessao, CpusDaSessao
<1>5. SessaoOK'
  BY <1>2, <1>3 DEF IInv, SessaoOK, EmSessao, CpusDaSessao, Partes, DaRodada
<1>6. BarreiraOK'
  <2>1. /\ NaBarreira' = NaBarreira
        /\ Contaveis' = Contaveis
    BY <1>2, <1>3 DEF NaBarreira, Contaveis
  <2> QED
    BY <1>2, <2>1 DEF IInv, BarreiraOK
<1>7. RodadasOK'
  BY <1>2, <1>3 DEF IInv, RodadasOK, Pos, Prox
<1> QED
  BY <1>4, <1>5, <1>6, <1>7 DEF IInv

\* A worker is killed: inside the barrier it stays counted.
LEMMA KillKeeps ==
    ASSUME IInv, NEW k \in Trab, Matar(k)
    PROVE  IInv'
<1>1. w' = [w EXCEPT ![k].pc = "morto"] /\ UNCHANGED <<t, bar>> /\ w[k].pc # "fora"
  BY DEF Matar, Vai, Vivos
<1>2. /\ w' = [j \in Trab |-> w'[j]]
      /\ \A j \in Trab : /\ w'[j].op = w[j].op /\ w'[j].r = w[j].r /\ w'[j].cpu = w[j].cpu
                         /\ w'[j] = [pc |-> w'[j].pc, cel |-> w'[j].cel, cpu |-> w'[j].cpu,
                                     op |-> w'[j].op, r |-> w'[j].r]
      /\ w'[k].pc = "morto" /\ \A j \in Trab \ {k} : w'[j] = w[j]
  BY <1>1 DEF IInv, TypesOK
<1>3. TypesOK' /\ CpusOK'
  BY <1>1, <1>2 DEF IInv, TypesOK, CpusOK, EmSessao, CpusDaSessao
<1>4. SessaoOK'
  BY <1>1, <1>2 DEF IInv, SessaoOK, EmSessao, CpusDaSessao, Partes, DaRodada
<1>5. BarreiraOK'
  <2> DEFINE A == NaBarreira
             AM == Contaveis
  <2>1. A' \in {A, A \ {k}} /\ AM' = AM \cup {k}
    BY <1>2 DEF NaBarreira, Contaveis
  <2>2. IsFiniteSet(AM) /\ A \in SUBSET AM /\ bar.n \in Nat
    BY DEF IInv, TypesOK, BarreiraOK, NaBarreira, Contaveis
  <2>3. IsFiniteSet(A) /\ Cardinality(A) \in Nat /\ Cardinality(AM) \in Nat
    BY <2>2, FS_Subset, FS_CardinalityType
  <2>4. Cardinality(A \ {k}) <= Cardinality(A) /\ Cardinality(AM) <= Cardinality(AM \cup {k})
        /\ IsFiniteSet(AM \cup {k}) /\ Cardinality(A \ {k}) \in Nat
        /\ Cardinality(AM \cup {k}) \in Nat
    BY <2>2, <2>3, FS_AddElement, FS_RemoveElement, FS_CardinalityType
  <2> QED
    BY <1>1, <2>1, <2>2, <2>3, <2>4 DEF IInv, BarreiraOK
<1>6. RodadasOK'
  BY <1>1, <1>2 DEF IInv, RodadasOK, Pos, Prox
<1> QED
  BY <1>3, <1>4, <1>5, <1>6 DEF IInv

----------------------------------------------------------------------------
\* Worker k does something, and the others nothing.
Troca(k) ==
    /\ w' = [j \in Trab |-> w'[j]]
    /\ w'[k] = [pc |-> w'[k].pc, cel |-> w'[k].cel, cpu |-> w'[k].cpu, op |-> w'[k].op,
                r |-> w'[k].r]
    /\ w'[k].cpu = w[k].cpu /\ w'[k].op \in Ops /\ w'[k].r \in Voltas
    /\ \A j \in Trab \ {k} : w'[j] = w[j]

LEMMA GoesOn ==
    ASSUME IInv, NEW k \in Trab, NEW pc, Vai(k, pc)
    PROVE  Troca(k) /\ w'[k].pc = pc /\ w'[k].op = w[k].op /\ w'[k].r = w[k].r
<1>1. /\ w = [j \in Trab |-> w[j]]
      /\ w[k] = [pc |-> w[k].pc, cel |-> w[k].cel, cpu |-> w[k].cpu, op |-> w[k].op, r |-> w[k].r]
      /\ w[k].op \in Ops /\ w[k].r \in Voltas
  BY DEF IInv, TypesOK
<1>2. /\ w'[k] = [w[k] EXCEPT !.pc = pc]
      /\ \A j \in Trab \ {k} : w'[j] = w[j]
      /\ w' = [j \in Trab |-> w'[j]]
  BY <1>1 DEF Vai
<1>3. /\ w'[k].pc = pc /\ w'[k].op = w[k].op /\ w'[k].r = w[k].r /\ w'[k].cpu = w[k].cpu
      /\ w'[k] = [pc |-> w'[k].pc, cel |-> w'[k].cel, cpu |-> w'[k].cpu, op |-> w'[k].op,
                  r |-> w'[k].r]
  BY <1>1, <1>2, WorkerExcept
<1> QED
  BY <1>1, <1>2, <1>3 DEF Troca

\* A worker of a session moves: what is left to show is the barrier and the rounds.
LEMMA RoundStep ==
    ASSUME IInv, NEW k \in Trab, Troca(k), w[k].pc \in DaRodada, UNCHANGED t,
           bar' \in [estado : {"enche", "escoa", "quebrada"}, n : Nat],
           BarreiraOK', RodadasOK'
    PROVE  IInv'
<1>1. EmSessao /\ EmSessao'
  BY DEF IInv, SessaoOK, EmSessao
<1>2. TypesOK'
  BY DEF IInv, TypesOK, Troca
<1>3. CpusOK'
  BY <1>1 DEF IInv, CpusOK, EmSessao, CpusDaSessao
<1>4. SessaoOK'
  BY <1>1 DEF IInv, SessaoOK, Troca, CpusDaSessao, Partes, DaRodada
<1> QED
  BY <1>2, <1>3, <1>4 DEF IInv

LEMMA PrepareKeeps ==
    ASSUME IInv, NEW k \in Trab, Preparar(k)
    PROVE  IInv'
<1>1. Troca(k) /\ w'[k].pc = "espera" /\ w'[k].op = w[k].op /\ w'[k].r = w[k].r
  BY GoesOn DEF Preparar
<1>2. w[k].pc = "prepara" /\ UNCHANGED <<t, bar>>
  BY DEF Preparar
<1>3. NaBarreira' = NaBarreira /\ Contaveis' = Contaveis
  BY <1>1, <1>2 DEF NaBarreira, Contaveis, Troca
<1>4. BarreiraOK'
  BY <1>2, <1>3 DEF IInv, BarreiraOK
<1>5. RodadasOK'
  BY <1>1, <1>2 DEF IInv, RodadasOK, Pos, Prox, Troca
<1> QED
  BY <1>1, <1>2, <1>4, <1>5, RoundStep DEF DaRodada, IInv, TypesOK

LEMMA MeasureKeeps ==
    ASSUME IInv, NEW k \in Trab, MedirRodada(k)
    PROVE  IInv'
<1>1. w[k].pc = "mede_rodada" /\ UNCHANGED <<t, bar>>
  BY DEF MedirRodada
<1>2. /\ w = [j \in Trab |-> w[j]]
      /\ w[k] = [pc |-> w[k].pc, cel |-> w[k].cel, cpu |-> w[k].cpu, op |-> w[k].op, r |-> w[k].r]
      /\ w[k].op \in Ops /\ w[k].r \in Voltas
  BY DEF IInv, TypesOK
<1>3. /\ w'[k] = IF w[k].r < Rodadas - 1 THEN [w[k] EXCEPT !.pc = "espera", !.r = w[k].r + 1]
                 ELSE IF w[k].op = "comp" THEN [w[k] EXCEPT !.pc = "espera", !.op = "decomp", !.r = 0]
                 ELSE [w[k] EXCEPT !.pc = "fim"]
      /\ \A j \in Trab \ {k} : w'[j] = w[j]
      /\ w' = [j \in Trab |-> w'[j]]
  <2>1. w' = [w EXCEPT ![k] =
               IF w[k].r < Rodadas - 1 THEN [w[k] EXCEPT !.pc = "espera", !.r = w[k].r + 1]
               ELSE IF w[k].op = "comp" THEN [w[k] EXCEPT !.pc = "espera", !.op = "decomp", !.r = 0]
               ELSE [w[k] EXCEPT !.pc = "fim"]]
    BY DEF MedirRodada
  <2> QED
    BY <1>2, <2>1
<1>4. /\ Troca(k)
      /\ \/ w'[k].pc = "espera" /\ <<w'[k].op, w'[k].r>> = Prox(k)
         \/ w'[k].pc = "fim"
  <2>1. CASE w[k].r < Rodadas - 1
    <3>1. w'[k] = [w[k] EXCEPT !.pc = "espera", !.r = w[k].r + 1]
      BY <1>3, <2>1
    <3>2. /\ w'[k].pc = "espera" /\ w'[k].op = w[k].op /\ w'[k].r = w[k].r + 1
          /\ w'[k].cpu = w[k].cpu
          /\ w'[k] = [pc |-> w'[k].pc, cel |-> w'[k].cel, cpu |-> w'[k].cpu, op |-> w'[k].op,
                      r |-> w'[k].r]
      BY <1>2, <3>1
    <3>3. w[k].r + 1 \in Voltas
      BY <1>2, <2>1, BenchAssumption DEF Voltas
    <3> QED
      BY <1>2, <1>3, <2>1, <3>2, <3>3 DEF Troca, Prox
  <2>2. CASE ~(w[k].r < Rodadas - 1) /\ w[k].op = "comp"
    <3>1. w'[k] = [w[k] EXCEPT !.pc = "espera", !.op = "decomp", !.r = 0]
      BY <1>3, <2>2
    <3>2. /\ w'[k].pc = "espera" /\ w'[k].op = "decomp" /\ w'[k].r = 0
          /\ w'[k].cpu = w[k].cpu
          /\ w'[k] = [pc |-> w'[k].pc, cel |-> w'[k].cel, cpu |-> w'[k].cpu, op |-> w'[k].op,
                      r |-> w'[k].r]
      BY <1>2, <3>1
    <3> QED
      BY <1>3, <2>2, <3>2, ForaIs DEF Troca, Prox, Ops
  <2>3. CASE ~(w[k].r < Rodadas - 1) /\ w[k].op # "comp"
    <3>1. w'[k] = [w[k] EXCEPT !.pc = "fim"]
      BY <1>3, <2>3
    <3>2. /\ w'[k].pc = "fim" /\ w'[k].op = w[k].op /\ w'[k].r = w[k].r
          /\ w'[k].cpu = w[k].cpu
          /\ w'[k] = [pc |-> w'[k].pc, cel |-> w'[k].cel, cpu |-> w'[k].cpu, op |-> w'[k].op,
                      r |-> w'[k].r]
      BY <1>2, <3>1
    <3> QED
      BY <1>2, <1>3, <3>2 DEF Troca
  <2> QED
    BY <2>1, <2>2, <2>3
<1>5. NaBarreira' = NaBarreira /\ Contaveis' = Contaveis
  BY <1>1, <1>4 DEF NaBarreira, Contaveis, Troca
<1>6. BarreiraOK'
  BY <1>1, <1>5 DEF IInv, BarreiraOK
<1>7. RodadasOK'
  <2>1. \A j \in Trab \ {k} : w'[j] = w[j] /\ Pos(j)' = Pos(j) /\ Prox(j)' = Prox(j)
    BY <1>4 DEF Troca, Pos, Prox
  <2>2. w'[k].pc = "fim" \/ (w'[k].pc = "espera" /\ Pos(k)' = Prox(k))
    BY <1>4 DEF Pos
  <2>3. \A j \in Trab : Pos(j) = Pos(k) => Prox(j) = Prox(k)
    BY DEF Pos, Prox
  <2>4. \A j \in Trab : w[j].pc # "prepara"
    BY <1>1 DEF IInv, RodadasOK
  <2> HIDE DEF Pos, Prox
  <2> QED
    BY <1>1, <2>1, <2>2, <2>3, <2>4 DEF IInv, RodadasOK
<1> QED
  BY <1>1, <1>4, <1>6, <1>7, RoundStep DEF DaRodada, IInv, TypesOK

\* Sizes of the two sets of the barrier, when one leaves or comes.
LEMMA BarrierSizes ==
    ASSUME IInv, NEW k \in Trab
    PROVE  /\ NaBarreira \subseteq Contaveis /\ IsFiniteSet(NaBarreira) /\ bar.n \in Nat
           /\ Cardinality(NaBarreira) \in Nat /\ Cardinality(Contaveis) \in Nat
           /\ Cardinality(NaBarreira) <= bar.n /\ bar.n <= Cardinality(Contaveis)
           /\ k \in NaBarreira => /\ Cardinality(NaBarreira \ {k}) = Cardinality(NaBarreira) - 1
                                 /\ Cardinality(Contaveis \ {k}) = Cardinality(Contaveis) - 1
                                 /\ Cardinality(NaBarreira) >= 1
           /\ k \notin Contaveis => /\ Cardinality(NaBarreira \cup {k}) = Cardinality(NaBarreira) + 1
                                   /\ Cardinality(Contaveis \cup {k}) = Cardinality(Contaveis) + 1
           /\ IsFiniteSet(Contaveis \ {k}) /\ IsFiniteSet(Contaveis \cup {k})
           /\ NaBarreira # {} => Cardinality(NaBarreira) >= 1
<1>1. IsFiniteSet(Contaveis) /\ NaBarreira \in SUBSET Contaveis /\ bar.n \in Nat
  BY DEF IInv, TypesOK, BarreiraOK, NaBarreira, Contaveis
<1>2. /\ IsFiniteSet(NaBarreira) /\ Cardinality(NaBarreira) \in Nat
      /\ Cardinality(Contaveis) \in Nat
  BY <1>1, FS_Subset, FS_CardinalityType
<1>3. /\ k \in NaBarreira => Cardinality(NaBarreira \ {k}) = Cardinality(NaBarreira) - 1
      /\ k \in NaBarreira => Cardinality(Contaveis \ {k}) = Cardinality(Contaveis) - 1
      /\ IsFiniteSet(Contaveis \ {k})
  BY <1>1, <1>2, FS_RemoveElement
<1>4. /\ k \notin Contaveis => Cardinality(NaBarreira \cup {k}) = Cardinality(NaBarreira) + 1
      /\ k \notin Contaveis => Cardinality(Contaveis \cup {k}) = Cardinality(Contaveis) + 1
      /\ IsFiniteSet(Contaveis \cup {k})
  BY <1>1, <1>2, FS_AddElement
<1>5. NaBarreira # {} => Cardinality(NaBarreira) >= 1
  BY <1>2, FS_EmptySet
<1> QED
  BY <1>1, <1>2, <1>3, <1>4, <1>5 DEF IInv, BarreiraOK

\* A worker leaves a broken barrier, or breaks it.
LEMMA BreakKeeps ==
    ASSUME IInv, NEW k \in Trab, w[k].pc = "barreira", Vai(k, "morto"), UNCHANGED t,
           bar' = [estado |-> "quebrada", n |-> bar.n - 1], bar.estado # "escoa"
    PROVE  IInv'
<1>1. Troca(k) /\ w'[k].pc = "morto"
  BY GoesOn
<1>2. NaBarreira' = NaBarreira \ {k} /\ Contaveis' = Contaveis /\ k \in NaBarreira
  BY <1>1 DEF NaBarreira, Contaveis, Troca
<1>3. bar'.n = bar.n - 1 /\ bar.n - 1 \in Nat
  <2>1. Cardinality(NaBarreira) >= 1 /\ Cardinality(NaBarreira) <= bar.n
        /\ bar.n \in Nat /\ Cardinality(NaBarreira) \in Nat
    BY <1>2, BarrierSizes
  <2> QED
    BY <2>1
<1>4. BarreiraOK'
  <2>1. /\ IsFiniteSet(Contaveis') /\ Cardinality(NaBarreira') <= bar'.n
        /\ bar'.n <= Cardinality(Contaveis')
    <3>1. /\ Cardinality(NaBarreira \ {k}) = Cardinality(NaBarreira) - 1
          /\ Cardinality(NaBarreira) \in Nat /\ Cardinality(Contaveis) \in Nat /\ bar.n \in Nat
          /\ Cardinality(NaBarreira) <= bar.n /\ bar.n <= Cardinality(Contaveis)
          /\ IsFiniteSet(Contaveis)
      BY <1>2, BarrierSizes DEF IInv, BarreiraOK
    <3> QED
      BY <1>2, <1>3, <3>1
  <2> QED
    BY <2>1 DEF BarreiraOK
<1>5. RodadasOK'
  <2>1. \A j \in Trab \ {k} : w'[j] = w[j] /\ Pos(j)' = Pos(j) /\ Prox(j)' = Prox(j)
    BY <1>1 DEF Troca, Pos, Prox
  <2> HIDE DEF Pos, Prox
  <2> QED
    BY <1>1, <2>1 DEF IInv, RodadasOK
<1> QED
  BY <1>1, <1>3, <1>4, <1>5, RoundStep DEF DaRodada

LEMMA PassKeeps ==
    ASSUME IInv, NEW k \in Trab, Passar(k)
    PROVE  IInv'
<1>1. w[k].pc = "barreira" /\ bar.estado # "enche" /\ UNCHANGED t
      /\ bar = [estado |-> bar.estado, n |-> bar.n] /\ bar.n \in Nat
      /\ bar.estado \in {"enche", "escoa", "quebrada"}
  BY DEF Passar, IInv, TypesOK
<1>2. CASE bar.estado = "quebrada"
  <2>1. Vai(k, "morto") /\ bar' = [bar EXCEPT !.n = @ - 1]
    BY <1>2 DEF Passar
  <2>2. bar' = [estado |-> "quebrada", n |-> bar.n - 1]
    BY <1>1, <1>2, <2>1
  <2> QED
    BY <1>1, <1>2, <2>1, <2>2, BreakKeeps
<1>3. CASE bar.estado = "escoa"
  <2>1. Vai(k, "mede_rodada") /\ bar' = Sai(bar.n - 1)
    BY <1>3 DEF Passar
  <2>2. Troca(k) /\ w'[k].pc = "mede_rodada" /\ w'[k].op = w[k].op /\ w'[k].r = w[k].r
    BY <2>1, GoesOn
  <2>3. NaBarreira' = NaBarreira \ {k} /\ Contaveis' = Contaveis \ {k} /\ k \in NaBarreira
    BY <1>1, <2>2 DEF NaBarreira, Contaveis, Troca
  <2>4. bar' = [estado |-> bar'.estado, n |-> bar.n - 1]
        /\ bar'.estado = (IF bar.n - 1 = 0 THEN "enche" ELSE "escoa")
    BY <2>1 DEF Sai
  <2>5. BarreiraOK' /\ bar.n - 1 \in Nat
    <3>1. /\ Cardinality(NaBarreira \ {k}) = Cardinality(NaBarreira) - 1
          /\ Cardinality(Contaveis \ {k}) = Cardinality(Contaveis) - 1
          /\ Cardinality(NaBarreira) >= 1 /\ IsFiniteSet(Contaveis \ {k})
          /\ Cardinality(NaBarreira) \in Nat /\ Cardinality(Contaveis) \in Nat /\ bar.n \in Nat
          /\ Cardinality(NaBarreira) <= bar.n /\ bar.n <= Cardinality(Contaveis)
      BY <2>3, BarrierSizes
    <3>2. /\ IsFiniteSet(Contaveis') /\ Cardinality(NaBarreira') <= bar'.n
          /\ bar'.n <= Cardinality(Contaveis') /\ bar.n - 1 \in Nat
      BY <2>3, <2>4, <3>1
    <3> QED
      BY <3>2 DEF BarreiraOK
  <2>6. bar'.estado = "enche" => \A j \in Trab \ {k} : w[j].pc # "barreira"
    <3>1. ASSUME bar.n - 1 = 0, NEW j \in Trab \ {k}, w[j].pc = "barreira" PROVE FALSE
      <4>1. Cardinality(NaBarreira') = 0
        <5>1. /\ Cardinality(NaBarreira \ {k}) = Cardinality(NaBarreira) - 1
              /\ Cardinality(NaBarreira) >= 1 /\ Cardinality(NaBarreira) \in Nat
              /\ Cardinality(NaBarreira) <= bar.n /\ bar.n \in Nat
          BY <2>3, BarrierSizes
        <5> QED
          BY <2>3, <3>1, <5>1
      <4>2. IsFiniteSet(NaBarreira')
        BY <2>3, BarrierSizes, FS_RemoveElement
      <4>3. j \in NaBarreira'
        BY <2>3, <3>1 DEF NaBarreira
      <4> QED
        BY <4>1, <4>2, <4>3, FS_EmptySet
    <3> QED
      BY <2>4, <3>1
  <2>7. RodadasOK'
    <3>1. \A j \in Trab \ {k} : w'[j] = w[j] /\ Pos(j)' = Pos(j) /\ Prox(j)' = Prox(j)
      BY <2>2 DEF Troca, Pos, Prox
    <3>2. Pos(k)' = Pos(k) /\ Prox(k)' = Prox(k)
      BY <2>2 DEF Pos, Prox
    <3>3. \A i, j \in Trab : Pos(i) = Pos(j) => Prox(i) = Prox(j)
      BY DEF Pos, Prox
    <3>4. \A j \in Trab : w[j].pc # "prepara"
      BY <1>3 DEF IInv, RodadasOK
    <3> HIDE DEF Pos, Prox
    <3> QED
      BY <1>1, <1>3, <2>2, <2>4, <2>6, <3>1, <3>2, <3>3, <3>4 DEF IInv, RodadasOK
  <2> QED
    BY <1>1, <2>2, <2>4, <2>5, <2>7, RoundStep DEF DaRodada
<1> QED
  BY <1>1, <1>2, <1>3

LEMMA TimeoutKeeps ==
    ASSUME IInv, NEW k \in Trab, TempoBarreira(k)
    PROVE  IInv'
BY BreakKeeps DEF TempoBarreira

\* Who completes the barrier finds nobody outside of it alive.
LEMMA LastFindsAll ==
    ASSUME IInv, NEW k \in Trab, w[k].pc = "espera", bar.n + 1 = Partes
    PROVE  \A j \in Trab \ {k} : w[j].pc \in {"fora", "barreira", "morto"}
<1>1. EmSessao
  BY DEF IInv, SessaoOK, DaRodada
<1>2. bar.n \in Nat /\ Partes \in Nat
  BY DEF IInv, TypesOK
<1> DEFINE Outros == (1..Partes) \ {k}
<1>3. k \in 1..Partes /\ Contaveis \in SUBSET Outros
  BY <1>1 DEF IInv, SessaoOK, Contaveis
<1>4. IsFiniteSet(1..Partes) /\ Cardinality(1..Partes) = Partes
  BY <1>2, <1>3, FS_Interval
<1>5. IsFiniteSet(Outros) /\ Cardinality(Outros) = bar.n
  <2>1. IsFiniteSet(Outros) /\ Cardinality(Outros) = Cardinality(1..Partes) - 1
    BY <1>3, <1>4, FS_RemoveElement
  <2>2. Cardinality(1..Partes) = bar.n + 1
    BY <1>4
  <2> QED
    BY <1>2, <2>1, <2>2
<1>6. /\ Cardinality(Contaveis) <= Cardinality(Outros)
      /\ (Cardinality(Contaveis) = Cardinality(Outros) => Contaveis = Outros)
  BY <1>3, <1>5, FS_Subset
<1>7. Contaveis = Outros
  <2>1. bar.n <= Cardinality(Contaveis) /\ Cardinality(Contaveis) \in Nat
    BY BarrierSizes
  <2> QED
    BY <1>2, <1>5, <1>6, <2>1
<1>8. ASSUME NEW j \in Trab \ {k}, w[j].pc # "fora"
      PROVE  w[j].pc \in {"barreira", "morto"}
  <2>1. j \in 1..Partes
    BY <1>1, <1>8 DEF IInv, SessaoOK
  <2>2. j \in Contaveis
    BY <1>7, <2>1
  <2> QED
    BY <2>2 DEF Contaveis
<1> QED
  BY <1>8

LEMMA EnterKeeps ==
    ASSUME IInv, NEW k \in Trab, Entrar(k)
    PROVE  IInv'
<1>1. w[k].pc = "espera" /\ bar.estado # "escoa" /\ UNCHANGED t
      /\ bar = [estado |-> bar.estado, n |-> bar.n] /\ bar.n \in Nat
      /\ bar.estado \in {"enche", "escoa", "quebrada"}
  BY DEF Entrar, IInv, TypesOK
<1>2. CASE bar.estado = "quebrada"
  <2>1. Vai(k, "morto") /\ UNCHANGED bar
    BY <1>2 DEF Entrar
  <2>2. Troca(k) /\ w'[k].pc = "morto"
    BY <2>1, GoesOn
  <2>3. NaBarreira' = NaBarreira /\ Contaveis' = Contaveis \cup {k} /\ k \notin Contaveis
    BY <1>1, <2>2 DEF NaBarreira, Contaveis, Troca
  <2>4. BarreiraOK'
    <3>1. /\ Cardinality(Contaveis \cup {k}) = Cardinality(Contaveis) + 1
          /\ Cardinality(Contaveis) \in Nat /\ bar.n \in Nat
          /\ Cardinality(NaBarreira) <= bar.n /\ bar.n <= Cardinality(Contaveis)
          /\ IsFiniteSet(Contaveis \cup {k})
      BY <2>3, BarrierSizes
    <3>2. /\ IsFiniteSet(Contaveis') /\ Cardinality(NaBarreira') <= bar'.n
          /\ bar'.n <= Cardinality(Contaveis')
      BY <2>1, <2>3, <3>1
    <3> QED
      BY <3>2 DEF BarreiraOK
  <2>5. RodadasOK'
    <3>1. \A j \in Trab \ {k} : w'[j] = w[j] /\ Pos(j)' = Pos(j) /\ Prox(j)' = Prox(j)
      BY <2>2 DEF Troca, Pos, Prox
    <3> HIDE DEF Pos, Prox
    <3> QED
      BY <2>1, <2>2, <3>1 DEF IInv, RodadasOK
  <2> QED
    BY <1>1, <2>1, <2>2, <2>4, <2>5, RoundStep DEF DaRodada
<1>3. CASE bar.estado # "quebrada" /\ bar.n + 1 = Partes
  <2>1. Vai(k, "mede_rodada") /\ bar' = Sai(bar.n)
    BY <1>3 DEF Entrar
  <2>2. Troca(k) /\ w'[k].pc = "mede_rodada" /\ w'[k].op = w[k].op /\ w'[k].r = w[k].r
    BY <2>1, GoesOn
  <2>3. NaBarreira' = NaBarreira /\ Contaveis' = Contaveis
    BY <1>1, <2>2 DEF NaBarreira, Contaveis, Troca
  <2>4. bar' = [estado |-> bar'.estado, n |-> bar.n] /\ bar'.n = bar.n
        /\ bar'.estado = (IF bar.n = 0 THEN "enche" ELSE "escoa")
    BY <2>1 DEF Sai
  <2>5. BarreiraOK'
    BY <2>3, <2>4 DEF IInv, BarreiraOK
  <2>6. bar'.estado = "enche" => \A j \in Trab : w[j].pc # "barreira"
    <3>1. bar.n = 0 => NaBarreira = {}
      <4>1. NaBarreira # {} => Cardinality(NaBarreira) >= 1
        BY BarrierSizes
      <4>2. Cardinality(NaBarreira) \in Nat /\ Cardinality(NaBarreira) <= bar.n
        BY BarrierSizes
      <4> QED
        BY <4>1, <4>2
    <3> QED
      BY <2>4, <3>1 DEF NaBarreira
  <2>7. RodadasOK'
    <3>1. \A j \in Trab \ {k} : w'[j] = w[j] /\ Pos(j)' = Pos(j) /\ Prox(j)' = Prox(j)
      BY <2>2 DEF Troca, Pos, Prox
    <3>2. Pos(k)' = Pos(k) /\ Prox(k)' = Prox(k)
      BY <2>2 DEF Pos, Prox
    <3>3. \A j \in Trab \ {k} : w[j].pc \in {"fora", "barreira", "morto"}
      BY <1>1, <1>3, LastFindsAll
    <3> HIDE DEF Pos, Prox
    <3> QED
      BY <1>1, <2>2, <2>4, <2>6, <3>1, <3>2, <3>3 DEF IInv, RodadasOK
  <2> QED
    BY <1>1, <2>2, <2>4, <2>5, <2>7, RoundStep DEF DaRodada
<1>4. CASE bar.estado # "quebrada" /\ bar.n + 1 # Partes
  <2>1. Vai(k, "barreira") /\ bar' = [bar EXCEPT !.n = @ + 1]
    BY <1>4 DEF Entrar
  <2>2. Troca(k) /\ w'[k].pc = "barreira" /\ w'[k].op = w[k].op /\ w'[k].r = w[k].r
    BY <2>1, GoesOn
  <2>3. bar' = [estado |-> "enche", n |-> bar.n + 1]
    BY <1>1, <1>4, <2>1
  <2>4. /\ NaBarreira' = NaBarreira \cup {k} /\ Contaveis' = Contaveis \cup {k}
        /\ k \notin Contaveis
    BY <1>1, <2>2 DEF NaBarreira, Contaveis, Troca
  <2>5. BarreiraOK'
    <3>1. /\ Cardinality(NaBarreira \cup {k}) = Cardinality(NaBarreira) + 1
          /\ Cardinality(Contaveis \cup {k}) = Cardinality(Contaveis) + 1
          /\ Cardinality(NaBarreira) \in Nat /\ Cardinality(Contaveis) \in Nat /\ bar.n \in Nat
          /\ Cardinality(NaBarreira) <= bar.n /\ bar.n <= Cardinality(Contaveis)
          /\ IsFiniteSet(Contaveis \cup {k})
      BY <2>4, BarrierSizes
    <3>2. /\ IsFiniteSet(Contaveis') /\ Cardinality(NaBarreira') <= bar'.n
          /\ bar'.n <= Cardinality(Contaveis')
      BY <2>3, <2>4, <3>1
    <3> QED
      BY <3>2 DEF BarreiraOK
  <2>6. RodadasOK'
    <3>1. \A j \in Trab \ {k} : w'[j] = w[j] /\ Pos(j)' = Pos(j) /\ Prox(j)' = Prox(j)
      BY <2>2 DEF Troca, Pos, Prox
    <3>2. Pos(k)' = Pos(k) /\ Prox(k)' = Prox(k)
      BY <2>2 DEF Pos, Prox
    <3>3. bar.estado = "enche" /\ bar'.estado = "enche"
      BY <1>1, <1>4, <2>3
    <3> HIDE DEF Pos, Prox
    <3> QED
      BY <1>1, <2>2, <3>1, <3>2, <3>3 DEF IInv, RodadasOK
  <2> QED
    BY <1>1, <2>2, <2>3, <2>5, <2>6, RoundStep DEF DaRodada
<1> QED
  BY <1>2, <1>3, <1>4

----------------------------------------------------------------------------
Sessao == [config : STRING, n : Nat \ {0}]

LEMMA WorkersArePositive == Trab \subseteq Nat \ {0}
<1> SUFFICES ASSUME NEW k \in Trab PROVE k \in Nat \ {0}
  OBVIOUS
<1>1. PICK n \in {NCpus} \cup ToSet(Ns) \cup UNION {ToSet(g.ns) : g \in Grupos} : k \in 1..n
  BY DEF Trab
<1>2. n \in Nat
  <2>1. \A s \in Seq(Nat \ {0}) : \A x \in ToSet(s) : x \in Nat
    BY DEF ToSet
  <2> QED
    BY <1>1, <2>1, BenchAssumption, EscalaAssumption
<1> QED
  BY <1>1, <1>2

\* Every session is for a number of workers that was asked for.
LEMMA SessionsAre ==
    ASSUME NEW ns \in Seq(Nat \ {0})
    PROVE  /\ Sessoes(ns) \in Seq(Sessao)
           /\ \A i \in 1..Len(Sessoes(ns)) : Sessoes(ns)[i].n \in ToSet(ns)
<1> DEFINE L == Len(ConfigsEscala)
           M == Len(ns)
<1>1. L \in Nat /\ M \in Nat
  BY EscalaAssumption
<1>2. ASSUME NEW i \in 1..(L * M)
      PROVE  /\ ConfigsEscala[((i - 1) \div M) + 1] \in STRING
             /\ ns[((i - 1) % M) + 1] \in ToSet(ns)
  <2>1. M > 0 /\ i - 1 \in Nat /\ i - 1 < L * M
    BY <1>1
  <2>2. /\ (i - 1) \div M \in Nat /\ (i - 1) % M \in 0..(M - 1)
        /\ M * ((i - 1) \div M) <= i - 1
    BY <1>1, <2>1
  <2>3. (i - 1) \div M < L
    <3>1. \A q \in Nat : M * q < L * M => q < L
      BY <1>1, <2>1
    <3> HIDE DEF M, L
    <3> QED
      BY <1>1, <2>1, <2>2, <3>1
  <2>4. ((i - 1) \div M) + 1 \in 1..L /\ ((i - 1) % M) + 1 \in 1..M
    BY <1>1, <2>1, <2>2, <2>3
  <2> QED
    BY <2>4, EscalaAssumption DEF ToSet
<1>3. \A x \in ToSet(ns) : x \in Nat \ {0}
  BY DEF ToSet
<1>4. /\ Sessoes(ns) \in [1..(L * M) -> Sessao]
      /\ \A i \in 1..(L * M) : Sessoes(ns)[i].n \in ToSet(ns)
  BY <1>2, <1>3 DEF Sessoes, Sessao
<1>5. L * M \in Nat
  BY <1>1
<1>6. Sessoes(ns) \in Seq(Sessao)
  <2> HIDE DEF L, M
  <2> QED
    BY <1>4, <1>5
<1>7. Len(Sessoes(ns)) = L * M
  <2> HIDE DEF L, M
  <2> QED
    BY <1>4, <1>5, <1>6
<1> QED
  BY <1>4, <1>6, <1>7

LEMMA StartSessionsKeeps == ASSUME IInv, ComecarEscala PROVE IInv'
<1>1. t.at = "main" /\ UNCHANGED <<w, bar>>
  BY DEF ComecarEscala
<1>2. CASE t.grupo # SemGrupo /\ ~CpusValidas(t.grupo)
  <2>1. t' = Parado
    BY <1>2 DEF ComecarEscala
  <2>2. TRec(t') /\ t'.at = "parado" /\ t'.grupo = SemGrupo /\ t'.sessoes = <<>>
    BY <2>1 DEF Parado, TRec
  <2> QED
    BY <1>1, <2>2, MainKeeps DEF TRec, IInv, TypesOK, CpusOK, EmSessao
<1>3. CASE ~(t.grupo # SemGrupo /\ ~CpusValidas(t.grupo))
  <2> DEFINE ns == IF t.grupo = SemGrupo THEN Ns ELSE t.grupo.ns
             cpus == IF t.grupo = SemGrupo THEN Ordem ELSE analisar_cpus(t.grupo.lista)
  <2>1. t' = [t EXCEPT !.at = "escala", !.linhas = {}, !.sessoes = Sessoes(ns)]
    BY <1>3 DEF ComecarEscala
  <2>2. TRec(t') /\ t'.at = "escala" /\ t'.grupo = t.grupo /\ t'.sessoes = Sessoes(ns)
    BY <2>1 DEF IInv, TypesOK, TRec
  <2>3. /\ ns \in Seq(Nat \ {0}) /\ IsInjective(cpus)
        /\ \A n \in ToSet(ns) : 1..n \subseteq DOMAIN cpus
    <3>1. CASE t.grupo = SemGrupo
      BY <3>1, EscalaAssumption
    <3>2. CASE t.grupo # SemGrupo
      BY <1>3, <3>2, EscalaAssumption DEF CpusValidas, IInv, TypesOK
    <3> QED
      BY <3>1, <3>2
  <2> HIDE DEF ns, cpus
  <2>4. /\ t'.sessoes \in Seq(Sessao)
        /\ \A i \in 1..Len(t'.sessoes) : t'.sessoes[i].n \in ToSet(ns)
    BY <2>2, <2>3, SessionsAre
  <2>5. CpusDaSessao' = cpus
    BY <2>2 DEF CpusDaSessao, cpus
  <2>6. CpusOK'
    BY <2>3, <2>4, <2>5 DEF CpusOK
  <2>7. TypesOK'
    BY <1>1, <2>2, <2>4 DEF IInv, TypesOK, TRec, Sessao
  <2> QED
    BY <1>1, <2>2, <2>6, <2>7, MainKeeps DEF EmSessao
<1> QED
  BY <1>2, <1>3

LEMMA OpenKeeps == ASSUME IInv, AbrirSessao PROVE IInv'
<1> DEFINE n == Head(t.sessoes).n
<1>1. /\ t.at = "escala" /\ t.sessoes # <<>> /\ bar' = [estado |-> "enche", n |-> 0]
      /\ w' = [k \in Trab |-> IF k <= n THEN [Fora EXCEPT !.pc = "prepara", !.cpu = CpusDaSessao[k]]
                              ELSE Fora]
      /\ t' = [t EXCEPT !.at = "sessao", !.resta = n + n * 2 * Rodadas, !.exato = TRUE,
                        !.medidas = [x \in Ops \X Voltas |-> 0]]
  BY DEF AbrirSessao
<1>2. TRec(t') /\ t'.at = "sessao" /\ t'.sessoes = t.sessoes /\ t'.grupo = t.grupo
  BY <1>1 DEF IInv, TypesOK, TRec
<1>3. \A k \in Trab :
        /\ w'[k] = [pc |-> w'[k].pc, cel |-> w'[k].cel, cpu |-> w'[k].cpu, op |-> w'[k].op,
                    r |-> w'[k].r]
        /\ w'[k].op = "comp" /\ w'[k].r = 0 /\ w'[k].pc \in {"prepara", "fora"}
        /\ w'[k].pc # "fora" => k <= n /\ w'[k].cpu = CpusDaSessao[k]
  <2> SUFFICES ASSUME NEW k \in Trab
               PROVE  /\ w'[k] = [pc |-> w'[k].pc, cel |-> w'[k].cel, cpu |-> w'[k].cpu,
                                  op |-> w'[k].op, r |-> w'[k].r]
                      /\ w'[k].op = "comp" /\ w'[k].r = 0 /\ w'[k].pc \in {"prepara", "fora"}
                      /\ w'[k].pc # "fora" => k <= n /\ w'[k].cpu = CpusDaSessao[k]
    OBVIOUS
  <2>1. CASE k <= n
    BY <1>1, <2>1 DEF Fora
  <2>2. CASE ~(k <= n)
    BY <1>1, <2>2 DEF Fora
  <2> QED
    BY <2>1, <2>2
<1>4. TypesOK'
  <2>1. w' = [k \in Trab |-> w'[k]]
    BY <1>1
  <2>2. \A k \in Trab :
        /\ w'[k] = [pc |-> w'[k].pc, cel |-> w'[k].cel, cpu |-> w'[k].cpu, op |-> w'[k].op,
                    r |-> w'[k].r]
        /\ w'[k].op \in Ops /\ w'[k].r \in Voltas
    BY <1>3, ForaIs DEF Ops
  <2>3. TRec(t') /\ t'.grupo \in Grupos \cup {SemGrupo} /\ t'.sessoes \in Seq(Sessao)
    BY <1>2 DEF IInv, TypesOK, Sessao
  <2>4. bar' \in [estado : {"enche", "escoa", "quebrada"}, n : Nat]
    BY <1>1
  <2> QED
    BY <2>1, <2>2, <2>3, <2>4 DEF TypesOK, TRec, Sessao
<1>5. CpusDaSessao' = CpusDaSessao
  BY <1>2 DEF CpusDaSessao
<1>6. CpusOK'
  BY <1>1, <1>2, <1>5 DEF IInv, CpusOK
<1>7. SessaoOK'
  <2>1. n \in Nat /\ Partes' = n
    <3>1. t.sessoes \in Seq(Sessao) /\ t.sessoes # <<>>
      BY <1>1 DEF IInv, TypesOK, Sessao
    <3>2. Head(t.sessoes) \in Sessao
      BY <3>1
    <3>3. n \in Nat
      BY <3>2 DEF Sessao
    <3> QED
      BY <1>2, <3>3 DEF Partes
  <2>2. \A k \in Trab : w'[k].pc # "fora" => k \in 1..n /\ w'[k].cpu = CpusDaSessao[k]
    <3> SUFFICES ASSUME NEW k \in Trab, w'[k].pc # "fora"
                 PROVE  k \in 1..n /\ w'[k].cpu = CpusDaSessao[k]
      OBVIOUS
    <3>1. k \in Nat \ {0}
      BY WorkersArePositive
    <3>2. k <= n /\ w'[k].cpu = CpusDaSessao[k]
      BY <1>3
    <3> HIDE DEF n
    <3> QED
      BY <2>1, <3>1, <3>2
  <2>3. EmSessao' /\ t'.sessoes # <<>>
    BY <1>1, <1>2 DEF EmSessao
  <2> QED
    BY <1>5, <2>1, <2>2, <2>3 DEF SessaoOK
<1>8. Comeco'
  BY <1>1, <1>3 DEF Comeco
<1>9. BarreiraOK' /\ RodadasOK'
  BY <1>8, StartIsFair, PTL
<1> QED
  BY <1>4, <1>6, <1>7, <1>9 DEF IInv

LEMMA CloseKeeps == ASSUME IInv, FecharSessao PROVE IInv'
<1>1. /\ t.at = "sessao" /\ w' = [k \in Trab |-> Fora] /\ bar' = [estado |-> "enche", n |-> 0]
      /\ t' = [t EXCEPT !.at = "escala", !.sessoes = Tail(t.sessoes),
                 !.linhas = t.linhas \cup {[config |-> Head(t.sessoes).config, n |-> Head(t.sessoes).n,
                                           exato |-> t.exato]}]
  BY DEF FecharSessao
<1>2. TRec(t') /\ t'.at = "escala" /\ t'.sessoes = Tail(t.sessoes) /\ t'.grupo = t.grupo
  BY <1>1 DEF IInv, TypesOK, TRec
<1>3. t.sessoes \in Seq(Sessao) /\ t.sessoes # <<>>
  BY <1>1 DEF IInv, TypesOK, SessaoOK, EmSessao, Sessao
<1>4. /\ Tail(t.sessoes) \in Seq(Sessao)
      /\ \A i \in 1..Len(Tail(t.sessoes)) :
            i + 1 \in 1..Len(t.sessoes) /\ Tail(t.sessoes)[i] = t.sessoes[i + 1]
  BY <1>3
<1>5. CpusDaSessao' = CpusDaSessao
  BY <1>2 DEF CpusDaSessao
<1>6. CpusOK'
  BY <1>1, <1>2, <1>4, <1>5 DEF IInv, CpusOK, EmSessao
<1> QED
  BY <1>1, <1>2, <1>4, <1>6, ResetKeeps DEF TRec, Sessao, EmSessao, IInv, TypesOK

\* What else the phases of cells and of sessions do.
LEMMA PhasesKeep ==
    ASSUME IInv, \/ executar_celulas
                 \/ ReceberMedida \/ GuardarEscala \/ SemBlocos \/ Sair \/ TempoFila \/ Terminar \/ Interromper
    PROVE  IInv'
<1> DEFINE Fica == /\ TRec(t') /\ t'.grupo \in Grupos \cup {SemGrupo} /\ t'.sessoes \in Seq(Sessao)
                   /\ UNCHANGED <<w, bar>> /\ EmSessao' = EmSessao
                   /\ t'.at # "escala"
                   /\ EmSessao => t'.sessoes = t.sessoes /\ t'.grupo = t.grupo
           Volta == /\ TRec(t') /\ t'.grupo \in Grupos \cup {SemGrupo} /\ t'.sessoes \in Seq(Sessao)
                    /\ ~EmSessao' /\ t'.at # "escala" /\ bar' = [estado |-> "enche", n |-> 0]
                    /\ \/ w' = [k \in Trab |-> Fora]
                       \/ \E n : w' = [k \in Trab |-> IF k <= n THEN [Fora EXCEPT !.pc = "livre"]
                                                      ELSE Fora]
<1>0. TRec(t) /\ t.grupo \in Grupos \cup {SemGrupo} /\ t.sessoes \in Seq(Sessao)
  BY DEF IInv, TypesOK, TRec, Sessao
<1>1. ASSUME Fica PROVE IInv'
  <2>1. TypesOK'
    BY <1>1 DEF IInv, TypesOK, TRec, Sessao
  <2>2. CpusOK'
    BY <1>1 DEF IInv, CpusOK, CpusDaSessao, EmSessao
  <2> QED
    BY <1>1, <2>1, <2>2, MainKeeps
<1>2. ASSUME Volta PROVE IInv'
  <2>1. CpusOK'
    BY <1>2 DEF CpusOK
  <2> QED
    BY <1>2, <2>1, ResetKeeps DEF TRec, Sessao
<1>3. TRec(Parado) /\ Parado.at = "parado" /\ Parado.grupo = SemGrupo /\ Parado.sessoes = <<>>
  BY DEF Parado, TRec
<1>4. <<>> \in Seq(Sessao)
  OBVIOUS
<1>5. CASE ComecarCelulas
  <2> DEFINE n == CpusDa(Head(t.fases))
  <2>1. /\ t.at = "main" /\ UNCHANGED bar
        /\ w' = [k \in Trab |-> IF k <= n THEN [Fora EXCEPT !.pc = "livre"] ELSE Fora]
        /\ t' = [t EXCEPT !.at = "celulas", !.ok = {}, !.erros = {},
                          !.resta = Cardinality(celulas(Head(t.fases), t.arquivos))]
    BY <1>5 DEF ComecarCelulas
  <2>2. /\ TRec(t') /\ t'.at = "celulas" /\ t'.grupo = t.grupo /\ t'.sessoes = t.sessoes
    BY <1>0, <2>1 DEF TRec
  <2>3. bar' = [estado |-> "enche", n |-> 0]
    BY <2>1 DEF IInv, SessaoOK, EmSessao
  <2> HIDE DEF n
  <2>4. \E m : w' = [k \in Trab |-> IF k <= m THEN [Fora EXCEPT !.pc = "livre"] ELSE Fora]
    BY <2>1
  <2> QED
    BY <1>0, <1>2, <2>2, <2>3, <2>4 DEF EmSessao
<1>6. CASE Receber
  <2>1. PICK m \in caixa :
          t' = [t EXCEPT !.resta = t.resta - 1, !.ok = t.ok \cup m.res,
                         !.erros = IF m.ok THEN t.erros ELSE t.erros \cup {m.cel}]
    BY <1>6 DEF Receber
  <2>2. TRec(t') /\ t'.at = t.at /\ t'.grupo = t.grupo /\ t'.sessoes = t.sessoes
    BY <1>0, <2>1 DEF TRec
  <2> QED
    BY <1>0, <1>1, <1>6, <2>2 DEF EmSessao, Receber
<1>7. CASE Guardar
  <2>1. /\ t.at = "celulas" /\ UNCHANGED bar /\ w' = [k \in Trab |-> Fora]
        /\ t' = [t EXCEPT !.at = "main", !.fases = Tail(t.fases),
                   !.parcial = IF Head(t.fases) = "ecore-P" THEN Nucleo(Head(t.fases)) ELSE {}]
    BY <1>7 DEF Guardar
  <2>2. TRec(t') /\ t'.at = "main" /\ t'.grupo = t.grupo /\ t'.sessoes = t.sessoes
    BY <1>0, <2>1 DEF TRec
  <2>3. bar' = [estado |-> "enche", n |-> 0]
    BY <2>1 DEF IInv, SessaoOK, EmSessao
  <2> QED
    BY <1>0, <1>2, <2>1, <2>2, <2>3 DEF EmSessao
<1>8. CASE ReceberMedida
  <2>1. PICK m \in caixa :
          t' = IF m.msg = "setup" THEN [t EXCEPT !.resta = t.resta - 1, !.exato = t.exato /\ m.exato]
               ELSE [t EXCEPT !.resta = t.resta - 1,
                              !.medidas = [t.medidas EXCEPT ![<<m.op, m.r>>] = @ + 1]]
    BY <1>8 DEF ReceberMedida
  <2>2. TRec(t') /\ t'.at = t.at /\ t'.grupo = t.grupo /\ t'.sessoes = t.sessoes
    <3>1. CASE m.msg = "setup"
      BY <1>0, <2>1, <3>1 DEF TRec
    <3>2. CASE m.msg # "setup"
      BY <1>0, <2>1, <3>2 DEF TRec
    <3> QED
      BY <3>1, <3>2
  <2> QED
    BY <1>0, <1>1, <1>8, <2>2 DEF EmSessao, ReceberMedida
<1>9. CASE TempoFila
  <2>1. t.at = "sessao" /\ t' = [t EXCEPT !.at = "saindo"] /\ UNCHANGED <<w, bar>>
    BY <1>9 DEF TempoFila
  <2>2. TRec(t') /\ t'.at = "saindo" /\ t'.grupo = t.grupo /\ t'.sessoes = t.sessoes
    BY <1>0, <2>1 DEF TRec
  <2> QED
    BY <1>0, <1>1, <2>1, <2>2 DEF EmSessao
<1>10. CASE GuardarEscala
  <2>1. t.at = "escala" /\ t' = [t EXCEPT !.at = "main", !.fases = Tail(t.fases)]
        /\ UNCHANGED <<w, bar>>
    BY <1>10 DEF GuardarEscala
  <2>2. TRec(t') /\ t'.at = "main" /\ t'.grupo = t.grupo /\ t'.sessoes = t.sessoes
    BY <1>0, <2>1 DEF TRec
  <2> QED
    BY <1>0, <1>1, <2>1, <2>2 DEF EmSessao
<1>11. CASE Sair \/ Interromper
  <2>1. t' = Parado /\ w' = [k \in Trab |-> Fora] /\ bar' = [estado |-> "enche", n |-> 0]
    BY <1>11 DEF Sair, Interromper
  <2> QED
    BY <1>2, <1>3, <1>4, <2>1 DEF EmSessao
<1>12. CASE Terminar \/ SemBlocos
  <2>1. t.at \in {"main", "escala"} /\ t' = Parado /\ UNCHANGED <<w, bar>>
    BY <1>12 DEF Terminar, SemBlocos
  <2>2. TRec(t') /\ t'.at = "parado" /\ t'.grupo = SemGrupo /\ t'.sessoes = <<>>
    BY <1>3, <2>1
  <2> QED
    BY <1>1, <1>4, <2>1, <2>2 DEF EmSessao
<1> QED
  BY <1>5, <1>6, <1>7, <1>8, <1>9, <1>10, <1>11, <1>12 DEF executar_celulas

LEMMA RunKeeps ==
    ASSUME IInv, NEW f, NEW g \in Grupos \cup {SemGrupo}, NEW as, Executar(f, g, as)
    PROVE  IInv'
<1>1. /\ t.at = "parado" /\ UNCHANGED <<w, bar>>
      /\ t' = [Parado EXCEPT !.at = "main", !.arquivos = as, !.fase = f, !.fases = Fases(f), !.grupo = g]
  BY DEF Executar
<1>2. TRec(t') /\ t'.at = "main" /\ t'.grupo = g /\ t'.sessoes = <<>>
  BY <1>1 DEF Parado, TRec
<1>3. TypesOK'
  <2>1. t'.sessoes \in Seq(Sessao)
    BY <1>2
  <2> QED
    BY <1>1, <1>2, <2>1 DEF IInv, TypesOK, TRec, Sessao
<1>4. CpusOK'
  BY <1>2 DEF CpusOK, EmSessao
<1>5. EmSessao' = EmSessao /\ ~EmSessao
  BY <1>1, <1>2 DEF EmSessao
<1> QED
  BY <1>1, <1>3, <1>4, <1>5, MainKeeps

----------------------------------------------------------------------------
LEMMA StepIInv == IInv /\ [Next]_vars => IInv'
<1> SUFFICES ASSUME IInv, [Next]_vars PROVE IInv'
  OBVIOUS
<1>1. CASE Comandos
  BY <1>1, RunKeeps DEF Comandos
<1>2. CASE executar_celulas \/ TempoFila \/ Terminar \/ Interromper
  BY <1>2, PhasesKeep
<1>3. CASE fase_escala
  BY <1>3, StartSessionsKeeps, OpenKeeps, CloseKeeps, PhasesKeep DEF fase_escala
<1>4. ASSUME NEW k \in Trab,
             trabalhador(k) \/ trabalhador_escala(k) \/ TempoBarreira(k) \/ Matar(k)
      PROVE  IInv'
  BY <1>4, CellKeeps, PrepareKeeps, EnterKeeps, PassKeeps, MeasureKeeps, TimeoutKeeps, KillKeeps
  DEF trabalhador_escala
<1>5. CASE UNCHANGED vars
  <2>1. UNCHANGED <<t, w, bar>>
    BY <1>5 DEF vars
  <2> QED
    BY <2>1, MainKeeps DEF IInv, TypesOK, CpusOK, CpusDaSessao, EmSessao
<1> QED
  BY <1>1, <1>2, <1>3, <1>4, <1>5 DEF Next

LEMMA RoundsFollow == IInv => RoundsTogether
<1> SUFFICES ASSUME IInv, NEW j \in Trab, NEW k \in Trab,
                    w[j].pc = "mede_rodada", w[k].pc = "mede_rodada"
             PROVE  w[j].op = w[k].op /\ w[j].r = w[k].r /\ (j # k => w[j].cpu # w[k].cpu)
  BY DEF RoundsTogether
<1>1. w[j].op = w[k].op /\ w[j].r = w[k].r
  BY DEF IInv, RodadasOK, Pos
<1>2. EmSessao
  BY DEF IInv, SessaoOK, DaRodada
<1>3. /\ j \in 1..Partes /\ w[j].cpu = CpusDaSessao[j]
      /\ k \in 1..Partes /\ w[k].cpu = CpusDaSessao[k]
  BY <1>2 DEF IInv, SessaoOK
<1>4. IsInjective(CpusDaSessao) /\ 1..Partes \subseteq DOMAIN CpusDaSessao
  <2>1. t.sessoes \in Seq(Sessao) /\ t.sessoes # <<>>
    BY <1>2 DEF IInv, TypesOK, SessaoOK, Sessao
  <2>2. 1 \in 1..Len(t.sessoes) /\ Head(t.sessoes) = t.sessoes[1]
    BY <2>1
  <2> QED
    BY <1>2, <2>2 DEF IInv, CpusOK, Partes
<1> QED
  BY <1>1, <1>3, <1>4 DEF IsInjective

\* No worker measures a round while another is still in an earlier one, and no two of a
\* session share a CPU (fase_escala), whoever dies and whichever wait times out.
THEOREM RoundsStayTogether == Spec => []RoundsTogether
<1>1. Init => IInv
  BY InitIInv
<1>2. IInv /\ [Next]_vars => IInv'
  BY StepIInv
<1>3. IInv => RoundsTogether
  BY RoundsFollow
<1> QED
  BY <1>1, <1>2, <1>3, PTL DEF Spec

=============================================================================
