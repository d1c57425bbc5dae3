------------------------- MODULE CapacityIO_proofs -------------------------
(***************************************************************************)
(* Proofs about CapacityIO, for any number of workers, any commands, block  *)
(* sizes and durations, any number of workers that die, and an input of any *)
(* blocks, that compress or do not, more or fewer than the files. First the *)
(* deadline: no worker starts before it is in the shared page, and each     *)
(* stops for it; what the workers write and read does not matter for that.  *)
(* Then the files: what the decompression tests read, round and round, is   *)
(* what the preparation was given to write.                                *)
(***************************************************************************)
EXTENDS CapacityIO, FiniteSetTheorems, SequenceTheorems, WellFoundedInduction, TLAPS

----------------------------------------------------------------------------
(***************************************************************************)
(* Numbers.                                                                *)
(***************************************************************************)
LEMMA WorkerNumbers ==
    /\ Trab \subseteq Nat /\ IsFiniteSet(Trab) /\ 0 \in Trab
    /\ NPrep \in Nat \ {0} /\ NTeste \in Nat \ {0} /\ Passo \in Nat \ {0}
    /\ Duracao \in Nat /\ Folga \in Nat
<1>0. {NPrep, NTeste, Passo, Duracao, Folga} \subseteq Nat /\ 0 \notin {NPrep, NTeste, Passo}
  BY CapacityAssumption DEF CapacityAssumption
<1>1. NMax \in Nat \ {0}
  BY <1>0 DEF NMax
<1>2. IsFiniteSet(0..(NMax - 1))
  BY <1>1, FS_Interval
<1> QED
  BY <1>0, <1>1, <1>2 DEF Trab

\* The remainder goes up by one until it falls to zero.
LEMMA NextRemainder ==
    ASSUME NEW c \in Nat, NEW p \in Nat \ {0}
    PROVE  /\ c % p \in 0..(p - 1)
           /\ (c + 1) % p # 0 => (c + 1) % p = (c % p) + 1
<1> DEFINE q == c \div p
           r == c % p
           u == (c + 1) \div p
           v == (c + 1) % p
<1>1. /\ q \in Int /\ r \in 0..(p - 1) /\ c = p * q + r
      /\ u \in Int /\ v \in 0..(p - 1) /\ c + 1 = p * u + v
  OBVIOUS
<1> HIDE DEF q, r, u, v
<1>2. ASSUME v # 0 PROVE v = r + 1
  <2>1. p * (u - q) = 1 + r - v
    BY <1>1
  <2>2. CASE u - q >= 1
    <3>1. p * (u - q) >= p
      BY <1>1, <2>2
    <3> QED
      BY <1>1, <1>2, <2>1, <3>1
  <2>3. CASE u - q <= -1
    <3>1. p * (u - q) <= -p
      BY <1>1, <2>3
    <3> QED
      BY <1>1, <1>2, <2>1, <3>1
  <2>4. CASE u = q
    BY <1>1, <2>1, <2>4
  <2> QED
    BY <1>1, <2>2, <2>3, <2>4
<1> QED
  BY <1>1, <1>2 DEF r, v

LEMMA RemainderBefore ==
    ASSUME NEW c \in Nat, c > 0, NEW p \in Nat \ {0}
    PROVE  /\ (c - 1) % p \in 0..(p - 1)
           /\ c % p # 0 => c % p = ((c - 1) % p) + 1
<1> DEFINE b == c - 1
<1>1. b \in Nat /\ c = b + 1
  OBVIOUS
<1> HIDE DEF b
<1>2. /\ b % p \in 0..(p - 1)
      /\ (b + 1) % p # 0 => (b + 1) % p = (b % p) + 1
  BY <1>1, NextRemainder
<1> QED
  BY <1>1, <1>2 DEF b

----------------------------------------------------------------------------
(***************************************************************************)
(* Types, of the fields that count here.                                   *)
(***************************************************************************)
Campos == {"pc", "modo", "pos", "cnt", "dl", "e", "l", "fr"}
CamposDoPai == {"at", "cmd", "plano", "n", "resta", "prazo", "t0", "k", "cum", "total", "desde",
                "parou", "testes"}

TiposPai ==
    /\ DOMAIN pai = CamposDoPai
    /\ pai.n \in Nat /\ pai.prazo \in Nat /\ pai.parou \in BOOLEAN /\ pai.desde \in [Trab -> Nat]

TiposTrab ==
    /\ DOMAIN w = Trab
    /\ \A i \in Trab : DOMAIN w[i] = Campos /\ w[i].cnt \in Nat /\ w[i].dl \in Int

TiposMem ==
    /\ DOMAIN mm = {"dl", "feito"} /\ mm.dl \in Int
    /\ DOMAIN bar = {"n", "quebrada"} /\ bar.n \in Nat /\ bar.quebrada \in BOOLEAN
    /\ agora \in Nat

Tipos == TiposPai /\ TiposTrab /\ TiposMem

----------------------------------------------------------------------------
(***************************************************************************)
(* What a step of a worker does to what counts: Anda(i, x) says that worker *)
(* i becomes x and that the parent, the deadline and the clock stay.        *)
(***************************************************************************)
Anda(i, x) ==
    /\ w' = [w EXCEPT ![i] = x] /\ DOMAIN x = Campos /\ x.modo = w[i].modo
    /\ pai' = pai /\ agora' = agora
    /\ mm'.dl = mm.dl /\ DOMAIN mm' = DOMAIN mm

\* The steps, by what they do to the counter, the deadline of the worker and the barrier.
Quieto(i, x) ==   \* before the barrier, at its end, or in the middle of a block
    /\ x.cnt = w[i].cnt /\ bar' = bar
    /\ \/ w[i].pc = "abre" /\ x.pc = "espera" /\ x.dl = w[i].dl
       \/ w[i].pc = "bloco" /\ x.pc = "bloco" /\ x.dl = w[i].dl
       \/ w[i].pc = "fecha" /\ x.pc = "fim" /\ x.dl = 0
Chega(i, x) ==
    /\ w[i].pc = "espera" /\ x.pc = "barreira" /\ x.cnt = w[i].cnt /\ x.dl = w[i].dl
    /\ bar' = [bar EXCEPT !.n = @ + 1]
Passa(i, x) ==
    /\ w[i].pc = "barreira" /\ x.pc = "bloco" /\ x.cnt = w[i].cnt /\ x.dl = mm.dl
    /\ bar' = bar /\ bar.n = pai.n + 1
Morre(i, x) ==
    /\ w[i].pc # "fora" /\ x.pc = "morto" /\ x.cnt = 0 /\ x.dl = 0
    /\ bar' = bar \/ bar' = [bar EXCEPT !.quebrada = TRUE]
Bloco(i, x) ==
    /\ w[i].pc = "bloco" /\ x.pc = "decide" /\ x.cnt = w[i].cnt + 1 /\ x.dl = w[i].dl
    /\ bar' = bar
Decide(i, x) ==
    LET cada == w[i].cnt % Passo = 0
    IN  /\ w[i].pc = "decide" /\ x.cnt = w[i].cnt /\ bar' = bar
        /\ \/ /\ x.pc = "fecha" /\ x.dl = w[i].dl
              /\ w[i].modo = "preparar" \/ agora >= w[i].dl
           \/ /\ x.pc = "bloco" /\ x.dl = (IF cada THEN mm.dl ELSE w[i].dl)
              /\ w[i].modo # "preparar" => ~(cada /\ agora >= w[i].dl)

Trabalha(i, x) ==
    Anda(i, x) /\ (Quieto(i, x) \/ Chega(i, x) \/ Passa(i, x) \/ Morre(i, x) \/ Bloco(i, x) \/ Decide(i, x))

LEMMA WorkerDies ==
    ASSUME Tipos, NEW i \in Trab, w' = [w EXCEPT ![i] = Morto(i)],
           UNCHANGED <<pai, mm, agora>>,
           bar' = bar \/ bar' = [bar EXCEPT !.quebrada = TRUE],
           w[i].pc # "fora"
    PROVE  \E x : Trabalha(i, x)
<1>1. /\ DOMAIN Morto(i) = Campos /\ Morto(i).pc = "morto" /\ Morto(i).modo = w[i].modo
      /\ Morto(i).cnt = 0 /\ Morto(i).dl = 0
  BY DEF Morto, Fora, Campos
<1>2. Trabalha(i, Morto(i))
  BY <1>1 DEF Trabalha, Anda, Morre
<1> QED
  BY <1>2

LEMMA WorkerBlock ==
    ASSUME Tipos, NEW i \in Trab, ComprimirBloco(i) \/ BlocoSust(i) \/ DescomprimirBloco(i)
    PROVE  \E x : Trabalha(i, x)
<1> DEFINE Pronto_(y) == [y EXCEPT !.cnt = @ + 1, !.pc = "decide"]
           Mesmo(y) == /\ DOMAIN y = Campos /\ y.cnt = w[i].cnt /\ y.dl = w[i].dl
                       /\ y.modo = w[i].modo
<1>0. DOMAIN w[i] = Campos /\ w[i].pc = "bloco"
  BY DEF Tipos, TiposTrab, ComprimirBloco, BlocoSust, DescomprimirBloco, PodeBloco
<1>1. \E y : Mesmo(y) /\ Feito(i, y)
  <2>1. CASE ComprimirBloco(i)
    <3>1. \A a, b : Mesmo([w[i] EXCEPT !.e = a, !.pos = b])
      BY <1>0 DEF Campos
    <3> QED
      BY <2>1, <3>1 DEF ComprimirBloco
  <2>2. CASE BlocoSust(i)
    BY <1>0, <2>2 DEF BlocoSust
  <2>3. CASE DescomprimirBloco(i)
    <3>1. \A a, b : Mesmo([w[i] EXCEPT !.fr = a, !.l.pend = b])
      BY <1>0 DEF Campos
    <3>2. \A y, a : Mesmo(y) => Mesmo([y EXCEPT !.e = a])
      BY DEF Campos
    <3> QED
      BY <2>3, <3>1, <3>2 DEF DescomprimirBloco
  <2> QED
    BY <2>1, <2>2, <2>3
<1>2. PICK y : Mesmo(y) /\ Feito(i, y)
  BY <1>1
<1>3. /\ DOMAIN Pronto_(y) = Campos /\ Pronto_(y).cnt = w[i].cnt + 1 /\ Pronto_(y).pc = "decide"
      /\ Pronto_(y).dl = w[i].dl /\ Pronto_(y).modo = w[i].modo
  BY <1>2 DEF Campos
<1>4. mm'.dl = mm.dl /\ DOMAIN mm' = DOMAIN mm
  BY <1>2 DEF Feito, Tipos, TiposMem
<1>5. Trabalha(i, Pronto_(y))
  BY <1>0, <1>2, <1>3, <1>4 DEF Feito, Trabalha, Anda, Bloco
<1> QED
  BY <1>5

LEMMA WorkerStep ==
    ASSUME Tipos, NEW i \in Trab, worker(i) \/ TempoBarreira(i) \/ Falhar(i) \/ Morrer(i)
    PROVE  (\E x : Trabalha(i, x)) \/ UNCHANGED <<pai, w, mm, bar, agora>>
<1>0. /\ DOMAIN w = Trab /\ DOMAIN w[i] = Campos /\ DOMAIN mm = {"dl", "feito"}
      /\ DOMAIN bar = {"n", "quebrada"}
  BY DEF Tipos, TiposTrab, TiposMem
<1>1. CASE Abrir(i)
  <2>1. PICK a, b, c : w' = [w EXCEPT ![i] = [w[i] EXCEPT !.pc = "espera", !.pos = a, !.e = b, !.l = c]]
    BY <1>1 DEF Abrir
  <2> DEFINE x == [w[i] EXCEPT !.pc = "espera", !.pos = a, !.e = b, !.l = c]
  <2>2. DOMAIN x = Campos /\ x.pc = "espera" /\ x.cnt = w[i].cnt /\ x.dl = w[i].dl /\ x.modo = w[i].modo
    BY <1>0 DEF Campos
  <2>3. Trabalha(i, x)
    BY <1>1, <2>1, <2>2 DEF Abrir, Trabalha, Anda, Quieto
  <2> QED
    BY <2>3
<1>2. CASE NaoAbre(i)
  BY <1>2, WorkerDies DEF NaoAbre
<1>3. CASE Chegar(i)
  <2>1. CASE bar.quebrada
    BY <1>3, <2>1, WorkerDies DEF Chegar
  <2>2. CASE ~bar.quebrada
    <3> DEFINE x == [w[i] EXCEPT !.pc = "barreira"]
    <3>1. DOMAIN x = Campos /\ x.pc = "barreira" /\ x.cnt = w[i].cnt /\ x.dl = w[i].dl /\ x.modo = w[i].modo
      BY <1>0 DEF Campos
    <3>2. Trabalha(i, x)
      BY <1>3, <2>2, <3>1 DEF Chegar, Parte, Trabalha, Anda, Chega
    <3> QED
      BY <3>2
  <2> QED
    BY <2>1, <2>2
<1>4. CASE Passar(i)
  <2>1. CASE bar.quebrada
    BY <1>4, <2>1, WorkerDies DEF Passar
  <2>2. CASE ~bar.quebrada
    <3> DEFINE x == [w[i] EXCEPT !.pc = "bloco", !.dl = mm.dl]
    <3>1. DOMAIN x = Campos /\ x.pc = "bloco" /\ x.cnt = w[i].cnt /\ x.dl = mm.dl /\ x.modo = w[i].modo
      BY <1>0 DEF Campos
    <3>2. Trabalha(i, x)
      BY <1>4, <2>2, <3>1 DEF Passar, Trabalha, Anda, Passa
    <3> QED
      BY <3>2
  <2> QED
    BY <2>1, <2>2
<1>5. CASE ComprimirBloco(i) \/ BlocoSust(i) \/ DescomprimirBloco(i)
  BY <1>5, WorkerBlock
<1>6. CASE ProximoArquivo(i) \/ LerBloco(i)
  <2>1. PICK a : w' = [w EXCEPT ![i] = [w[i] EXCEPT !.l = a]]
    BY <1>6 DEF ProximoArquivo, LerBloco
  <2> DEFINE x == [w[i] EXCEPT !.l = a]
  <2>2. /\ DOMAIN x = Campos /\ x.pc = w[i].pc /\ w[i].pc = "bloco" /\ x.cnt = w[i].cnt
        /\ x.dl = w[i].dl /\ x.modo = w[i].modo
    BY <1>0, <1>6 DEF Campos, ProximoArquivo, LerBloco, PodeBloco
  <2>3. Trabalha(i, x)
    BY <1>6, <2>1, <2>2 DEF ProximoArquivo, LerBloco, Trabalha, Anda, Quieto
  <2> QED
    BY <2>3
<1>7. CASE Decidir(i)
  <2> DEFINE cada == w[i].cnt % Passo = 0
             para == CASE w[i].modo = "preparar" -> w[i].pos >= regiao(i, pai.n)[2]
                       [] w[i].modo = "sust" -> agora >= w[i].dl
                       [] OTHER -> cada /\ agora >= w[i].dl
             x == [w[i] EXCEPT !.pc = IF para THEN "fecha" ELSE "bloco",
                               !.dl = IF ~para /\ cada THEN mm.dl ELSE w[i].dl]
  <2>1. w' = [w EXCEPT ![i] = x]
    BY <1>7 DEF Decidir
  <2>2. /\ DOMAIN x = Campos /\ x.cnt = w[i].cnt /\ x.modo = w[i].modo
        /\ x.pc = (IF para THEN "fecha" ELSE "bloco")
        /\ x.dl = (IF ~para /\ cada THEN mm.dl ELSE w[i].dl)
    BY <1>0 DEF Campos
  <2>3. para /\ w[i].modo # "preparar" => agora >= w[i].dl
    OBVIOUS
  <2>4. ~para /\ w[i].modo # "preparar" => ~(cada /\ agora >= w[i].dl)
    OBVIOUS
  <2> HIDE DEF para
  <2>5. Trabalha(i, x)
    BY <1>7, <2>1, <2>2, <2>3, <2>4 DEF Decidir, Trabalha, Anda, Decide
  <2> QED
    BY <2>5
<1>8. CASE Fechar(i)
  <2> DEFINE x == [Fora EXCEPT !.pc = "fim", !.modo = w[i].modo, !.cnt = w[i].cnt]
  <2>1. /\ DOMAIN x = Campos /\ x.pc = "fim" /\ x.cnt = w[i].cnt /\ x.modo = w[i].modo /\ x.dl = 0
    BY DEF Fora, Campos
  <2>2. Trabalha(i, x)
    BY <1>8, <2>1 DEF Fechar, Trabalha, Anda, Quieto
  <2> QED
    BY <2>2
<1>9. CASE TempoBarreira(i)
  <2>1. CASE travas.dormindo > 0
    BY <1>9, <2>1 DEF TempoBarreira
  <2>2. CASE ~(travas.dormindo > 0)
    BY <1>9, <2>2, WorkerDies DEF TempoBarreira
  <2> QED
    BY <2>1, <2>2
<1>10. CASE Falhar(i)
  BY <1>10, WorkerDies DEF Falhar
<1>11. CASE Morrer(i)
  <2>1. /\ w' = [w EXCEPT ![i] = Morto(i)] \/ w' = w
        /\ UNCHANGED <<pai, mm, bar, agora>>
    BY <1>11 DEF Morrer
  <2>2. w[i].pc # "fora"
    BY <1>11 DEF Morrer
  <2> QED
    BY <2>1, <2>2, WorkerDies
<1> QED
  BY <1>1, <1>2, <1>3, <1>4, <1>5, <1>6, <1>7, <1>8, <1>9, <1>10, <1>11 DEF worker

----------------------------------------------------------------------------
(***************************************************************************)
(* What a step of the parent does to what counts.                          *)
(***************************************************************************)
\* The workers of a preparation or of a test are launched.
Lanca(modo, n) ==
    /\ n \in {NPrep, NTeste} /\ pai'.n = n
    /\ w' = [i \in Trab |-> IF i < n THEN [Fora EXCEPT !.pc = "abre", !.modo = modo] ELSE Fora]
    /\ mm' = NoMem /\ bar' = [n |-> 0, quebrada |-> FALSE]
    /\ pai'.at = "prontos" /\ pai'.prazo \in Nat /\ pai'.desde \in [Trab -> Nat]
    /\ pai'.parou = FALSE

\* It goes on: n, the deadline, the stop and the shared page stay.
Segue ==
    /\ w' = w /\ mm' = mm
    /\ pai'.n = pai.n /\ pai'.prazo = pai.prazo /\ pai'.parou = pai.parou /\ pai'.desde = pai.desde
    /\ DOMAIN bar' = {"n", "quebrada"} /\ bar'.n = bar.n /\ bar'.quebrada \in BOOLEAN
    /\ pai'.at \in {"prontos", "barreira"} => pai'.at = pai.at
    /\ pai'.at = "curva" => pai.at = "curva" \/ (pai.at = "barreira" /\ ~EmPreparo)
    /\ pai'.at \in {"parado", "preparar"} => pai.at = "parado"

\* It writes the deadline and arrives at the barrier.
Marca ==
    /\ w' = w /\ pai.at = "prontos" /\ pai'.at = "barreira"
    /\ pai'.n = pai.n /\ pai'.prazo \in Nat /\ pai'.parou = pai.parou /\ pai'.desde = pai.desde
    /\ DOMAIN mm' = {"dl", "feito"} /\ mm'.dl \in Int
    /\ ~EmPreparo => mm'.dl = pai'.prazo
    /\ bar' = [bar EXCEPT !.n = @ + 1]

\* It puts the deadline in the past.
Para ==
    /\ w' = w /\ pai.at = "curva" /\ pai'.at = "fins"
    /\ pai'.n = pai.n /\ pai'.prazo = pai.prazo /\ pai'.parou = TRUE
    /\ pai'.desde = [i \in Trab |-> w[i].cnt]
    /\ DOMAIN mm' = {"dl", "feito"} /\ mm'.dl = agora - 1
    /\ bar' = bar

LEMMA ParentStep ==
    ASSUME Tipos, pai.at \in {"preparar", "curva"} => ~pai.parou, executar_io \/ Tempo
    PROVE  /\ agora' = agora /\ DOMAIN pai' = CamposDoPai
           /\ (\E modo, n : Lanca(modo, n)) \/ Segue \/ Marca \/ Para
<1> USE DEF CamposDoPai
<1>0. /\ DOMAIN pai = CamposDoPai /\ pai.prazo \in Nat /\ pai.desde \in [Trab -> Nat]
      /\ DOMAIN mm = {"dl", "feito"} /\ mm.dl \in Int
      /\ DOMAIN bar = {"n", "quebrada"} /\ bar.n \in Nat /\ bar.quebrada \in BOOLEAN /\ agora \in Nat
      /\ Duracao \in Nat /\ Folga \in Nat /\ pai.parou \in BOOLEAN
  BY WorkerNumbers DEF Tipos, TiposPai, TiposMem
<1>1. CASE Comecar
  BY <1>0, <1>1 DEF Comecar, Segue
<1>2. CASE Preparar
  <2>1. /\ pai'.n = NPrep /\ pai'.at = "prontos" /\ pai'.prazo \in Nat /\ pai'.parou = FALSE
        /\ pai'.desde \in [Trab -> Nat] /\ DOMAIN pai' = CamposDoPai
    <3>1. pai.at = "preparar" /\ pai.parou = FALSE
      BY <1>0, <1>2 DEF Preparar
    <3> QED
      BY <1>0, <1>2, <3>1 DEF Preparar
  <2>2. Lanca("preparar", NPrep)
    BY <1>2, <2>1 DEF Preparar, Lancar, Lanca
  <2> QED
    BY <1>2, <2>1, <2>2 DEF Preparar
<1>3. CASE Testar
  <2>1. /\ pai'.n = NTeste /\ pai'.at = "prontos" /\ pai'.prazo = 0 /\ pai'.parou = FALSE
        /\ pai'.desde = [i \in Trab |-> 0] /\ DOMAIN pai' = CamposDoPai
    BY <1>3 DEF Testar, Parado
  <2>2. [i \in Trab |-> 0] \in [Trab -> Nat]
    OBVIOUS
  <2>3. Lanca(Head(pai.plano), NTeste)
    BY <1>3, <2>1, <2>2 DEF Testar, Lancar, Lanca
  <2> QED
    BY <1>3, <2>1, <2>3 DEF Testar
<1>4. CASE Pronto
  BY <1>0, <1>4 DEF Pronto, Segue
<1>5. CASE MarcarPrazo
  <2>1. agora + Duracao + Folga \in Nat
    BY <1>0
  <2>2. /\ pai'.at = "barreira" /\ pai'.prazo = agora + Duracao + Folga /\ DOMAIN pai' = CamposDoPai
        /\ pai'.n = pai.n /\ pai'.parou = pai.parou /\ pai'.desde = pai.desde
    BY <1>0, <1>5 DEF MarcarPrazo
  <2>3. /\ DOMAIN mm' = {"dl", "feito"} /\ mm'.dl \in Int
        /\ ~EmPreparo => mm'.dl = agora + Duracao + Folga
    BY <1>0, <1>5, <2>1 DEF MarcarPrazo
  <2> QED
    BY <1>5, <2>1, <2>2, <2>3 DEF MarcarPrazo, Parte, Marca
<1>6. CASE Largar
  BY <1>0, <1>6 DEF Largar, Segue
<1>7. CASE Amostrar
  <2>1. PICK para \in BOOLEAN :
          /\ pai' = [pai EXCEPT !.k = @ + 1, !.cum = Somados,
                                !.at = IF para THEN "fins" ELSE @, !.parou = para,
                                !.desde = IF para THEN [i \in Trab |-> w[i].cnt] ELSE @]
          /\ mm' = IF para THEN [mm EXCEPT !.dl = agora - 1] ELSE mm
    BY <1>7 DEF Amostrar
  <2>2. UNCHANGED <<w, bar, agora>> /\ pai.at = "curva"
    BY <1>7 DEF Amostrar
  <2>3. CASE para
    BY <1>0, <2>1, <2>2, <2>3 DEF Para
  <2>4. CASE ~para
    BY <1>0, <2>1, <2>2, <2>4 DEF Segue
  <2> QED
    BY <2>3, <2>4
<1>8. CASE FimDaCurva \/ Receber
  <2>1. CASE FimDaCurva
    BY <1>0, <2>1 DEF FimDaCurva, Ir, Segue
  <2>2. CASE Receber
    <3>1. /\ \E r, t : pai' = [pai EXCEPT !.resta = r, !.total = t]
          /\ UNCHANGED <<w, mm, bar, agora>> /\ pai.at = "fins"
      BY <2>2 DEF Receber
    <3>2. PICK r, t : pai' = [pai EXCEPT !.resta = r, !.total = t]
      BY <3>1
    <3>3. /\ DOMAIN pai' = CamposDoPai /\ pai'.at = pai.at /\ pai'.n = pai.n
          /\ pai'.prazo = pai.prazo /\ pai'.parou = pai.parou /\ pai'.desde = pai.desde
      BY <1>0, <3>2
    <3> QED
      BY <1>0, <3>1, <3>3 DEF Segue
  <2> QED
    BY <1>8, <2>1, <2>2
<1>9. CASE Gravar
  BY <1>0, <1>9 DEF Gravar, Segue
<1>10. CASE Terminar \/ Sair
  <2>1. /\ pai' = [pai EXCEPT !.at = "saindo"] \/ pai' = [pai EXCEPT !.at = "fim"]
        /\ UNCHANGED <<w, mm, bar, agora>>
    BY <1>10 DEF Terminar, Sair, Ir
  <2> QED
    BY <1>0, <2>1 DEF Segue
<1>11. CASE Tempo
  BY <1>0, <1>11 DEF Tempo, Ir, Segue
<1> QED
  BY <1>1, <1>2, <1>3, <1>4, <1>5, <1>6, <1>7, <1>8, <1>9, <1>10, <1>11 DEF executar_io


----------------------------------------------------------------------------
(***************************************************************************)
(* The inductive invariant. The barrier opens at n + 1 arrivals and there   *)
(* are n workers, so the parent is one of them, and it writes the deadline  *)
(* before it arrives: a worker behind the barrier has read it, until the    *)
(* parent puts one in the past. From then on a worker does at most what is  *)
(* left of its round of Passo blocks with the old deadline, reads the new   *)
(* one, and stops at the end of the next round.                             *)
(***************************************************************************)
Atras == {"bloco", "decide", "fecha", "fim"}
Passaram == {i \in Trab : w[i].pc \notin {"fora", "abre", "espera"}}

Lancados == \A i \in Trab : w[i].pc # "fora" => i < pai.n /\ w[i].modo = w[0].modo

Marcado == EmPreparo \/ pai.parou \/ mm.dl = pai.prazo

BarreiraOK == bar.n <= Cardinality(Passaram) \/ (Marcado /\ pai.at # "prontos")

ProntosOK ==
    pai.at = "prontos" =>
        bar.n <= Cardinality(Passaram) /\ \A i \in Trab : w[i].pc \notin Atras

PrazoOK ==
    \A i \in Trab :
        w[i].pc \in {"bloco", "decide", "fecha"} /\ w[i].modo # "preparar" /\ ~pai.parou =>
            /\ w[i].dl = pai.prazo /\ mm.dl = pai.prazo
            /\ w[i].pc = "fecha" => agora >= pai.prazo

CurvaOK ==
    /\ pai.at = "curva" => ~EmPreparo
    /\ EmPreparo \/ pai.at \in {"parado", "preparar"} => ~pai.parou
    /\ pai.parou => mm.dl < agora /\ pai.at \notin {"prontos", "barreira", "curva"}

\* What worker x has done since it was d blocks far, when the deadline was put in the past.
PassosDe(x, d) ==
    /\ x.pc = "bloco" =>
        \/ x.cnt - d <= x.cnt % Passo
        \/ x.dl < agora /\ x.cnt - d <= Passo + (x.cnt % Passo)
    /\ x.pc = "decide" =>
        \/ x.cnt - d <= ((x.cnt - 1) % Passo) + 1
        \/ x.dl < agora /\ x.cnt - d <= Passo + ((x.cnt - 1) % Passo) + 1
    /\ x.cnt <= d + 2 * Passo

PassosOK == pai.parou => \A i \in Trab : PassosDe(w[i], pai.desde[i])

ContadoOK ==
    \A i \in Trab :
        /\ w[i].pc = "decide" => w[i].cnt > 0
        /\ w[i].pc \in {"fora", "abre", "espera", "barreira", "morto"} => w[i].cnt = 0

CInv ==
    /\ Tipos /\ Lancados /\ BarreiraOK /\ ProntosOK /\ PrazoOK
    /\ CurvaOK /\ PassosOK /\ ContadoOK

LEMMA PassedAreFinite ==
    IsFiniteSet(Passaram) /\ Cardinality(Passaram) \in Nat
<1>1. Passaram \subseteq Trab
  BY DEF Passaram
<1> QED
  BY <1>1, WorkerNumbers, FS_Subset, FS_CardinalityType

\* At most the n workers arrive, so the barrier does not open without the parent.
LEMMA AtMostNPassed ==
    ASSUME Tipos, Lancados
    PROVE  Cardinality(Passaram) <= pai.n
<1>2. pai.n \in Nat
  BY DEF Tipos, TiposPai
<1>1. Passaram \subseteq 0..(pai.n - 1)
  <2>1. \A i \in Passaram : i \in Nat /\ i < pai.n
    BY WorkerNumbers DEF Passaram, Lancados
  <2> QED
    BY <1>2, <2>1
<1>3. IsFiniteSet(0..(pai.n - 1)) /\ Cardinality(0..(pai.n - 1)) = pai.n
  <2>1. /\ IsFiniteSet(0..(pai.n - 1))
        /\ Cardinality(0..(pai.n - 1)) = IF 0 > pai.n - 1 THEN 0 ELSE pai.n - 1 - 0 + 1
    <3>1. pai.n - 1 \in Int
      BY <1>2
    <3> QED
      BY <3>1, FS_Interval
  <2> QED
    BY <1>2, <2>1
<1> QED
  BY <1>1, <1>3, FS_Subset

----------------------------------------------------------------------------
(***************************************************************************)
(* Init and the steps of the parent.                                       *)
(***************************************************************************)
LEMMA CapacityInit == Init => CInv
<1> SUFFICES ASSUME Init PROVE CInv
  OBVIOUS
<1>1. \A i \in Trab : /\ w[i] = Fora /\ DOMAIN w[i] = Campos /\ w[i].pc = "fora" /\ w[i].cnt = 0
                      /\ w[i].dl = 0 /\ w[i].modo = "none"
  BY DEF Init, Fora, Campos
<1>2. /\ pai.at = "parado" /\ pai.n = 0 /\ pai.prazo = 0 /\ pai.parou = FALSE
      /\ pai.desde = [i \in Trab |-> 0] /\ DOMAIN pai = CamposDoPai
  BY DEF Init, Parado, CamposDoPai
<1>3. /\ DOMAIN w = Trab /\ DOMAIN mm = {"dl", "feito"} /\ mm.dl = 0 /\ agora = 0
      /\ DOMAIN bar = {"n", "quebrada"} /\ bar.n = 0 /\ bar.quebrada = FALSE
  BY DEF Init, NoMem
<1>4. Tipos
  <2>0. pai.parou \in BOOLEAN /\ bar.quebrada \in BOOLEAN
    BY <1>2, <1>3, Zenon
  <2>1. TiposPai
    BY <1>2, <2>0 DEF TiposPai
  <2>2. TiposTrab
    BY <1>1, <1>3 DEF TiposTrab
  <2>3. TiposMem
    BY <1>3, <2>0 DEF TiposMem
  <2> QED
    BY <2>1, <2>2, <2>3 DEF Tipos
<1>5. Lancados /\ ContadoOK /\ PrazoOK
  BY <1>1 DEF Lancados, ContadoOK, PrazoOK
<1>6. BarreiraOK /\ ProntosOK
  BY <1>2, <1>3, PassedAreFinite DEF BarreiraOK, ProntosOK
<1>7. CurvaOK /\ PassosOK
  BY <1>2 DEF CurvaOK, PassosOK
<1> QED
  BY <1>4, <1>5, <1>6, <1>7 DEF CInv

LEMMA LaunchKeeps ==
    ASSUME CInv, NEW modo, NEW n, Lanca(modo, n), agora' = agora, DOMAIN pai' = CamposDoPai
    PROVE  CInv'
<1>1. \A i \in Trab : /\ DOMAIN w'[i] = Campos /\ w'[i].cnt = 0 /\ w'[i].dl = 0
                      /\ w'[i].pc = (IF i < n THEN "abre" ELSE "fora")
                      /\ i < n => w'[i].modo = modo
  BY DEF Lanca, Fora, Campos
<1>2. n \in Nat \ {0} /\ pai'.n = n /\ pai'.at = "prontos" /\ pai'.parou = FALSE
  BY WorkerNumbers DEF Lanca
<1>3. /\ DOMAIN w' = Trab /\ DOMAIN mm' = {"dl", "feito"} /\ mm'.dl = 0
      /\ DOMAIN bar' = {"n", "quebrada"} /\ bar'.n = 0 /\ bar'.quebrada = FALSE
  BY DEF Lanca, NoMem
<1>4. Tipos'
  <2>1. TiposPai'
    BY <1>2 DEF Lanca, TiposPai
  <2>2. TiposTrab'
    BY <1>1, <1>3 DEF TiposTrab
  <2>0. bar'.quebrada \in BOOLEAN
    BY <1>3, Zenon
  <2>3. TiposMem'
    BY <1>3, <2>0 DEF CInv, Tipos, TiposMem
  <2> QED
    BY <2>1, <2>2, <2>3 DEF Tipos
<1>5. Lancados'
  BY <1>1, <1>2, WorkerNumbers DEF Lancados
<1>6. ContadoOK' /\ PrazoOK'
  BY <1>1 DEF ContadoOK, PrazoOK
<1>7. BarreiraOK' /\ ProntosOK'
  <2>1. Passaram' \subseteq Trab
    BY DEF Passaram
  <2>0. Cardinality(Passaram)' \in Nat
    BY <2>1, WorkerNumbers, FS_Subset, FS_CardinalityType
  <2>2. \A i \in Trab : w'[i].pc \notin Atras
    BY <1>1 DEF Atras
  <2> QED
    BY <1>3, <2>0, <2>2 DEF BarreiraOK, ProntosOK
<1>8. CurvaOK' /\ PassosOK'
  BY <1>2 DEF CurvaOK, PassosOK
<1> QED
  BY <1>4, <1>5, <1>6, <1>7, <1>8 DEF CInv

LEMMA GoesOnKeeps ==
    ASSUME CInv, Segue, agora' = agora, DOMAIN pai' = CamposDoPai
    PROVE  CInv'
<1>1. Tipos'
  BY DEF CInv, Segue, Tipos, TiposPai, TiposTrab, TiposMem
<1>2. Lancados' /\ ContadoOK' /\ PrazoOK'
  BY DEF CInv, Segue, Lancados, ContadoOK, PrazoOK
<1>3. BarreiraOK' /\ ProntosOK'
  BY DEF CInv, Segue, BarreiraOK, ProntosOK, Passaram, Marcado, EmPreparo
<1>4. CurvaOK' /\ PassosOK'
  BY DEF CInv, Segue, CurvaOK, PassosOK, PassosDe, EmPreparo
<1> QED
  BY <1>1, <1>2, <1>3, <1>4 DEF CInv

LEMMA DeadlineKeeps ==
    ASSUME CInv, Marca, agora' = agora, DOMAIN pai' = CamposDoPai
    PROVE  CInv'
<1>1. /\ \A i \in Trab : w[i].pc \notin Atras
      /\ ~pai.parou
  BY DEF CInv, Marca, ProntosOK, CurvaOK
<1>2. Tipos'
  <2>1. TiposPai'
    BY DEF CInv, Marca, Tipos, TiposPai
  <2>2. TiposTrab'
    BY DEF CInv, Marca, Tipos, TiposTrab
  <2>3. TiposMem'
    BY DEF CInv, Marca, Tipos, TiposMem
  <2> QED
    BY <2>1, <2>2, <2>3 DEF Tipos
<1>3. Lancados' /\ ContadoOK'
  BY DEF CInv, Marca, Lancados, ContadoOK
<1>4. PrazoOK'
  BY <1>1 DEF Marca, PrazoOK, Atras
<1>5. BarreiraOK' /\ ProntosOK'
  BY DEF Marca, BarreiraOK, ProntosOK, Marcado, EmPreparo
<1>6. CurvaOK' /\ PassosOK'
  BY <1>1 DEF CInv, Marca, CurvaOK, PassosOK, EmPreparo
<1> QED
  BY <1>2, <1>3, <1>4, <1>5, <1>6 DEF CInv

LEMMA StopKeeps ==
    ASSUME CInv, Para, agora' = agora, DOMAIN pai' = CamposDoPai
    PROVE  CInv'
<1>1. agora \in Nat /\ \A i \in Trab : w[i].cnt \in Nat
  BY DEF CInv, Tipos, TiposTrab, TiposMem
<1>2. Tipos'
  <2>1. TiposPai'
    BY <1>1 DEF CInv, Para, Tipos, TiposPai
  <2>2. TiposTrab'
    BY DEF CInv, Para, Tipos, TiposTrab
  <2>3. TiposMem'
    BY <1>1 DEF CInv, Para, Tipos, TiposMem
  <2> QED
    BY <2>1, <2>2, <2>3 DEF Tipos
<1>3. Lancados' /\ ContadoOK' /\ PrazoOK'
  BY DEF CInv, Para, Lancados, ContadoOK, PrazoOK
<1>4. BarreiraOK' /\ ProntosOK'
  BY DEF Para, BarreiraOK, ProntosOK, Marcado
<1>5. CurvaOK'
  BY <1>1 DEF CInv, Para, CurvaOK, EmPreparo
<1>6. PassosOK'
  <2> SUFFICES ASSUME NEW i \in Trab PROVE PassosDe(w[i], pai.desde[i])'
    BY DEF PassosOK
  <2>1. w'[i] = w[i] /\ pai'.desde[i] = w[i].cnt /\ w[i].cnt \in Nat
    BY <1>1 DEF Para
  <2>2. Passo \in Nat \ {0} /\ w[i].cnt % Passo \in Nat
    BY <2>1, WorkerNumbers, NextRemainder
  <2>3. w[i].pc = "decide" => (w[i].cnt - 1) % Passo \in Nat
    <3>1. w[i].pc = "decide" => w[i].cnt - 1 \in Nat
      BY <2>1 DEF CInv, ContadoOK
    <3> QED
      BY <2>2, <3>1, NextRemainder
  <2> QED
    BY <2>1, <2>2, <2>3 DEF PassosDe
<1> QED
  BY <1>2, <1>3, <1>4, <1>5, <1>6 DEF CInv

----------------------------------------------------------------------------
(***************************************************************************)
(* The steps of a worker. The others stay as they are, so only worker i has *)
(* to be looked at.                                                        *)
(***************************************************************************)
LEMMA OnlyOneWalks ==
    ASSUME CInv, NEW i \in Trab, NEW x, Trabalha(i, x)
    PROVE  /\ w'[i] = x /\ \A j \in Trab \ {i} : w'[j] = w[j]
           /\ DOMAIN w' = Trab
           /\ pai' = pai /\ agora' = agora /\ mm'.dl = mm.dl
           /\ w[i].pc # "fora" /\ x.modo = w[i].modo
           /\ EmPreparo' = EmPreparo /\ Marcado' = Marcado
<1>1. w'[i] = x /\ (\A j \in Trab \ {i} : w'[j] = w[j]) /\ DOMAIN w' = Trab
  BY DEF Trabalha, Anda, CInv, Tipos, TiposTrab
<1>2. pai' = pai /\ agora' = agora /\ mm'.dl = mm.dl /\ x.modo = w[i].modo
  BY DEF Trabalha, Anda
<1>3. w[i].pc # "fora"
  BY DEF Trabalha, Quieto, Chega, Passa, Morre, Bloco, Decide
<1>4. EmPreparo' = EmPreparo
  BY <1>1, <1>2, WorkerNumbers DEF EmPreparo
<1>5. Marcado' = Marcado
  BY <1>2, <1>4 DEF Marcado
<1> QED
  BY <1>1, <1>2, <1>3, <1>4, <1>5

LEMMA WalkTypes ==
    ASSUME CInv, NEW i \in Trab, NEW x, Trabalha(i, x)
    PROVE  Tipos' /\ Lancados' /\ CurvaOK' /\ ContadoOK'
<1>1. /\ w'[i] = x /\ \A j \in Trab \ {i} : w'[j] = w[j]
      /\ DOMAIN w' = Trab /\ pai' = pai /\ agora' = agora /\ mm'.dl = mm.dl
      /\ w[i].pc # "fora" /\ x.modo = w[i].modo /\ EmPreparo' = EmPreparo
  BY OnlyOneWalks
<1>2. w[i].cnt \in Nat /\ w[i].dl \in Int /\ mm.dl \in Int
  BY DEF CInv, Tipos, TiposTrab, TiposMem
<1>3. DOMAIN x = Campos /\ x.cnt \in Nat /\ x.dl \in Int
  BY <1>2 DEF Trabalha, Anda, Quieto, Chega, Passa, Morre, Bloco, Decide
<1>4. Tipos'
  <2>1. TiposPai'
    BY <1>1 DEF CInv, Tipos, TiposPai
  <2>2. TiposTrab'
    BY <1>1, <1>3 DEF CInv, Tipos, TiposTrab
  <2>3. bar'.n \in Nat /\ DOMAIN bar' = {"n", "quebrada"} /\ bar'.quebrada \in BOOLEAN
    <3>1. bar' \in {bar, [bar EXCEPT !.n = @ + 1], [bar EXCEPT !.quebrada = TRUE]}
      BY DEF Trabalha, Quieto, Chega, Passa, Morre, Bloco, Decide
    <3>2. DOMAIN bar = {"n", "quebrada"} /\ bar.n \in Nat /\ bar.quebrada \in BOOLEAN
      BY DEF CInv, Tipos, TiposMem
    <3>3. bar'.n \in {bar.n, bar.n + 1} /\ DOMAIN bar' = {"n", "quebrada"}
      BY <3>1, <3>2
    <3>4. bar'.quebrada \in {bar.quebrada, TRUE}
      BY <3>1, <3>2
    <3>5. bar'.quebrada \in BOOLEAN
      BY <3>2, <3>4, Zenon
    <3> QED
      BY <3>2, <3>3, <3>5
  <2>4. TiposMem'
    BY <1>1, <2>3 DEF CInv, Tipos, TiposMem, Trabalha, Anda
  <2> QED
    BY <2>1, <2>2, <2>4 DEF Tipos
<1>5. Lancados'
  BY <1>1, WorkerNumbers DEF CInv, Lancados
<1>6. CurvaOK'
  BY <1>1 DEF CInv, CurvaOK
<1>7. ContadoOK'
  <2>1. /\ x.pc = "decide" => x.cnt > 0
        /\ x.pc \in {"fora", "abre", "espera", "barreira", "morto"} => x.cnt = 0
    BY <1>2 DEF CInv, ContadoOK, Trabalha, Quieto, Chega, Passa, Morre, Bloco, Decide
  <2> QED
    BY <1>1, <2>1 DEF CInv, ContadoOK
<1> QED
  BY <1>4, <1>5, <1>6, <1>7

\* A worker that arrives is counted among those that have passed.
LEMMA WalkBarrier ==
    ASSUME CInv, NEW i \in Trab, NEW x, Trabalha(i, x)
    PROVE  /\ BarreiraOK' /\ ProntosOK'
           /\ Passa(i, x) => Marcado
<1>1. /\ w'[i] = x /\ \A j \in Trab \ {i} : w'[j] = w[j]
      /\ pai' = pai /\ Marcado' = Marcado
  BY OnlyOneWalks
<1>2. /\ bar.n \in Nat /\ pai.n \in Nat /\ DOMAIN bar = {"n", "quebrada"}
      /\ Cardinality(Passaram) \in Nat /\ Cardinality(Passaram) <= pai.n
  BY PassedAreFinite, AtMostNPassed DEF CInv, Tipos, TiposPai, TiposMem
<1>3. Passa(i, x) => ~(bar.n <= Cardinality(Passaram))
  BY <1>2 DEF Passa
<1>4. bar'.n <= Cardinality(Passaram') \/ ~(bar.n <= Cardinality(Passaram))
  <2>1. Passaram \subseteq Passaram' /\ Passaram' \subseteq Trab
    <3>1. w[i].pc \notin {"fora", "abre", "espera"} => x.pc \notin {"fora", "abre", "espera"}
      BY DEF Trabalha, Quieto, Chega, Passa, Morre, Bloco, Decide
    <3> QED
      BY <1>1, <3>1 DEF Passaram
  <2>2. IsFiniteSet(Passaram') /\ Cardinality(Passaram') \in Nat
    BY <2>1, WorkerNumbers, FS_Subset, FS_CardinalityType
  <2>3. Cardinality(Passaram) <= Cardinality(Passaram')
    BY <2>1, <2>2, FS_Subset
  <2>4. CASE Chega(i, x)
    <3>1. i \notin Passaram /\ Passaram' = Passaram \cup {i}
      BY <1>1, <2>4 DEF Chega, Passaram
    <3>2. Cardinality(Passaram') = Cardinality(Passaram) + 1
      BY <3>1, PassedAreFinite, FS_AddElement
    <3>3. bar'.n = bar.n + 1
      BY <1>2, <2>4 DEF Chega
    <3> QED
      BY <1>2, <3>2, <3>3
  <2>5. CASE ~Chega(i, x)
    <3>1. bar'.n = bar.n
      BY <1>2, <2>5 DEF Trabalha, Quieto, Passa, Morre, Bloco, Decide
    <3> QED
      BY <1>2, <2>2, <2>3, <3>1
  <2> QED
    BY <2>4, <2>5
<1>5. BarreiraOK' /\ (Passa(i, x) => Marcado)
  BY <1>1, <1>3, <1>4 DEF CInv, BarreiraOK
<1>6. ProntosOK'
  <2>1. x.pc \in Atras => w[i].pc \in Atras \/ Passa(i, x)
    BY DEF Atras, Trabalha, Quieto, Chega, Morre, Bloco, Decide
  <2> QED
    BY <1>1, <1>3, <1>4, <2>1 DEF CInv, ProntosOK
<1> QED
  BY <1>5, <1>6

LEMMA WalkDeadline ==
    ASSUME CInv, NEW i \in Trab, NEW x, Trabalha(i, x)
    PROVE  PrazoOK'
<1>1. /\ w'[i] = x /\ \A j \in Trab \ {i} : w'[j] = w[j]
      /\ pai' = pai /\ agora' = agora /\ mm'.dl = mm.dl /\ x.modo = w[i].modo /\ w[i].pc # "fora"
  BY OnlyOneWalks
<1>2. Passa(i, x) /\ ~pai.parou /\ x.modo # "preparar" => mm.dl = pai.prazo
  BY <1>1, WalkBarrier DEF CInv, Lancados, Marcado, EmPreparo
<1>3. ASSUME x.pc \in {"bloco", "decide", "fecha"}, x.modo # "preparar", ~pai.parou
      PROVE  /\ x.dl = pai.prazo /\ mm.dl = pai.prazo
             /\ x.pc = "fecha" => agora >= pai.prazo
  <2>1. CASE Passa(i, x)
    BY <1>2, <1>3, <2>1 DEF Passa
  <2>2. CASE ~Passa(i, x)
    <3>1. w[i].pc \in {"bloco", "decide", "fecha"}
      BY <1>3, <2>2 DEF Trabalha, Quieto, Chega, Morre, Bloco, Decide
    <3>2. w[i].dl = pai.prazo /\ mm.dl = pai.prazo
      BY <1>1, <1>3, <3>1 DEF CInv, PrazoOK
    <3> QED
      BY <1>1, <1>3, <2>2, <3>2 DEF Trabalha, Quieto, Chega, Morre, Bloco, Decide
  <2> QED
    BY <2>1, <2>2
<1> QED
  BY <1>1, <1>3 DEF CInv, PrazoOK

\* Two rounds of Passo blocks at most, after the deadline is in the past.
LEMMA WalkRounds ==
    ASSUME CInv, NEW i \in Trab, NEW x, Trabalha(i, x)
    PROVE  PassosOK'
<1>1. /\ w'[i] = x /\ \A j \in Trab \ {i} : w'[j] = w[j]
      /\ pai' = pai /\ agora' = agora /\ x.modo = w[i].modo /\ w[i].pc # "fora"
  BY OnlyOneWalks
<1> SUFFICES ASSUME pai.parou PROVE PassosDe(x, pai.desde[i])
  BY <1>1 DEF CInv, PassosOK, PassosDe
<1> DEFINE c == w[i].cnt
           d == pai.desde[i]
<1>2. /\ c \in Nat /\ d \in Nat /\ w[i].dl \in Int /\ mm.dl \in Int /\ agora \in Nat /\ Passo \in Nat \ {0}
      /\ mm.dl < agora /\ w[i].modo # "preparar" /\ PassosDe(w[i], d)
      /\ w[i].pc = "decide" => c > 0
      /\ w[i].pc = "barreira" => c = 0
  BY <1>1, WorkerNumbers
  DEF CInv, Tipos, TiposPai, TiposTrab, TiposMem, CurvaOK, Lancados, EmPreparo, PassosOK, ContadoOK
<1>3. c % Passo \in 0..(Passo - 1)
  BY <1>2, NextRemainder
<1>4. c > 0 => /\ (c - 1) % Passo \in 0..(Passo - 1)
               /\ c % Passo # 0 => c % Passo = ((c - 1) % Passo) + 1
  BY <1>2, RemainderBefore
<1> HIDE DEF c, d
<1>5. CASE Quieto(i, x) \/ Chega(i, x) \/ Morre(i, x)
  <2>1. x.pc = "bloco" => w[i].pc = "bloco" /\ x.cnt = c /\ x.dl = w[i].dl
    BY <1>5 DEF Quieto, Chega, Morre, c
  <2>2. x.pc # "decide" /\ x.cnt \in {0, c}
    BY <1>5 DEF Quieto, Chega, Morre, c
  <2> QED
    BY <1>2, <2>1, <2>2 DEF PassosDe, c, d
<1>6. CASE Passa(i, x)
  <2>1. x.pc = "bloco" /\ x.cnt = 0 /\ c = 0
    BY <1>2, <1>6 DEF Passa, c
  <2> QED
    BY <1>2, <1>3, <2>1 DEF PassosDe, d
<1>7. CASE Bloco(i, x)
  <2>1. /\ x.cnt = c + 1 /\ x.cnt - 1 = c /\ x.pc = "decide" /\ x.dl = w[i].dl
        /\ \/ c - d <= c % Passo
           \/ w[i].dl < agora /\ c - d <= Passo + (c % Passo)
    BY <1>2, <1>7 DEF Bloco, PassosDe, c
  <2> QED
    BY <1>2, <1>3, <2>1 DEF PassosDe, d
<1>8. CASE Decide(i, x)
  <2>1. /\ x.cnt = c /\ c > 0 /\ c <= d + 2 * Passo
        /\ \/ c - d <= ((c - 1) % Passo) + 1
           \/ w[i].dl < agora /\ c - d <= Passo + ((c - 1) % Passo) + 1
    BY <1>2, <1>8 DEF Decide, PassosDe, c
  <2>2. CASE x.pc = "fecha"
    BY <2>1, <2>2 DEF PassosDe, d
  <2>3. CASE x.pc = "bloco" /\ c % Passo # 0
    <3>1. x.dl = w[i].dl
      BY <1>8, <2>3 DEF Decide, c
    <3>2. c % Passo = ((c - 1) % Passo) + 1
      BY <1>4, <2>1, <2>3
    <3>3. x.cnt - d <= x.cnt % Passo \/ (x.dl < agora /\ x.cnt - d <= Passo + (x.cnt % Passo))
      BY <1>2, <1>3, <1>4, <2>1, <3>1, <3>2
    <3> QED
      BY <2>1, <2>3, <3>3 DEF PassosDe, d
  <2>4. CASE x.pc = "bloco" /\ c % Passo = 0
    <3>1. x.dl = mm.dl /\ ~(agora >= w[i].dl)
      BY <1>2, <1>8, <2>4 DEF Decide, c
    <3>2. (c - 1) % Passo \in Int /\ ((c - 1) % Passo) + 1 <= Passo
      BY <1>2, <1>4, <2>1
    <3>3. c - d <= Passo
      BY <1>2, <2>1, <3>1, <3>2
    <3>4. x.dl < agora /\ x.cnt - d <= Passo + (x.cnt % Passo)
      BY <1>2, <2>1, <2>4, <3>1, <3>3
    <3> QED
      BY <2>1, <2>4, <3>4 DEF PassosDe, d
  <2> QED
    BY <1>8, <2>2, <2>3, <2>4 DEF Decide
<1> QED
  BY <1>5, <1>6, <1>7, <1>8 DEF Trabalha

----------------------------------------------------------------------------
\* A step that changes only the messages and the locks.
LEMMA StillKeeps ==
    ASSUME CInv, UNCHANGED <<pai, w, mm, bar, agora>>
    PROVE  CInv'
BY DEF CInv, Tipos, TiposPai, TiposTrab, TiposMem, Lancados, ContadoOK, BarreiraOK,
       ProntosOK, Passaram, Marcado, EmPreparo, PrazoOK, CurvaOK, PassosOK, PassosDe

LEMMA CapacityNext ==
    ASSUME CInv, [Next]_vars
    PROVE  CInv'
<1>1. CASE executar_io \/ Tempo
  <2>1. Tipos /\ (pai.at \in {"preparar", "curva"} => ~pai.parou)
    BY DEF CInv, CurvaOK
  <2>2. /\ agora' = agora /\ DOMAIN pai' = CamposDoPai
        /\ (\E modo, n : Lanca(modo, n)) \/ Segue \/ Marca \/ Para
    BY <1>1, <2>1, ParentStep
  <2> QED
    BY <2>2, LaunchKeeps, GoesOnKeeps, DeadlineKeeps, StopKeeps
<1>2. CASE Tic
  <2>1. /\ UNCHANGED <<pai, w, mm, bar>> /\ agora' = agora + 1 /\ agora \in Nat
        /\ mm.dl \in Int /\ pai.prazo \in Nat /\ \A i \in Trab : w[i].dl \in Int
    BY <1>2 DEF Tic, CInv, Tipos, TiposPai, TiposTrab, TiposMem
  <2>2. Tipos' /\ Lancados' /\ ContadoOK'
    BY <2>1 DEF CInv, Tipos, TiposPai, TiposTrab, TiposMem, Lancados, ContadoOK
  <2>3. BarreiraOK' /\ ProntosOK'
    BY <2>1 DEF CInv, BarreiraOK, ProntosOK, Passaram, Marcado, EmPreparo
  <2>4. PrazoOK' /\ CurvaOK'
    BY <2>1 DEF CInv, PrazoOK, CurvaOK, EmPreparo
  <2>5. PassosOK'
    BY <2>1 DEF CInv, PassosOK, PassosDe
  <2> QED
    BY <2>2, <2>3, <2>4, <2>5 DEF CInv
<1>3. CASE \E i \in Trab : worker(i) \/ TempoBarreira(i) \/ Falhar(i) \/ Morrer(i)
  <2>1. PICK i \in Trab : worker(i) \/ TempoBarreira(i) \/ Falhar(i) \/ Morrer(i)
    BY <1>3
  <2>2. (\E x : Trabalha(i, x)) \/ UNCHANGED <<pai, w, mm, bar, agora>>
    BY <2>1, WorkerStep DEF CInv
  <2>3. CASE \E x : Trabalha(i, x)
    <3>1. PICK x : Trabalha(i, x)
      BY <2>3
    <3> QED
      BY <3>1, WalkTypes, WalkBarrier, WalkDeadline, WalkRounds DEF CInv
  <2> QED
    BY <2>2, <2>3, StillKeeps
<1>4. CASE UNCHANGED vars
  <2>1. UNCHANGED <<pai, w, mm, bar, agora>>
    BY <1>4 DEF vars
  <2> QED
    BY <2>1, StillKeeps
<1> QED
  BY <1>1, <1>2, <1>3, <1>4 DEF Next

\* A worker never stops before the deadline of the test unless the parent has
\* stopped the test, and after that it does at most 2 * Passo blocks: with any
\* number of workers, of which any number die (trabalhador_sust,
\* modo_io_comp_worker, executar_io and condicao_parada of capacidade_local.py).
THEOREM WorkersStopForTheDeadline == Spec => []StopsForTheDeadline
<1>1. Init => CInv
  BY CapacityInit
<1>2. CInv /\ [Next]_vars => CInv'
  BY CapacityNext
<1>3. CInv => StopsForTheDeadline
  <2> SUFFICES ASSUME CInv PROVE StopsForTheDeadline
    OBVIOUS
  <2>1. \A i \in Trab : w[i].pc = "fecha" /\ w[i].modo # "preparar" => pai.parou \/ agora >= pai.prazo
    BY DEF CInv, PrazoOK
  <2>2. \A i \in Trab : pai.parou => w[i].cnt <= pai.desde[i] + 2 * Passo
    BY DEF CInv, PassosOK, PassosDe
  <2> QED
    BY <2>1, <2>2 DEF StopsForTheDeadline
<1> QED
  BY <1>1, <1>2, <1>3, PTL DEF Spec

(***************************************************************************)
(* Induction. The library's theorems of induction take an operator; a set   *)
(* of numbers says the same, and a set can be a parameter of a lemma.       *)
(***************************************************************************)
\* A set of naturals has a least one.
LEMMA LeastNatural ==
    ASSUME NEW T, T \subseteq Nat, T # {}
    PROVE  \E x \in T : \A y \in T : x <= y
<1> DEFINE R == {p \in Nat \X Nat : p[1] < p[2]}
<1>1. IsWellFoundedOn(R, Nat)
  BY NatLessThanWellFounded DEF OpToRel
<1> HIDE DEF R
<1>2. PICK x \in T : \A y \in T : ~ (<<y, x>> \in R)
  BY <1>1, WFMin
<1>3. \A y \in T : x \in Nat /\ y \in Nat /\ (y < x => <<y, x>> \in R)
  BY DEF R
<1>4. \A y \in T : ~(y < x) /\ x \in Nat /\ y \in Nat
  BY <1>2, <1>3
<1> QED
  BY <1>4

LEMMA SetInduction ==
    ASSUME NEW S, 0 \in S, \A n \in Nat : n \in S => n + 1 \in S
    PROVE  Nat \subseteq S
<1> SUFFICES ASSUME Nat \ S # {} PROVE FALSE
  OBVIOUS
<1>1. PICK x \in Nat \ S : \A y \in Nat \ S : x <= y
  BY LeastNatural
<1>2. x # 0 /\ x - 1 \in Nat /\ ~(x <= x - 1) /\ (x - 1) + 1 = x
  BY <1>1
<1> QED
  BY <1>1, <1>2

LEMMA MaxOf ==
    ASSUME NEW n \in Nat, NEW ss \in SUBSET (1..n), ss # {}
    PROVE  /\ Max(ss) \in ss
           /\ \A m \in ss : (\A y \in ss : y <= m) => Max(ss) = m
<1>1. \E x \in ss : \A y \in ss : x >= y
  <2> DEFINE T == {k \in Nat : \A y \in ss : y <= k}
  <2>1. n \in T
    OBVIOUS
  <2>2. PICK k \in T : \A y \in T : k <= y
    <3> HIDE DEF T
    <3>1. T \subseteq Nat /\ T # {}
      BY <2>1 DEF T
    <3> QED
      BY <3>1, LeastNatural
  <2>3. k \in ss
    <3> SUFFICES ASSUME k \notin ss PROVE FALSE
      OBVIOUS
    <3>0. PICK z \in ss : TRUE
      OBVIOUS
    <3>1. k # 0 /\ k \in Nat
      <4>1. z \in Nat /\ z >= 1 /\ z <= k /\ k \in Nat
        BY <2>2, <3>0
      <4> QED
        BY <4>1
    <3>2. k - 1 \in Nat /\ \A y \in ss : y <= k - 1
      BY <2>2, <3>1
    <3> QED
      BY <2>2, <3>1, <3>2
  <2> QED
    BY <2>2, <2>3
<1>2. Max(ss) \in ss /\ \A y \in ss : Max(ss) >= y
  BY <1>1 DEF Max
<1>3. ASSUME NEW m \in ss, \A y \in ss : y <= m PROVE Max(ss) = m
  <2>0. m \in 1..n /\ Max(ss) \in 1..n
    BY <1>2
  <2>1. Max(ss) <= m /\ Max(ss) >= m
    BY <1>2, <1>3
  <2> QED
    BY <2>0, <2>1
<1> QED
  BY <1>2, <1>3

LEMMA MaxOfPrefix ==
    ASSUME NEW m \in Nat
    PROVE  Max(1..(m + 1)) = m + 1 /\ (1..(m + 1)) \ {m + 1} = 1..m /\ 1..0 = {} /\ 1..(m + 1) # {}
<1>1. m + 1 \in 1..(m + 1) /\ \A y \in 1..(m + 1) : y <= m + 1
  OBVIOUS
<1>2. Max(1..(m + 1)) = m + 1
  <2>1. m + 1 \in Nat /\ 1..(m + 1) # {}
    BY <1>1
  <2> QED
    BY <1>1, <2>1, MaxOf
<1> QED
  BY <1>1, <1>2

\* Op[<<a, i>>]: the value a, after element i.
Passos(g, b, Op, n) ==
    g = [ss \in SUBSET (1..n) |-> IF ss = {} THEN b ELSE Op[<<g[ss \ {Max(ss)}], Max(ss)>>]]

LEMMA FoldIsDefined ==
    ASSUME NEW A, NEW b \in A, NEW n \in Nat, NEW Op \in [A \X (1..n) -> A]
    PROVE  \E g \in [SUBSET (1..n) -> A] : Passos(g, b, Op, n)
<1> DEFINE P(k) == k <= n => \E g \in [SUBSET (1..k) -> A] : Passos(g, b, Op, k)
           S == {k \in Nat : P(k)}
<1>1. P(0)
  <2> DEFINE g == [ss \in SUBSET (1..0) |-> b]
  <2>1. SUBSET (1..0) = {{}}
    OBVIOUS
  <2>2. g \in [SUBSET (1..0) -> A] /\ Passos(g, b, Op, 0)
    BY <2>1 DEF Passos
  <2> QED
    BY <2>2
<1>2. ASSUME NEW k \in Nat, P(k) PROVE P(k + 1)
  <2> SUFFICES ASSUME k + 1 <= n
               PROVE  \E h \in [SUBSET (1..(k + 1)) -> A] : Passos(h, b, Op, k + 1)
    OBVIOUS
  <2>0. k <= n
    OBVIOUS
  <2>1. PICK g \in [SUBSET (1..k) -> A] : Passos(g, b, Op, k)
    BY <1>2, <2>0, Zenon
  <2> DEFINE D == SUBSET (1..(k + 1))
             h == [ss \in D |-> IF k + 1 \in ss THEN Op[<<g[ss \ {k + 1}], k + 1>>] ELSE g[ss]]
  <2>2. \A ss \in D : /\ k + 1 \in ss => ss \ {k + 1} \in SUBSET (1..k) /\ Max(ss) = k + 1
                      /\ k + 1 \notin ss => ss \in SUBSET (1..k)
    <3> SUFFICES ASSUME NEW ss \in D
                 PROVE  /\ k + 1 \in ss => ss \ {k + 1} \in SUBSET (1..k) /\ Max(ss) = k + 1
                        /\ k + 1 \notin ss => ss \in SUBSET (1..k)
      OBVIOUS
    <3>1. k + 1 \in ss => Max(ss) = k + 1
      <4>1. \A y \in ss : y <= k + 1
        OBVIOUS
      <4>2. k + 1 \in Nat
        OBVIOUS
      <4> QED
        BY <4>1, <4>2, MaxOf
    <3>2. ss \subseteq (1..k) \cup {k + 1}
      OBVIOUS
    <3> QED
      BY <3>1, <3>2
  <2>3. \A a \in A : <<a, k + 1>> \in A \X (1..n)
    OBVIOUS
  <2>4. h \in [D -> A]
    BY <2>1, <2>2, <2>3
  <2>5. ASSUME NEW ss \in D
        PROVE  h[ss] = IF ss = {} THEN b ELSE Op[<<h[ss \ {Max(ss)}], Max(ss)>>]
    <3>1. CASE k + 1 \in ss
      <4>1. ss \ {k + 1} \in D /\ k + 1 \notin ss \ {k + 1} /\ ss # {} /\ Max(ss) = k + 1
        BY <2>2, <3>1
      <4>2. h[ss \ {k + 1}] = g[ss \ {k + 1}]
        BY <4>1
      <4> QED
        BY <3>1, <4>1, <4>2
    <3>2. CASE k + 1 \notin ss
      <4>1. ss \in SUBSET (1..k)
        BY <2>2, <3>2
      <4>2. g[ss] = IF ss = {} THEN b ELSE Op[<<g[ss \ {Max(ss)}], Max(ss)>>]
        BY <2>1, <4>1 DEF Passos
      <4>3. h[ss] = g[ss] /\ h[ss \ {Max(ss)}] = g[ss \ {Max(ss)}]
        <5>1. ss \ {Max(ss)} \in D /\ k + 1 \notin ss \ {Max(ss)}
          BY <3>2
        <5> QED
          BY <3>2, <5>1
      <4> QED
        BY <4>2, <4>3
    <3> QED
      BY <3>1, <3>2
  <2> HIDE DEF h
  <2>6. Passos(h, b, Op, k + 1)
    BY <2>4, <2>5 DEF Passos
  <2> QED
    BY <2>4, <2>6
<1> HIDE DEF P
<1>3. n \in S
  <2>1. 0 \in S /\ \A k \in Nat : k \in S => k + 1 \in S
    BY <1>1, <1>2
  <2> HIDE DEF S
  <2> QED
    BY <2>1, SetInduction
<1> QED
  <2>1. P(n) /\ n <= n
    BY <1>3
  <2> QED
    BY <2>1, Zenon DEF P

\* What a fold of op computes, when op is Op on A.
LEMMA FoldSteps ==
    ASSUME NEW A, NEW b \in A, NEW n \in Nat, NEW Op \in [A \X (1..n) -> A],
           NEW g, Passos(g, b, Op, n)
    PROVE  /\ g[1..0] = b
           /\ \A m \in 0..(n - 1) : g[1..(m + 1)] = Op[<<g[1..m], m + 1>>]
<1>1. g[1..0] = b
  <2>1. 1..0 = {} /\ {} \in SUBSET (1..n)
    OBVIOUS
  <2> QED
    BY <2>1 DEF Passos
<1>2. ASSUME NEW m \in 0..(n - 1) PROVE g[1..(m + 1)] = Op[<<g[1..m], m + 1>>]
  <2>1. 1..(m + 1) \in SUBSET (1..n) /\ m \in Nat
    OBVIOUS
  <2>2. Max(1..(m + 1)) = m + 1 /\ (1..(m + 1)) \ {m + 1} = 1..m /\ 1..(m + 1) # {}
    BY <2>1, MaxOfPrefix
  <2> QED
    BY <2>1, <2>2 DEF Passos
<1> QED
  BY <1>1, <1>2

LEMMA PrefixInduction ==
    ASSUME NEW n \in Nat, NEW S, 0 \in S, \A m \in 0..(n - 1) : m \in S => m + 1 \in S
    PROVE  0..n \subseteq S
<1> DEFINE T == {k \in Nat : k <= n => k \in S}
<1>1. 0 \in T
  OBVIOUS
<1>2. \A k \in Nat : k \in T => k + 1 \in T
  OBVIOUS
<1> HIDE DEF T
<1>3. Nat \subseteq T
  BY <1>1, <1>2, SetInduction
<1> QED
  BY <1>3 DEF T

----------------------------------------------------------------------------
(***************************************************************************)
(* Folds.                                                                  *)
(***************************************************************************)
\* What holds of the base of a fold and of each step holds of its result.
LEMMA FoldStays ==
    ASSUME NEW A, NEW n \in Nat, NEW g, g[1..0] \in A,
           \A m \in 0..(n - 1) : g[1..m] \in A => g[1..(m + 1)] \in A
    PROVE  g[1..n] \in A
<1> DEFINE S == {m \in 0..n : g[1..m] \in A}
<1>1. 0 \in S
  OBVIOUS
<1>2. \A m \in 0..(n - 1) : m \in S => m + 1 \in S
  OBVIOUS
<1> HIDE DEF S
<1>3. 0..n \subseteq S
  BY <1>1, <1>2, PrefixInduction
<1>4. n \in 0..n
  OBVIOUS
<1> QED
  BY <1>3, <1>4 DEF S

----------------------------------------------------------------------------
(***************************************************************************)
(* Frames. The places where the frames of blocks end are existential: what  *)
(* a file holds is said of any such places, and two sets of them agree.     *)
(***************************************************************************)
Modos == {"comp", "decomp", "decomp-grava", "sust"}
Ativos == {"espera", "barreira", "bloco", "decide", "fecha"}
Inicio(j) == regiao(j, NPrep)[1]
Quantos(j) == Fundo(j) - Inicio(j)

\* The first m frames of a file whose blocks are those after r end at P[1], P[2], ...
Gravado(s, P, r, m) ==
    /\ P \in [0..m -> Nat] /\ P[0] = 0
    /\ \A x \in 1..m :
          /\ P[x] = P[x - 1] + 2 + Clen[r + x] /\ P[x] <= Len(s) /\ P[x] <= x * (3 * B)
          /\ s[P[x - 1] + 1] = B /\ s[P[x - 1] + 2] = Clen[r + x]
          /\ SubSeq(s, P[x - 1] + 3, P[x]) = Comprimido(r + x)

Multiplo(n) == \E c \in Nat : n = c * B

\* A whole file: its frames, then padding up to a multiple of B.
Completo(s, j, P) ==
    /\ s \in Seq(Nat) /\ Multiplo(Len(s)) /\ Gravado(s, P, Inicio(j), Quantos(j))
    /\ \A y \in (P[Quantos(j)] + 1)..Len(s) : s[y] = 0
Inteiro(s, j) == \E P : Completo(s, j, P)
ArquivosOK == \A j \in 0..(NPrep - 1) : Inteiro(comp[j], j)

\* What has been given to a writer, in the file and in its buffer.
Escritores == [buf : Seq(Nat), arq : Seq(Nat), off : Nat, cap : Nat]
Escrito(e) == e.arq \o e.buf
EmDia(e) == e \in Escritores /\ e.off = Len(e.arq) /\ Multiplo(e.off) /\ Len(e.buf) < B

\* s is the frames of the m blocks after r, which is what the writer of a preparation
\* has been given.
Quadros(s, r, m) == \E P : Gravado(s, P, r, m) /\ P[m] = Len(s)
ComQuadros(e, r, m) == EmDia(e) /\ e.cap = CapPreparo /\ Quadros(Escrito(e), r, m)

Escrevendo(x, j) ==
    /\ x.pos \in Inicio(j)..Fundo(j)
    /\ x.pc \in {"espera", "barreira", "bloco"} => x.pos < Fundo(j)
    /\ x.pc \in {"decide", "fecha"} => x.pos > Inicio(j)
    /\ x.pc = "fecha" => x.pos = Fundo(j)
    /\ ComQuadros(x.e, Inicio(j), x.pos - Inicio(j))

\* The blocks of the files of worker i: those of file f come after the first Pre[f - 1].
Ordem(i, Pre) ==
    LET fds == Arquivos(i, NTeste)
        bs == Blocos(i, NTeste)
    IN  /\ Pre \in [0..Len(fds) -> Nat] /\ Pre[0] = 0 /\ Pre[Len(fds)] = Len(bs)
        /\ \A f \in 1..Len(fds) :
              /\ Pre[f] = Pre[f - 1] + Quantos(fds[f]) /\ Pre[f] <= Len(bs)
              /\ \A m \in 1..Quantos(fds[f]) : bs[Pre[f - 1] + m] = Inicio(fds[f]) + m

\* A reader with l is behind the first m frames of s.
Lugar(l, s, j, P, m) ==
    /\ Completo(s, j, P) /\ m \in 0..Quantos(j)
    /\ l.off \in P[m]..Len(s) /\ Multiplo(l.off)
    /\ l.pend = SubSeq(s, P[m] + 1, l.off)
    /\ l.fim_arq = (l.off = Len(s))

\* Its reader x has taken k rounds of all its blocks, the files before this one and m frames.
Posto(x, cs, i, Pre, P, m, k) ==
    /\ Ordem(i, Pre) /\ Lugar(x.l, cs[x.l.fds[x.l.f]], x.l.fds[x.l.f], P, m)
    /\ x.cnt = k * Len(Blocos(i, NTeste)) + Pre[x.l.f - 1] + m

Lendo(x, cs, i) ==
    /\ DOMAIN x.l = DOMAIN NoLeitor
    /\ x.l.fds = Arquivos(i, NTeste) /\ x.l.f \in 1..Len(x.l.fds)
    /\ \E Pre, P : \E m, k \in Nat : Posto(x, cs, i, Pre, P, m, k)
    /\ LET bs == Blocos(i, NTeste)
       IN  x.cnt > 0 => x.fr = Comprimido(bs[((x.cnt - 1) % Len(bs)) + 1])

----------------------------------------------------------------------------
(***************************************************************************)
(* The inductive invariant for the files. A worker of the preparation has   *)
(* been given the frames of its blocks so far, and its writer, whose cap it *)
(* never reaches, keeps them in the file and the buffer; when all n have    *)
(* answered, every file is whole, and it stays so until the directory goes. *)
(* A reader is behind the frames it has taken, which are those of its files *)
(* in order, some number of rounds of all of them before.                  *)
(***************************************************************************)
\* The workers of a preparation or of a test.
ModosOK ==
    /\ pai.plano \in Seq(Modos)
    /\ \A i \in Trab : /\ w[i].modo = IF i < pai.n THEN w[0].modo ELSE "none"
                      /\ w[i].pc \in Ativos \cup {"fora", "abre", "fim", "morto"}
    /\ EmPreparo => pai.n = NPrep /\ pai.at \in {"prontos", "barreira", "fins", "plano", "erro", "saindo", "fim"}
    /\ Le(w[0].modo) => pai.n = NTeste
    /\ pai.at \in {"parado", "preparar"} => pai.n = 0
    /\ pai.at \in {"prontos", "barreira", "curva", "fins"} => EmPreparo \/ pai.plano # <<>>

\* The answers: those received and those in the queue are of workers that have ended.
Resposta(i) == [msg |-> "fim", i |-> i, bytes |-> w[i].cnt]
Recebidos == {i \in Trab : w[i].pc = "fim" /\ Resposta(i) \notin fila}
RespostasOK ==
    /\ \A m \in fila : m.msg = "fim" => \E i \in Trab : w[i].pc = "fim" /\ m = Resposta(i)
    /\ pai.at \in {"prontos", "barreira", "curva", "fins"} =>
          /\ pai.resta \in 0..pai.n
          /\ Cardinality(Recebidos) = IF pai.at = "fins" THEN pai.n - pai.resta ELSE 0
    /\ pai.at = "curva" => pai.resta = pai.n

\* During the preparation, and in a test, and what its readers hold.
PreparoOK ==
    EmPreparo =>
        /\ \A i \in 0..(NPrep - 1) :
              /\ w[i].pc \in Ativos => Escrevendo(w[i], i)
              /\ w[i].pc = "fim" => Inteiro(comp[i], i)
        /\ pai.at = "plano" => Andam = {} /\ ArquivosOK

TesteOK == pasta /\ ~EmPreparo /\ pai.at \notin {"parado", "preparar"} => ArquivosOK

LeitoresOK ==
    \A i \in Trab : Le(w[i].modo) /\ w[i].pc \in Ativos => ArquivosOK /\ Lendo(w[i], comp, i)

DInv == CInv /\ DOMAIN comp = 0..(NPrep - 1) /\ ModosOK /\ RespostasOK /\ PreparoOK /\ TesteOK /\ LeitoresOK

----------------------------------------------------------------------------
(***************************************************************************)
(* Regions, and the files of a worker.                                     *)
(***************************************************************************)
LEMMA SizesOfCapacity ==
    /\ B \in Nat /\ B >= 2 /\ NBlocos \in Nat /\ NPrep \in Nat \ {0} /\ NTeste \in Nat \ {0}
    /\ NTeste <= NPrep /\ NBlocos # 0 /\ CapPreparo \in Nat
    /\ \A b \in 1..NBlocos : Clen[b] \in 1..(2 * B)
    /\ 0..(NPrep - 1) \subseteq Trab /\ 0..(NTeste - 1) \subseteq Trab
<1>1. /\ {B, NPrep, NTeste} \subseteq Nat \ {0} /\ B >= 2 /\ NTeste <= NPrep
      /\ Clen \in Seq(Nat) /\ Clen # <<>> /\ \A b \in DOMAIN Clen : Clen[b] \in 1..(2 * B)
  BY CapacityAssumption DEF CapacityAssumption
<1>2. NBlocos \in Nat /\ DOMAIN Clen = 1..NBlocos /\ NBlocos # 0
  BY <1>1 DEF NBlocos
<1>3. CapPreparo \in Nat
  <2>1. \A x, y \in Nat : 3 * x * y + 2 * x \in Nat
    OBVIOUS
  <2> QED
    BY <1>1, <1>2, <2>1 DEF CapPreparo
<1>4. 0..(NPrep - 1) \subseteq Trab /\ 0..(NTeste - 1) \subseteq Trab
  BY <1>1 DEF Trab, NMax
<1> QED
  BY <1>1, <1>2, <1>3, <1>4

\* Every file of the preparation has a block at least.
LEMMA Regions ==
    ASSUME NEW j \in 0..(NPrep - 1)
    PROVE  /\ Inicio(j) \in Nat /\ Fundo(j) \in Nat /\ Inicio(j) < Fundo(j) /\ Fundo(j) <= NBlocos
           /\ Quantos(j) \in Nat \ {0}
<1> DEFINE n == NPrep
           nb == NBlocos
           a == j * nb
           c == (j + 1) * nb
           p == a \div n
           q == c \div n
<1>1. n \in Nat \ {0} /\ nb \in Nat \ {0} /\ j \in Nat /\ j + 1 <= n
  BY SizesOfCapacity
<1> HIDE DEF n, nb
<1>2. a \in Nat /\ c \in Nat /\ c = a + nb
  BY <1>1
<1>3. c <= n * nb
  <2>1. \A x, y, z \in Nat : x <= y => x * z <= y * z
    OBVIOUS
  <2> QED
    BY <1>1, <2>1
<1> HIDE DEF a, c
<1>4. /\ p \in Int /\ a % n \in 0..(n - 1) /\ a = n * p + (a % n)
      /\ q \in Int /\ c % n \in 0..(n - 1) /\ c = n * q + (c % n)
  BY <1>1, <1>2
<1>5. PICK r, t \in 0..(n - 1) : a = n * p + r /\ c = n * q + t
  BY <1>4
<1> HIDE DEF p, q
<1>6. p >= 0
  <2> SUFFICES ASSUME p <= -1 PROVE FALSE
    BY <1>4
  <2>1. n * p <= -n /\ n * p \in Int
    BY <1>1, <1>4
  <2> DEFINE z == n * p
  <2> HIDE DEF z
  <2>2. z <= -n /\ z \in Int /\ a = z + r
    BY <1>5, <2>1 DEF z
  <2> QED
    BY <1>1, <1>2, <2>2
<1>7. p < nb
  <2> SUFFICES ASSUME nb <= p PROVE FALSE
    BY <1>1, <1>4
  <2>1. n * nb <= n * p
    BY <1>1, <1>4
  <2>2. n * nb \in Int /\ n * p \in Int
    BY <1>1, <1>4
  <2> DEFINE y == n * nb
             z == n * p
  <2> HIDE DEF y, z
  <2>3. y <= z /\ y \in Int /\ z \in Int /\ c <= y /\ a = z + r
    BY <1>3, <1>5, <2>1, <2>2 DEF y, z
  <2> QED
    BY <1>1, <1>2, <2>3
<1>8. q <= nb
  <2> SUFFICES ASSUME q >= nb + 1 PROVE FALSE
    BY <1>1, <1>4
  <2>1. n * q >= n * (nb + 1)
    BY <1>1, <1>4
  <2>2. n * (nb + 1) = n * nb + n /\ n * nb \in Int /\ n * q \in Int
    BY <1>1, <1>4
  <2> DEFINE y == n * nb
             z == n * q
  <2> HIDE DEF y, z
  <2>3. z >= y + n /\ y \in Int /\ z \in Int /\ c <= y /\ c = z + t
    BY <1>3, <1>5, <2>1, <2>2 DEF y, z
  <2> QED
    BY <1>1, <1>2, <2>3
<1>9. Inicio(j) = p /\ Fundo(j) = IF q > p THEN q ELSE p + 1
  BY DEF Inicio, Fundo, regiao, p, q, a, c, n, nb
<1> QED
  BY <1>1, <1>4, <1>6, <1>7, <1>8, <1>9 DEF Quantos, nb

LEMMA RegionEnd ==
    ASSUME NEW j \in 0..(NPrep - 1)
    PROVE  regiao(j, NPrep)[2] \in Int
<1> DEFINE c == (j + 1) * NBlocos
<1>1. c \in Int /\ NPrep \in Nat \ {0}
  BY SizesOfCapacity
<1>2. regiao(j, NPrep)[2] = c \div NPrep
  BY DEF regiao
<1> HIDE DEF c
<1> QED
  BY <1>1, <1>2

LEMMA Division ==
    ASSUME NEW a \in Nat, NEW n \in Nat \ {0}
    PROVE  /\ a \div n \in Nat /\ (a \div n) * n \in Nat
           /\ (a \div n) * n <= a /\ a - (a \div n) * n < n
<1> DEFINE q == a \div n
<1>1. q \in Int /\ \E r \in 0..(n - 1) : a = n * q + r
  <2>1. q \in Int /\ a % n \in 0..(n - 1) /\ a = n * q + (a % n)
    OBVIOUS
  <2> QED
    BY <2>1
<1>2. PICK r \in 0..(n - 1) : a = n * q + r
  BY <1>1
<1> HIDE DEF q
<1>3. q >= 0
  <2> SUFFICES ASSUME q <= -1 PROVE FALSE
    BY <1>1
  <2>1. n * q <= -n /\ n * q \in Int
    BY <1>1
  <2> DEFINE z == n * q
  <2> HIDE DEF z
  <2>2. a = z + r /\ z <= -n /\ z \in Int
    BY <1>2, <2>1 DEF z
  <2> QED
    BY <2>2
<1>4. q * n = n * q /\ q * n \in Nat
  BY <1>1, <1>3
<1> DEFINE z == q * n
<1> HIDE DEF z
<1>5. a = z + r /\ z \in Nat
  BY <1>2, <1>4 DEF z
<1>6. z <= a /\ a - z < n
  BY <1>5
<1> QED
  BY <1>1, <1>3, <1>5, <1>6 DEF q, z

LEMMA RemainderOf ==
    ASSUME NEW L \in Nat \ {0}, NEW k \in Nat, NEW x \in 0..(L - 1)
    PROVE  (k * L + x) % L = x
<1> DEFINE y == k * L + x
           q == y \div L
           r == y % L
<1>1. y \in Int /\ k * L \in Int
  OBVIOUS
<1>2. q \in Int /\ r \in 0..(L - 1) /\ y = L * q + r
  <2> HIDE DEF y
  <2> QED
    BY <1>1
<1> HIDE DEF q, r
<1>3. L * q + r = k * L + x
  BY <1>2
<1>4. CASE q >= k + 1
  <2>1. L * q >= L * (k + 1) /\ L * (k + 1) = k * L + L
    BY <1>2, <1>4
  <2> QED
    BY <1>1, <1>2, <1>3, <2>1
<1>5. CASE q <= k - 1
  <2>1. L * q <= L * (k - 1) /\ L * (k - 1) = k * L - L
    BY <1>2, <1>5
  <2> QED
    BY <1>1, <1>2, <1>3, <2>1
<1>6. CASE q = k
  BY <1>1, <1>2, <1>3, <1>6
<1>7. r = x
  BY <1>2, <1>4, <1>5, <1>6
<1> QED
  BY <1>7 DEF r, y

LEMMA FilesOfWorker ==
    ASSUME NEW i \in 0..(NTeste - 1)
    PROVE  /\ Arquivos(i, NTeste) \in Seq(0..(NPrep - 1)) /\ Len(Arquivos(i, NTeste)) \in Nat \ {0}
           /\ DOMAIN Arquivos(i, NTeste) = 1..Len(Arquivos(i, NTeste))
<1> DEFINE n == NTeste
           m == NPrep
           a == m - i + n - 1
           q == a \div n
           f == [k \in 1..q |-> i + (k - 1) * n]
<1>1. n \in Nat \ {0} /\ m \in Nat \ {0} /\ n <= m /\ i \in 0..(n - 1)
  BY SizesOfCapacity
<1>2. Arquivos(i, NTeste) = f
  BY DEF Arquivos
<1> HIDE DEF n, m
<1>3. a \in Nat /\ a >= n
  BY <1>1
<1>4. q \in Int /\ \E t \in 0..(n - 1) : a = n * q + t
  <2> HIDE DEF a
  <2>1. q \in Int /\ a % n \in 0..(n - 1) /\ a = n * q + (a % n)
    BY <1>1, <1>3
  <2> QED
    BY <2>1
<1>5. PICK t \in 0..(n - 1) : a = n * q + t
  BY <1>4
<1>6. q >= 1
  <2> SUFFICES ASSUME q <= 0 PROVE FALSE
    BY <1>4
  <2>1. n * q <= 0
    BY <1>1, <1>4
  <2> QED
    BY <1>1, <1>3, <1>4, <1>5, <2>1
<1>7. ASSUME NEW k \in 1..q PROVE i + (k - 1) * n \in 0..(m - 1)
  <2>1. q \in Nat
    BY <1>4, <1>6
  <2> HIDE DEF q, a
  <2>2. n * k <= n * q /\ n * k \in Nat /\ (k - 1) * n = n * k - n /\ (k - 1) * n \in Nat
    BY <1>1, <1>7, <2>1
  <2>3. n * k <= m - i + n - 1
    BY <1>1, <1>4, <1>5, <2>1, <2>2 DEF a
  <2> DEFINE z == (k - 1) * n
  <2> HIDE DEF z
  <2>4. z \in Nat /\ z + n <= m - i + n - 1
    <3>1. z = n * k - n /\ n * k \in Nat /\ z \in Nat
      BY <2>2 DEF z
    <3> QED
      BY <1>1, <2>3, <3>1
  <2>5. i + z \in 0..(m - 1)
    BY <1>1, <2>4
  <2> QED
    BY <2>5 DEF z
<1>8. q \in Nat \ {0}
  BY <1>4, <1>6
<1> HIDE DEF q, a
<1>9. f \in Seq(0..(m - 1)) /\ Len(f) = q /\ DOMAIN f = 1..q
  BY <1>7, <1>8
<1> QED
  BY <1>2, <1>8, <1>9 DEF m

----------------------------------------------------------------------------
(***************************************************************************)
(* Sequences joined, and the blocks of the files of a worker in order.     *)
(***************************************************************************)
LEMMA Joined ==
    ASSUME NEW s \in Seq(Nat), NEW t \in Seq(Nat)
    PROVE  /\ s \o t \in Seq(Nat) /\ Len(s) \in Nat /\ Len(t) \in Nat /\ Len(s \o t) = Len(s) + Len(t)
           /\ \A x \in 1..Len(s) : (s \o t)[x] = s[x]
           /\ \A x \in 1..Len(t) : (s \o t)[Len(s) + x] = t[x]
OBVIOUS

\* The blocks of file j.
De(j) == [x \in 1..Quantos(j) |-> Inicio(j) + x]

LEMMA BlocksInOrder ==
    ASSUME NEW i \in 0..(NTeste - 1)
    PROVE  /\ \E Pre : Ordem(i, Pre)
           /\ Len(Blocos(i, NTeste)) \in Nat
<1> DEFINE fds == Arquivos(i, NTeste)
           n == Len(fds)
           T(g) == [ss \in SUBSET DOMAIN fds |->
                     IF ss = {} THEN <<>> ELSE g[ss \ {Max(ss)}] \o De(fds[Max(ss)])]
           g == CHOOSE g : g = T(g)
           Op == [p \in Seq(Nat) \X (1..n) |-> p[1] \o De(fds[p[2]])]
<1>0. /\ n \in Nat \ {0} /\ DOMAIN fds = 1..n /\ <<>> \in Seq(Nat)
      /\ \A f \in 1..n : /\ De(fds[f]) \in Seq(Nat) /\ Len(De(fds[f])) = Quantos(fds[f])
                         /\ Quantos(fds[f]) \in Nat \ {0}
                         /\ \A m \in 1..Quantos(fds[f]) : De(fds[f])[m] = Inicio(fds[f]) + m
  <2>1. /\ fds \in Seq(0..(NPrep - 1)) /\ n \in Nat \ {0} /\ DOMAIN fds = 1..n
    BY FilesOfWorker
  <2> HIDE DEF fds
  <2>2. ASSUME NEW f \in 1..n
        PROVE  /\ De(fds[f]) \in Seq(Nat) /\ Len(De(fds[f])) = Quantos(fds[f])
               /\ Quantos(fds[f]) \in Nat \ {0}
               /\ \A m \in 1..Quantos(fds[f]) : De(fds[f])[m] = Inicio(fds[f]) + m
    <3>0. fds[f] \in 0..(NPrep - 1)
      BY <2>1, ElementOfSeq
    <3>1. PICK j \in 0..(NPrep - 1) : j = fds[f]
      BY <3>0
    <3>2. Inicio(j) \in Nat /\ Quantos(j) \in Nat \ {0}
      BY Regions
    <3>3. De(j) \in Seq(Nat) /\ Len(De(j)) = Quantos(j) /\ \A m \in 1..Quantos(j) : De(j)[m] = Inicio(j) + m
      BY <3>2 DEF De
    <3> QED
      BY <3>1, <3>2, <3>3
  <2> QED
    BY <2>1, <2>2
<1> HIDE DEF fds
<1>1. Op \in [Seq(Nat) \X (1..n) -> Seq(Nat)]
  BY <1>0
<1>2. PICK h \in [SUBSET (1..n) -> Seq(Nat)] : Passos(h, <<>>, Op, n)
  <2> HIDE DEF Op
  <2> QED
    BY <1>0, <1>1, FoldIsDefined
<1>3. h = T(h)
  <2>1. ASSUME NEW ss \in SUBSET (1..n), ss # {}
        PROVE  Op[<<h[ss \ {Max(ss)}], Max(ss)>>] = h[ss \ {Max(ss)}] \o De(fds[Max(ss)])
    <3>1. Max(ss) \in 1..n
      BY <1>0, <2>1, MaxOf
    <3>2. h[ss \ {Max(ss)}] \in Seq(Nat)
      OBVIOUS
    <3> QED
      BY <3>1, <3>2
  <2>2. h = [ss \in SUBSET (1..n) |-> IF ss = {} THEN <<>> ELSE Op[<<h[ss \ {Max(ss)}], Max(ss)>>]]
    BY <1>2, Zenon DEF Passos
  <2> HIDE DEF Op, n
  <2> QED
    BY <1>0, <2>1, <2>2
<1>4. Blocos(i, NTeste) = g[DOMAIN fds]
  BY Zenon DEF Blocos, FoldLeft, MapThenFoldSet, fds, De, Quantos, Fundo, Inicio
<1>5. g = T(g)
  <2>1. \E y : y = T(y)
    BY <1>3
  <2> HIDE DEF T
  <2> QED
    BY <2>1
<1> HIDE DEF g, n
<1>6. g[1..0] = <<>>
  <2>1. 1..0 = {} /\ {} \in SUBSET (1..n)
    OBVIOUS
  <2> QED
    BY <1>0, <1>5, <2>1
<1>7. ASSUME NEW m \in 0..(n - 1) PROVE g[1..(m + 1)] = g[1..m] \o De(fds[m + 1])
  <2>0. DOMAIN fds = 1..n
    BY <1>0
  <2>1. 1..(m + 1) \in SUBSET (1..n) /\ m \in Nat
    BY <1>0
  <2>2. Max(1..(m + 1)) = m + 1 /\ (1..(m + 1)) \ {m + 1} = 1..m /\ 1..(m + 1) # {}
    BY <2>1, MaxOfPrefix
  <2>3. g[1..(m + 1)] = IF 1..(m + 1) = {} THEN <<>>
                         ELSE g[(1..(m + 1)) \ {Max(1..(m + 1))}] \o De(fds[Max(1..(m + 1))])
    BY <1>5, <2>0, <2>1, Zenon
  <2> QED
    BY <2>2, <2>3
<1> DEFINE Pre == [k \in 0..n |-> Len(g[1..k])]
           Junto(k) == /\ g[1..k] \in Seq(Nat)
                       /\ \A f \in 1..k :
                             /\ Pre[f] = Pre[f - 1] + Quantos(fds[f]) /\ Pre[f - 1] \in Nat
                             /\ Pre[f] <= Pre[k]
                             /\ \A m \in 1..Quantos(fds[f]) : g[1..k][Pre[f - 1] + m] = Inicio(fds[f]) + m
           S == {k \in 0..n : Junto(k)}
<1>8. 0 \in S
  <2>1. 0 \in 0..n /\ g[1..0] \in Seq(Nat) /\ 1..0 = {}
    BY <1>0, <1>6
  <2>2. Junto(0)
    BY <2>1
  <2> HIDE DEF Junto
  <2> QED
    BY <2>1, <2>2
<1>9. ASSUME NEW k \in 0..(n - 1), k \in S PROVE k + 1 \in S
  <2> DEFINE a == g[1..k]
             b == g[1..(k + 1)]
             d == De(fds[k + 1])
             q == Quantos(fds[k + 1])
  <2>1. k \in 0..n /\ k + 1 \in 0..n /\ k + 1 \in 1..n /\ (k + 1) - 1 = k
    BY <1>0
  <2>2. Junto(k)
    BY <1>9
  <2>3. /\ a \in Seq(Nat) /\ b = a \o d /\ d \in Seq(Nat) /\ Len(d) = q /\ q \in Nat \ {0}
        /\ \A m \in 1..q : d[m] = Inicio(fds[k + 1]) + m
    BY <1>0, <1>7, <2>1, <2>2
  <2>4. Pre[k] = Len(a) /\ Pre[k + 1] = Len(b)
    BY <2>1
  <2> HIDE DEF a, b, d, q
  <2>5. /\ b \in Seq(Nat) /\ Len(a) \in Nat /\ Len(b) = Len(a) + q
        /\ \A x \in 1..Len(a) : b[x] = a[x]
        /\ \A m \in 1..q : b[Len(a) + m] = Inicio(fds[k + 1]) + m
    <3>1. a \in Seq(Nat) /\ b = a \o d /\ d \in Seq(Nat) /\ Len(d) = q
      BY <2>3
    <3>2. /\ a \o d \in Seq(Nat) /\ Len(a) \in Nat /\ Len(a \o d) = Len(a) + Len(d)
          /\ \A x \in 1..Len(a) : (a \o d)[x] = a[x]
          /\ \A x \in 1..Len(d) : (a \o d)[Len(a) + x] = d[x]
      BY <3>1, Joined
    <3> QED
      BY <2>3, <3>1, <3>2
  <2>6. ASSUME NEW f \in 1..(k + 1)
        PROVE  /\ Pre[f] = Pre[f - 1] + Quantos(fds[f]) /\ Pre[f - 1] \in Nat
               /\ Pre[f] <= Pre[k + 1]
               /\ \A m \in 1..Quantos(fds[f]) : b[Pre[f - 1] + m] = Inicio(fds[f]) + m
    <3>1. CASE f = k + 1
      <4>1. Pre[f - 1] = Len(a) /\ Pre[f] = Len(b) /\ Quantos(fds[f]) = q
        BY <2>1, <2>4, <3>1 DEF q
      <4> HIDE DEF Pre
      <4> QED
        BY <2>3, <2>4, <2>5, <3>1, <4>1
    <3>2. CASE f # k + 1
      <4>1. f \in 1..k /\ f \in 1..n
        <5>1. k \in Nat /\ n \in Nat /\ k < n
          BY <1>0
        <5> QED
          BY <3>2, <5>1
      <4>2. /\ Pre[f] = Pre[f - 1] + Quantos(fds[f]) /\ Pre[f - 1] \in Nat /\ Pre[f] <= Pre[k]
            /\ \A m \in 1..Quantos(fds[f]) : a[Pre[f - 1] + m] = Inicio(fds[f]) + m
        BY <2>2, <4>1 DEF a
      <4>3. Quantos(fds[f]) \in Nat
        BY <1>0, <4>1
      <4> HIDE DEF Pre
      <4>4. \A m \in 1..Quantos(fds[f]) : Pre[f - 1] + m \in 1..Len(a)
        BY <2>4, <2>5, <4>2, <4>3
      <4>5. Pre[f] <= Pre[k + 1]
        BY <2>3, <2>4, <2>5, <4>2, <4>3
      <4> QED
        BY <2>5, <4>2, <4>4, <4>5
    <3> QED
      BY <3>1, <3>2
  <2>7. Junto(k + 1)
    BY <2>5, <2>6 DEF b
  <2> HIDE DEF Junto
  <2> QED
    BY <2>1, <2>7
<1>10. n \in S
  <2> HIDE DEF S
  <2>1. 0..n \subseteq S
    BY <1>0, <1>8, <1>9, PrefixInduction
  <2> QED
    BY <1>0, <2>1
<1>11. Junto(n)
  BY <1>10
<1>12. g[1..n] = Blocos(i, NTeste) /\ Len(g[1..n]) \in Nat
  BY <1>0, <1>4, <1>11
<1>13. Pre \in [0..n -> Nat] /\ Pre[0] = 0 /\ Pre[n] = Len(Blocos(i, NTeste))
  <2>1. Pre[n] = Len(Blocos(i, NTeste)) /\ Pre[0] = 0
    BY <1>0, <1>6, <1>12
  <2>2. ASSUME NEW k \in 0..n PROVE Pre[k] \in Nat
    <3>1. CASE k = n
      BY <1>12, <2>1, <3>1
    <3>2. CASE k # n
      <4>1. k + 1 \in 1..n /\ (k + 1) - 1 = k
        BY <1>0, <3>2
      <4>2. Pre[(k + 1) - 1] \in Nat
        BY <1>11, <4>1
      <4> QED
        BY <4>1, <4>2
    <3> QED
      BY <3>1, <3>2
  <2> QED
    BY <2>1, <2>2
<1>14. Ordem(i, Pre)
  <2> HIDE DEF Pre
  <2> QED
    BY <1>11, <1>12, <1>13 DEF Ordem, fds, n
<1> QED
  BY <1>12, <1>14

----------------------------------------------------------------------------
(***************************************************************************)
(* The writer. It flushes whole blocks, in order, as long as it does not    *)
(* reach its cap.                                                          *)
(***************************************************************************)
LEMMA FlushTypes ==
    ASSUME NEW e \in Escritores, e.off <= Len(e.arq), NEW b \in Seq(Nat), Len(b) = B
    PROVE  descarregar(e, b) \in Escritores /\ descarregar(e, b).off <= Len(descarregar(e, b).arq)
<1> DEFINE arq == e.arq
           off == e.off
           u == SubSeq(arq, 1, off)
           v == SubSeq(arq, off + B + 1, Len(arq))
           o == IF off + B >= e.cap THEN 0 ELSE off + B
<1>1. B \in Nat /\ arq \in Seq(Nat) /\ Len(arq) \in Nat /\ off \in Nat /\ off <= Len(arq) /\ e.cap \in Nat
  BY SizesOfCapacity DEF Escritores
<1>2. descarregar(e, b) = [e EXCEPT !.arq = u \o b \o v, !.off = o]
  BY DEF descarregar, Sobre
<1> HIDE DEF arq, off
<1>3. u \in Seq(Nat) /\ Len(u) = off
  <2>1. \A x \in 1..off : arq[x] \in Nat
    BY <1>1
  <2> QED
    BY <1>1, <2>1, SubSeqProperties
<1>4. v \in Seq(Nat)
  <2>1. \A x \in (off + B + 1)..Len(arq) : arq[x] \in Nat
    BY <1>1
  <2> QED
    BY <1>1, <2>1, SubSeqProperties
<1> HIDE DEF u, v
<1>5. u \o b \o v \in Seq(Nat) /\ Len(u \o b \o v) >= off + B
  <2>1. u \o b \in Seq(Nat) /\ Len(u \o b) = off + B
    BY <1>3, Joined
  <2> DEFINE s == u \o b
  <2> HIDE DEF s
  <2>2. s \o v \in Seq(Nat) /\ Len(s \o v) = Len(s) + Len(v) /\ Len(v) \in Nat /\ Len(s) = off + B
    BY <1>4, <2>1, Joined DEF s
  <2>3. Len(s \o v) >= off + B
    BY <1>1, <2>2
  <2> QED
    BY <2>2, <2>3 DEF s
<1>6. o \in Nat /\ o <= off + B
  BY <1>1
<1> DEFINE s == u \o b \o v
<1> HIDE DEF o, s
<1>7. DOMAIN e = {"buf", "arq", "off", "cap"} /\ e.buf \in Seq(Nat) /\ e.cap \in Nat
  BY DEF Escritores
<1>8. s \in Seq(Nat) /\ Len(s) \in Nat /\ o <= Len(s) /\ descarregar(e, b) = [e EXCEPT !.arq = s, !.off = o]
  <2>1. s \in Seq(Nat) /\ Len(s) >= off + B
    BY <1>5 DEF s
  <2>2. Len(s) \in Nat
    BY <2>1
  <2> QED
    BY <1>1, <1>2, <1>6, <2>1, <2>2 DEF s
<1> QED
  BY <1>6, <1>7, <1>8 DEF Escritores

LEMMA FlushAppends ==
    ASSUME NEW e \in Escritores, e.off = Len(e.arq), NEW b \in Seq(Nat), Len(b) = B, e.off + B < e.cap
    PROVE  descarregar(e, b) = [e EXCEPT !.arq = e.arq \o b, !.off = e.off + B]
<1> DEFINE arq == e.arq
<1>1. B \in Nat /\ B >= 2 /\ arq \in Seq(Nat) /\ Len(arq) \in Nat /\ e.off = Len(arq) /\ e.cap \in Nat
  BY SizesOfCapacity DEF Escritores
<1>2. ~(e.off + B >= e.cap)
  BY <1>1
<1>3. descarregar(e, b) = [e EXCEPT !.arq = Sobre(arq, Len(arq), b), !.off = e.off + B]
  BY <1>1, <1>2 DEF descarregar
<1> HIDE DEF arq
<1>4. Sobre(arq, Len(arq), b) = arq \o b
  <2>1. SubSeq(arq, 1, Len(arq)) = arq
    BY <1>1, SubSeqFull
  <2>2. SubSeq(arq, Len(arq) + B + 1, Len(arq)) = <<>>
    BY <1>1, SubSeqEmpty
  <2> DEFINE s == arq \o b
  <2>3. s \in Seq(Nat)
    BY <1>1, Joined
  <2>4. Sobre(arq, Len(arq), b) = s \o <<>>
    BY <2>1, <2>2 DEF Sobre
  <2> HIDE DEF s
  <2>5. s \o <<>> = s
    BY <2>3, ConcatEmptySeq
  <2> QED
    BY <2>4, <2>5 DEF s
<1> QED
  BY <1>3, <1>4 DEF arq

\* k * B, step by step.
LEMMA Multiples ==
    ASSUME NEW n \in Nat
    PROVE  /\ n * B \in Nat /\ 0 * B = 0 /\ (n + 1) * B = n * B + B
           /\ \A m \in Nat : m <= n => m * B <= n * B
<1>1. B \in Nat
  BY SizesOfCapacity
<1>2. n * B \in Nat /\ 0 * B = 0 /\ (n + 1) * B = n * B + B
  BY <1>1
<1>3. ASSUME NEW m \in Nat, m <= n PROVE m * B <= n * B
  BY <1>1, <1>3
<1> QED
  BY <1>2, <1>3

LEMMA JoinedTwice ==
    ASSUME NEW s \in Seq(Nat), NEW t \in Seq(Nat), NEW u \in Seq(Nat)
    PROVE  (s \o t) \o u = s \o (t \o u)
BY ConcatAssociative

Esvaziar(e, ch) == FoldLeft(descarregar, e, ch)

\* The first u units of s are in the file.
Esvaziado(e, s, u) == [e EXCEPT !.arq = e.arq \o SubSeq(s, 1, u), !.off = e.off + u]

\* The first q blocks of s.
Fatias(ch, s, q) == DOMAIN ch = 1..q /\ \A k \in 1..q : ch[k] = SubSeq(s, (k - 1) * B + 1, k * B)

LEMMA FlushAll ==
    ASSUME NEW e \in Escritores, e.off = Len(e.arq), NEW s \in Seq(Nat), NEW q \in Nat,
           NEW u \in Nat, u = q * B, u <= Len(s), e.off + u < e.cap,
           NEW ch, Fatias(ch, s, q)
    PROVE  Esvaziar(e, ch) = Esvaziado(e, s, u)
<1> DEFINE A == {x \in Escritores : x.off <= Len(x.arq)}
           T(g) == [ss \in SUBSET DOMAIN ch |->
                     IF ss = {} THEN e ELSE descarregar(g[ss \ {Max(ss)}], ch[Max(ss)])]
           g == CHOOSE g : g = T(g)
           Op == [p \in A \X (1..q) |-> descarregar(p[1], ch[p[2]])]
<1>0. /\ B \in Nat /\ B >= 2 /\ Len(s) \in Nat /\ e.arq \in Seq(Nat) /\ Len(e.arq) \in Nat
      /\ e.off \in Nat /\ e.cap \in Nat /\ e.buf \in Seq(Nat) /\ DOMAIN e = {"buf", "arq", "off", "cap"}
  BY SizesOfCapacity DEF Escritores
<1>f. DOMAIN ch = 1..q /\ \A k \in 1..q : ch[k] = SubSeq(s, (k - 1) * B + 1, k * B)
  BY DEF Fatias
<1>a. ASSUME NEW k \in 1..q PROVE ch[k] \in Seq(Nat) /\ Len(ch[k]) = B
  <2>1. k - 1 \in Nat /\ k \in Nat /\ k <= q /\ (k - 1) + 1 = k
    OBVIOUS
  <2>2. (k - 1) * B \in Nat /\ k * B = (k - 1) * B + B /\ k * B <= q * B /\ q * B \in Nat
    BY <2>1, Multiples
  <2> DEFINE x == (k - 1) * B
             y == k * B
             z == q * B
  <2>3. ch[k] = SubSeq(s, x + 1, y)
    BY <1>f
  <2>4. x \in Nat /\ y = x + B /\ y <= z /\ z \in Nat /\ z <= Len(s)
    BY <2>2
  <2> HIDE DEF x, y, z
  <2>5. \A i \in (x + 1)..y : s[i] \in Nat
    <3>1. \A i \in (x + 1)..y : i \in 1..Len(s)
      BY <1>0, <2>4
    <3> QED
      BY <3>1
  <2>6. /\ SubSeq(s, x + 1, y) \in Seq(Nat)
        /\ Len(SubSeq(s, x + 1, y)) = IF x + 1 <= y THEN y - (x + 1) + 1 ELSE 0
    <3>1. x + 1 \in Int /\ y \in Int
      BY <1>0, <2>4
    <3> QED
      BY <2>5, <3>1, SubSeqProperties
  <2> QED
    BY <1>0, <2>3, <2>4, <2>6
<1>b. e \in A
  BY <1>0
<1>1. Op \in [A \X (1..q) -> A]
  <2>1. \A x \in A, k \in 1..q : descarregar(x, ch[k]) \in A
    BY <1>a, FlushTypes
  <2> HIDE DEF A
  <2> QED
    BY <2>1
<1>2. PICK h \in [SUBSET (1..q) -> A] : Passos(h, e, Op, q)
  <2> HIDE DEF Op, A
  <2> QED
    BY <1>b, <1>1, FoldIsDefined
<1>3. h = T(h)
  <2>1. ASSUME NEW ss \in SUBSET (1..q), ss # {}
        PROVE  Op[<<h[ss \ {Max(ss)}], Max(ss)>>] = descarregar(h[ss \ {Max(ss)}], ch[Max(ss)])
    <3>1. Max(ss) \in 1..q
      BY <2>1, MaxOf
    <3>2. h[ss \ {Max(ss)}] \in A
      OBVIOUS
    <3> HIDE DEF A
    <3> QED
      BY <3>1, <3>2
  <2>2. h = [ss \in SUBSET (1..q) |-> IF ss = {} THEN e ELSE Op[<<h[ss \ {Max(ss)}], Max(ss)>>]]
    BY <1>2, Zenon DEF Passos
  <2> HIDE DEF Op
  <2> QED
    BY <1>f, <2>1, <2>2
<1>4. Esvaziar(e, ch) = g[DOMAIN ch]
  BY Zenon DEF Esvaziar, FoldLeft, MapThenFoldSet
<1>5. g = T(g)
  <2>1. \E y : y = T(y)
    BY <1>3
  <2> HIDE DEF T
  <2> QED
    BY <2>1
<1> HIDE DEF g, A, Op
<1>6. g[1..0] = e
  <2>1. 1..0 = {} /\ {} \in SUBSET (1..q)
    BY <1>f
  <2> QED
    BY <1>5, <1>f, <2>1
<1>7. ASSUME NEW m \in 0..(q - 1) PROVE g[1..(m + 1)] = descarregar(g[1..m], ch[m + 1])
  <2>1. 1..(m + 1) \in SUBSET (1..q) /\ m \in Nat
    OBVIOUS
  <2>2. Max(1..(m + 1)) = m + 1 /\ (1..(m + 1)) \ {m + 1} = 1..m /\ 1..(m + 1) # {}
    BY <2>1, MaxOfPrefix
  <2>3. g[1..(m + 1)] = IF 1..(m + 1) = {} THEN e
                         ELSE descarregar(g[(1..(m + 1)) \ {Max(1..(m + 1))}], ch[Max(1..(m + 1))])
    BY <1>5, <1>f, <2>1, Zenon
  <2> QED
    BY <2>2, <2>3
<1> DEFINE Ate(m) == [e EXCEPT !.arq = e.arq \o SubSeq(s, 1, m * B), !.off = e.off + m * B]
           S == {m \in 0..q : g[1..m] = Ate(m)}
<1> HIDE DEF T
<1>8. 0 \in S
  <2>1. SubSeq(s, 1, 0) = <<>> /\ 0 * B = 0
    BY <1>0, SubSeqEmpty
  <2>2. e.arq \o <<>> = e.arq /\ e.off + 0 = e.off
    BY <1>0
  <2>3. Ate(0) = [e EXCEPT !.arq = e.arq, !.off = e.off]
    BY <2>1, <2>2
  <2>4. Ate(0) = e
    <3>1. e = [buf |-> e.buf, arq |-> e.arq, off |-> e.off, cap |-> e.cap]
      BY DEF Escritores
    <3>2. [e EXCEPT !.arq = e.arq, !.off = e.off] = [buf |-> e.buf, arq |-> e.arq, off |-> e.off, cap |-> e.cap]
      BY <3>1
    <3> QED
      BY <2>3, <3>1, <3>2
  <2>5. 0 \in 0..q
    OBVIOUS
  <2> QED
    BY <1>6, <2>4, <2>5
<1>9. ASSUME NEW m \in 0..(q - 1), m \in S PROVE m + 1 \in S
  <2>1. m \in Nat /\ m + 1 \in 1..q /\ m + 1 \in 0..q /\ (m + 1) - 1 = m
    OBVIOUS
  <2>2. /\ m * B \in Nat /\ (m + 1) * B = m * B + B /\ (m + 1) * B <= q * B /\ q * B \in Nat
    <3>1. m \in Nat /\ m + 1 \in Nat /\ m + 1 <= q
      OBVIOUS
    <3>2. m * B \in Nat /\ (m + 1) * B = m * B + B
      BY <3>1, Multiples
    <3>3. (m + 1) * B <= q * B /\ q * B \in Nat
      BY <3>1, Multiples
    <3> QED
      BY <3>2, <3>3
  <2> DEFINE x == m * B
             y == (m + 1) * B
             z == q * B
             p == SubSeq(s, 1, x)
             b == SubSeq(s, x + 1, y)
  <2>3. x \in Nat /\ y = x + B /\ y <= z /\ z \in Nat /\ z <= Len(s) /\ e.off + z < e.cap
    BY <2>2
  <2>4. ch[m + 1] = b /\ b \in Seq(Nat) /\ Len(b) = B
    BY <1>a, <1>f, <2>1
  <2>5. g[1..m] = [e EXCEPT !.arq = e.arq \o p, !.off = e.off + x]
    BY <1>9
  <2>6. g[1..(m + 1)] = descarregar(g[1..m], b)
    BY <1>7, <2>4
  <2> HIDE DEF x, y, z
  <2>7. p \in Seq(Nat) /\ Len(p) = x /\ p \o b = SubSeq(s, 1, y)
    <3>1. \A i \in 1..x : s[i] \in Nat
      <4>1. \A i \in 1..x : i \in 1..Len(s)
        BY <1>0, <2>3
      <4> QED
        BY <4>1
    <3>2. p \in Seq(Nat) /\ Len(p) = IF 1 <= x THEN x - 1 + 1 ELSE 0
      <4>1. 1 \in Int /\ x \in Int
        BY <2>3
      <4> QED
        BY <3>1, <4>1, SubSeqProperties
    <3>3. 1 \in 1..(Len(s) + 1) /\ x \in (1 - 1)..Len(s) /\ y \in x..Len(s)
      BY <1>0, <2>3
    <3>4. p \o b = SubSeq(s, 1, y)
      BY <3>3, ConcatAdjacentSubSeq
    <3>5. Len(p) = x
      <4>1. x \in Nat
        BY <2>3
      <4> HIDE DEF p
      <4> QED
        BY <3>2, <4>1
    <3> HIDE DEF p, b
    <3> QED
      BY <3>2, <3>4, <3>5
  <2> HIDE DEF p, b
  <2> DEFINE d == g[1..m]
  <2>8. /\ d \in Escritores /\ d.arq = e.arq \o p /\ d.off = e.off + x /\ d.cap = e.cap /\ d.buf = e.buf
        /\ d.off = Len(d.arq) /\ d.off + B < d.cap
    <3>1. e.arq \o p \in Seq(Nat) /\ Len(e.arq \o p) = Len(e.arq) + x
      BY <1>0, <2>7, Joined
    <3>2. d.arq = e.arq \o p /\ d.off = e.off + x /\ d.cap = e.cap /\ d.buf = e.buf /\ DOMAIN d = DOMAIN e
      BY <1>0, <2>5
    <3>3. d = [buf |-> e.buf, arq |-> e.arq \o p, off |-> e.off + x, cap |-> e.cap]
      BY <1>0, <2>5
    <3>4. e.off + x \in Nat /\ e.off + x = Len(e.arq \o p) /\ e.off + x + B < e.cap
      BY <1>0, <2>3, <3>1
    <3> QED
      BY <1>0, <3>1, <3>2, <3>3, <3>4 DEF Escritores
  <2>9. descarregar(d, b) = [d EXCEPT !.arq = d.arq \o b, !.off = d.off + B]
    <3> HIDE DEF d
    <3> QED
      BY <2>4, <2>8, FlushAppends
  <2>10. (e.arq \o p) \o b = e.arq \o SubSeq(s, 1, y)
    <3>1. (e.arq \o p) \o b = e.arq \o (p \o b)
      <4>1. e.arq \in Seq(Nat) /\ p \in Seq(Nat) /\ b \in Seq(Nat)
        BY <1>0, <2>4, <2>7
      <4> QED
        BY <4>1, JoinedTwice, ZenonT(20)
    <3> QED
      BY <2>7, <3>1
  <2>11. (e.off + x) + B = e.off + y
    BY <1>0, <2>3
  <2>12. g[1..(m + 1)] = [e EXCEPT !.arq = e.arq \o SubSeq(s, 1, y), !.off = e.off + y]
    <3>1. g[1..(m + 1)] = [d EXCEPT !.arq = e.arq \o SubSeq(s, 1, y), !.off = e.off + y]
      BY <2>6, <2>8, <2>9, <2>10, <2>11
    <3> QED
      BY <1>0, <2>5, <3>1
  <2> QED
    BY <2>1, <2>12 DEF y
<1>10. q \in S
  <2> HIDE DEF S
  <2>1. 0..q \subseteq S
    BY <1>8, <1>9, PrefixInduction
  <2> QED
    BY <2>1
<1> QED
  BY <1>4, <1>10, <1>f DEF Esvaziado

LEMMA WriteAppends ==
    ASSUME NEW e, EmDia(e), NEW dados \in Seq(Nat), Len(Escrito(e)) + Len(dados) < e.cap
    PROVE  /\ EmDia(escrever(e, dados)) /\ escrever(e, dados).cap = e.cap
           /\ Escrito(escrever(e, dados)) = Escrito(e) \o dados
<1> DEFINE s == e.buf \o dados
           q == Len(s) \div B
           ch == [k \in 1..q |-> SubSeq(s, (k - 1) * B + 1, k * B)]
           x == q * B
           p == SubSeq(s, 1, x)
           t == SubSeq(s, x + 1, Len(s))
           f == Esvaziar(e, ch)
<1>0. /\ B \in Nat /\ B >= 2 /\ e \in Escritores /\ e.arq \in Seq(Nat) /\ Len(e.arq) \in Nat /\ e.off = Len(e.arq)
      /\ e.cap \in Nat /\ e.buf \in Seq(Nat) /\ Len(e.buf) \in Nat
      /\ e = [buf |-> e.buf, arq |-> e.arq, off |-> e.off, cap |-> e.cap]
  BY SizesOfCapacity DEF EmDia, Escritores
<1>1. /\ s \in Seq(Nat) /\ Len(s) = Len(e.buf) + Len(dados) /\ Len(s) \in Nat /\ Len(dados) \in Nat
      /\ Len(Escrito(e)) = Len(e.arq) + Len(e.buf)
  <2>1. /\ s \in Seq(Nat) /\ Len(s) = Len(e.buf) + Len(dados) /\ Len(dados) \in Nat
    BY <1>0, Joined
  <2>2. Len(Escrito(e)) = Len(e.arq) + Len(e.buf)
    BY <1>0, Joined DEF Escrito
  <2> HIDE DEF s
  <2> QED
    BY <1>0, <2>1, <2>2
<1>2. escrever(e, dados) = [f EXCEPT !.buf = t]
  BY DEF escrever, Esvaziar
<1> HIDE DEF s
<1>3. q \in Nat /\ x \in Nat /\ x <= Len(s) /\ Len(s) - x < B
  <2>1. Len(s) \in Nat /\ B \in Nat \ {0}
    BY <1>0, <1>1
  <2> QED
    BY <2>1, Division
<1> HIDE DEF q
<1>4. f = [e EXCEPT !.arq = e.arq \o p, !.off = e.off + x]
  <2>1. Fatias(ch, s, q)
    BY DEF Fatias
  <2>2. x \in Nat /\ x = q * B /\ x <= Len(s) /\ e.off + x < e.cap
    <3>1. x = q * B
      OBVIOUS
    <3>2. x \in Nat /\ x <= Len(s)
      BY <1>3
    <3> DEFINE a == e.off
               b == Len(s)
               z == e.cap
    <3>3. a \in Nat /\ b \in Nat /\ z \in Nat /\ a + b < z
      <4>1. a \in Nat /\ b \in Nat /\ z \in Nat
        BY <1>0, <1>1
      <4>2. Len(Escrito(e)) + Len(dados) = a + b
        BY <1>0, <1>1
      <4> QED
        BY <4>1, <4>2
    <3> HIDE DEF x, a, b, z
    <3>4. a + x < z
      BY <3>2, <3>3 DEF b
    <3> QED
      BY <3>1, <3>2, <3>4 DEF a, z
  <2> HIDE DEF ch, x
  <2>3. e \in Escritores /\ e.off = Len(e.arq) /\ s \in Seq(Nat) /\ q \in Nat
    BY <1>0, <1>1, <1>3
  <2>4. Esvaziar(e, ch) = Esvaziado(e, s, x)
    BY <2>1, <2>2, <2>3, FlushAll, ZenonT(30)
  <2> QED
    BY <2>4 DEF Esvaziado
<1> HIDE DEF f, ch, x
<1>5. /\ p \in Seq(Nat) /\ t \in Seq(Nat) /\ Len(p) = x /\ Len(t) = Len(s) - x /\ p \o t = s
  <2>1. (\A i \in 1..x : s[i] \in Nat) /\ \A i \in (x + 1)..Len(s) : s[i] \in Nat
    <3>1. (\A i \in 1..x : i \in 1..Len(s)) /\ \A i \in (x + 1)..Len(s) : i \in 1..Len(s)
      BY <1>1, <1>3
    <3> QED
      BY <1>1, <3>1
  <2>2. p \in Seq(Nat) /\ Len(p) = IF 1 <= x THEN x - 1 + 1 ELSE 0
    <3>1. 1 \in Int /\ x \in Int
      BY <1>3
    <3> QED
      BY <2>1, <3>1, SubSeqProperties
  <2>3. t \in Seq(Nat) /\ Len(t) = IF x + 1 <= Len(s) THEN Len(s) - (x + 1) + 1 ELSE 0
    <3>1. x + 1 \in Int /\ Len(s) \in Int
      BY <1>1, <1>3
    <3> QED
      BY <2>1, <3>1, SubSeqProperties
  <2>4. p \o t = SubSeq(s, 1, Len(s))
    <3>1. 1 \in 1..(Len(s) + 1) /\ x \in (1 - 1)..Len(s) /\ Len(s) \in x..Len(s)
      BY <1>1, <1>3
    <3> QED
      BY <1>1, <3>1, ConcatAdjacentSubSeq
  <2>5. SubSeq(s, 1, Len(s)) = s
    BY <1>1, SubSeqFull
  <2> HIDE DEF p, t
  <2> QED
    BY <1>1, <1>3, <2>2, <2>3, <2>4, <2>5
<1> HIDE DEF p, t
<1>6. e.arq \o p \in Seq(Nat) /\ Len(e.arq \o p) = e.off + x
  <2>1. e.arq \in Seq(Nat) /\ p \in Seq(Nat) /\ Len(p) = x
    BY <1>0, <1>5
  <2>2. e.arq \o p \in Seq(Nat) /\ Len(e.arq \o p) = Len(e.arq) + Len(p)
    BY <2>1, Joined
  <2> QED
    BY <1>0, <2>1, <2>2
<1> DEFINE g == escrever(e, dados)
<1>7. g = [buf |-> t, arq |-> e.arq \o p, off |-> e.off + x, cap |-> e.cap]
  <2>1. f = [buf |-> e.buf, arq |-> e.arq \o p, off |-> e.off + x, cap |-> e.cap]
    BY <1>0, <1>4
  <2> QED
    BY <1>2, <2>1
<1> HIDE DEF g
<1>8. Multiplo(e.off + x)
  <2>1. PICK c \in Nat : e.off = c * B
    BY DEF EmDia, Multiplo
  <2>2. (c + q) * B = c * B + q * B /\ c + q \in Nat
    BY <1>0, <1>3
  <2> QED
    BY <2>1, <2>2 DEF Multiplo, x
<1>9. EmDia(g)
  <2>1. Len(t) < B /\ e.off + x \in Nat
    <3>1. Len(t) < B
      BY <1>3, <1>5
    <3>2. e.off \in Nat
      BY <1>0
    <3> QED
      BY <1>3, <3>1, <3>2
  <2>2. g \in Escritores
    BY <1>0, <1>5, <1>6, <1>7, <2>1 DEF Escritores
  <2>3. g.off = Len(g.arq) /\ Multiplo(g.off) /\ Len(g.buf) < B
    BY <1>6, <1>7, <1>8, <2>1
  <2> QED
    BY <2>2, <2>3 DEF EmDia
<1>10. Escrito(g) = Escrito(e) \o dados
  <2>1. Escrito(g) = (e.arq \o p) \o t
    BY <1>7 DEF Escrito
  <2>2. (e.arq \o p) \o t = e.arq \o s
    <3>1. (e.arq \o p) \o t = e.arq \o (p \o t)
      BY <1>0, <1>5, JoinedTwice, ZenonT(20)
    <3> QED
      BY <1>5, <3>1
  <2>3. e.arq \o s = (e.arq \o e.buf) \o dados
    BY <1>0, JoinedTwice DEF s
  <2> QED
    BY <2>1, <2>2, <2>3 DEF Escrito
<1>11. g.cap = e.cap
  BY <1>7
<1> QED
  BY <1>9, <1>10, <1>11 DEF g

\* Closing pads the last block.
LEMMA ClosePads ==
    ASSUME NEW e, EmDia(e), Len(Escrito(e)) + B < e.cap
    PROVE  /\ Escrito(e) \in Seq(Nat) /\ fechar(e, TRUE).arq \in Seq(Nat)
           /\ Multiplo(Len(fechar(e, TRUE).arq))
           /\ Len(Escrito(e)) <= Len(fechar(e, TRUE).arq)
           /\ \A x \in 1..Len(Escrito(e)) : fechar(e, TRUE).arq[x] = Escrito(e)[x]
           /\ \A x \in (Len(Escrito(e)) + 1)..Len(fechar(e, TRUE).arq) : fechar(e, TRUE).arq[x] = 0
<1> DEFINE a == Escrito(e)
           f == fechar(e, TRUE).arq
<1>0. /\ B \in Nat /\ B >= 2 /\ e \in Escritores /\ e.arq \in Seq(Nat) /\ Len(e.arq) \in Nat /\ e.off = Len(e.arq)
      /\ e.cap \in Nat /\ e.buf \in Seq(Nat) /\ Len(e.buf) \in Nat /\ Len(e.buf) < B
      /\ DOMAIN e = {"buf", "arq", "off", "cap"} /\ Multiplo(e.off)
  BY SizesOfCapacity DEF EmDia, Escritores
<1>1. a \in Seq(Nat) /\ Len(a) = Len(e.arq) + Len(e.buf)
  BY <1>0, Joined DEF Escrito
<1>2. CASE e.buf = <<>>
  <2>1. f = e.arq
    BY <1>2 DEF fechar
  <2>2. a = e.arq
    BY <1>0, <1>2 DEF Escrito
  <2>3. Len(a) \in Nat /\ Len(a) <= Len(a) /\ (Len(a) + 1)..Len(a) = {}
    BY <1>0, <2>2
  <2> HIDE DEF a, f
  <2> QED
    BY <1>0, <1>1, <2>1, <2>2, <2>3 DEF a, f
<1>3. CASE e.buf # <<>>
  <2> DEFINE z == [x \in 1..(B - Len(e.buf)) |-> 0]
             b == e.buf \o z
  <2>1. z \in Seq(Nat) /\ Len(z) = B - Len(e.buf) /\ \A x \in 1..Len(z) : z[x] = 0
    BY <1>0
  <2>2. fechar(e, TRUE) = [descarregar(e, b) EXCEPT !.buf = <<>>]
    BY <1>3 DEF fechar
  <2> HIDE DEF z
  <2>3. b \in Seq(Nat) /\ Len(b) = B
    <3>1. b \in Seq(Nat) /\ Len(b) = Len(e.buf) + Len(z)
      BY <1>0, <2>1, Joined
    <3> HIDE DEF b
    <3> QED
      BY <1>0, <2>1, <3>1
  <2>4. descarregar(e, b) = [e EXCEPT !.arq = e.arq \o b, !.off = e.off + B]
    <3>1. e.off + B < e.cap
      BY <1>0, <1>1
    <3> HIDE DEF b
    <3> QED
      BY <1>0, <2>3, <3>1, FlushAppends
  <2>5. f = e.arq \o b
    <3> HIDE DEF b
    <3> QED
      BY <1>0, <2>2, <2>4
  <2>6. f = a \o z
    BY <1>0, <2>1, <2>5, JoinedTwice DEF Escrito
  <2>7. /\ f \in Seq(Nat) /\ Len(f) = Len(a) + Len(z) /\ Len(a) \in Nat /\ Len(z) \in Nat
        /\ \A x \in 1..Len(a) : f[x] = a[x]
        /\ \A x \in 1..Len(z) : f[Len(a) + x] = z[x]
    <3> HIDE DEF a, f
    <3> QED
      BY <1>1, <2>1, <2>6, Joined
  <2>8. Len(f) = e.off + B
    <3> HIDE DEF b, f, a
    <3> QED
      BY <1>0, <1>1, <2>1, <2>7
  <2>9. Multiplo(Len(f))
    <3>1. PICK c \in Nat : e.off = c * B
      BY <1>0 DEF Multiplo
    <3>2. (c + 1) * B = c * B + B /\ c + 1 \in Nat
      BY <1>0
    <3> HIDE DEF f
    <3> QED
      BY <2>8, <3>1, <3>2 DEF Multiplo
  <2>10. \A x \in (Len(a) + 1)..Len(f) : f[x] = 0
    <3> HIDE DEF a, f
    <3> SUFFICES ASSUME NEW x \in (Len(a) + 1)..Len(f) PROVE f[x] = 0
      OBVIOUS
    <3>1. x - Len(a) \in 1..Len(z) /\ Len(a) + (x - Len(a)) = x
      BY <2>7
    <3>2. f[x] = z[x - Len(a)]
      BY <2>7, <3>1
    <3> QED
      BY <2>1, <3>1, <3>2
  <2>11. Len(a) <= Len(f)
    <3> HIDE DEF a, f
    <3> QED
      BY <2>7
  <2> HIDE DEF a, f
  <2> QED
    BY <1>1, <2>7, <2>9, <2>10, <2>11 DEF a, f
<1> QED
  BY <1>2, <1>3

----------------------------------------------------------------------------
(***************************************************************************)
(* Frames in a file.                                                       *)
(***************************************************************************)
LEMMA BlockOfInput ==
    ASSUME NEW b \in 1..NBlocos
    PROVE  /\ Clen[b] \in 1..(2 * B) /\ Clen[b] \in Nat \ {0} /\ B \in Nat \ {0, 1}
           /\ Comprimido(b) \in Seq(Nat) /\ Len(Comprimido(b)) = Clen[b]
<1>1. Clen[b] \in 1..(2 * B) /\ B \in Nat /\ B >= 2 /\ b \in Nat
  BY SizesOfCapacity
<1>2. Clen[b] \in Nat \ {0} /\ B \in Nat \ {0, 1}
  BY <1>1
<1>3. \A c \in Nat : [j \in 1..c |-> 100 + b] \in Seq(Nat) /\ Len([j \in 1..c |-> 100 + b]) = c
  BY <1>1
<1> QED
  BY <1>1, <1>2, <1>3 DEF Comprimido

\* A part of a part, and a part of what a sequence begins with.
Trecho(t, s, p) ==
    /\ \A y \in 1..Len(t) : t[y] = s[p + y]
    /\ \A a \in Nat \ {0}, z \in Nat : z <= Len(t) => SubSeq(t, a, z) = SubSeq(s, p + a, p + z)

LEMMA PartOfPart ==
    ASSUME NEW s \in Seq(Nat), NEW p \in Nat, NEW o \in Nat, p <= o, o <= Len(s)
    PROVE  /\ SubSeq(s, p + 1, o) \in Seq(Nat) /\ Len(SubSeq(s, p + 1, o)) = o - p
           /\ Trecho(SubSeq(s, p + 1, o), s, p)
<1> DEFINE t == SubSeq(s, p + 1, o)
<1>1. \A y \in (p + 1)..o : s[y] \in Nat
  <2>1. \A y \in (p + 1)..o : y \in 1..Len(s)
    OBVIOUS
  <2> QED
    BY <2>1
<1>2. t \in Seq(Nat) /\ Len(t) = o - p /\ \A y \in 1..(o - p) : t[y] = s[p + y]
  <2>1. p + 1 \in Int /\ o \in Int
    OBVIOUS
  <2>2. /\ t \in Seq(Nat) /\ Len(t) = IF p + 1 <= o THEN o - (p + 1) + 1 ELSE 0
        /\ \A y \in 1..(o - (p + 1) + 1) : t[y] = s[(p + 1) + y - 1]
    BY <1>1, <2>1, SubSeqProperties
  <2>3. o - (p + 1) + 1 = o - p
    OBVIOUS
  <2> HIDE DEF t
  <2>4. \A y \in 1..(o - p) : (p + 1) + y - 1 = p + y
    OBVIOUS
  <2>5. Len(t) = o - p
    BY <2>2
  <2> QED
    BY <2>2, <2>3, <2>4, <2>5
<1> HIDE DEF t
<1>3. ASSUME NEW a \in Nat \ {0}, NEW z \in Nat, z <= o - p
      PROVE  SubSeq(t, a, z) = SubSeq(s, p + a, p + z)
  <2>1. SubSeq(t, a, z) = [x \in 1..(1 + z - a) |-> t[a + x - 1]]
    BY <1>2
  <2>2. SubSeq(s, p + a, p + z) = [x \in 1..(1 + (p + z) - (p + a)) |-> s[(p + a) + x - 1]]
    OBVIOUS
  <2>3. 1 + (p + z) - (p + a) = 1 + z - a
    OBVIOUS
  <2>4. ASSUME NEW x \in 1..(1 + z - a) PROVE t[a + x - 1] = s[(p + a) + x - 1]
    <3>1. a + x - 1 \in 1..(o - p) /\ p + (a + x - 1) = (p + a) + x - 1
      BY <1>3
    <3> QED
      BY <1>2, <3>1
  <2> QED
    BY <2>1, <2>2, <2>3, <2>4
<1>4. Trecho(t, s, p)
  BY <1>2, <1>3 DEF Trecho
<1> QED
  BY <1>2, <1>4 DEF t

LEMMA PartOfPrefix ==
    ASSUME NEW s \in Seq(Nat), NEW t \in Seq(Nat), Len(s) <= Len(t),
           \A y \in 1..Len(s) : t[y] = s[y], NEW a \in Nat \ {0}, NEW z \in Nat, z <= Len(s)
    PROVE  SubSeq(t, a, z) = SubSeq(s, a, z)
<1>1. SubSeq(t, a, z) = [x \in 1..(1 + z - a) |-> t[a + x - 1]]
  OBVIOUS
<1>2. SubSeq(s, a, z) = [x \in 1..(1 + z - a) |-> s[a + x - 1]]
  OBVIOUS
<1>3. ASSUME NEW x \in 1..(1 + z - a) PROVE t[a + x - 1] = s[a + x - 1]
  <2>1. a + x - 1 \in 1..Len(s)
    OBVIOUS
  <2> QED
    BY <2>1
<1> QED
  BY <1>1, <1>2, <1>3

\* The frames of a file are those of what it begins with.
LEMMA FramesStay ==
    ASSUME NEW s \in Seq(Nat), NEW t \in Seq(Nat), Len(s) <= Len(t), \A y \in 1..Len(s) : t[y] = s[y],
           NEW P, NEW r \in Nat, NEW m \in Nat, r + m <= NBlocos, Gravado(s, P, r, m)
    PROVE  Gravado(t, P, r, m)
<1>1. /\ P \in [0..m -> Nat] /\ P[0] = 0 /\ NBlocos \in Nat
      /\ \A x \in 1..m :
            /\ P[x] = P[x - 1] + 2 + Clen[r + x] /\ P[x] <= Len(s) /\ P[x] <= x * (3 * B)
            /\ s[P[x - 1] + 1] = B /\ s[P[x - 1] + 2] = Clen[r + x]
            /\ SubSeq(s, P[x - 1] + 3, P[x]) = Comprimido(r + x)
  BY SizesOfCapacity DEF Gravado
<1>2. ASSUME NEW x \in 1..m
      PROVE  /\ P[x] = P[x - 1] + 2 + Clen[r + x] /\ P[x] <= Len(t) /\ P[x] <= x * (3 * B)
             /\ t[P[x - 1] + 1] = B /\ t[P[x - 1] + 2] = Clen[r + x]
             /\ SubSeq(t, P[x - 1] + 3, P[x]) = Comprimido(r + x)
  <2>1. x \in 0..m /\ x - 1 \in 0..m /\ r + x \in 1..NBlocos
    BY <1>1
  <2>2. P[x] \in Nat /\ P[x - 1] \in Nat /\ Clen[r + x] \in Nat
    BY <1>1, <2>1, BlockOfInput
  <2>3. P[x] = P[x - 1] + 2 + Clen[r + x] /\ P[x] <= Len(s)
    BY <1>1
  <2>4. P[x - 1] + 1 \in 1..Len(s) /\ P[x - 1] + 2 \in 1..Len(s) /\ P[x - 1] + 3 \in Nat \ {0} /\ P[x] <= Len(t)
    <3> DEFINE p == P[x - 1]
               q == P[x]
               c == Clen[r + x]
    <3>1. /\ p \in Nat /\ q \in Nat /\ c \in Nat /\ q = p + 2 + c /\ q <= Len(s)
      BY <2>2, <2>3
    <3>a. Len(s) \in Nat /\ Len(t) \in Nat /\ Len(s) <= Len(t)
      OBVIOUS
    <3> HIDE DEF p, q, c
    <3>2. p + 1 \in 1..Len(s) /\ p + 2 \in 1..Len(s) /\ p + 3 \in Nat \ {0} /\ q <= Len(t)
      BY <3>1, <3>a
    <3> QED
      BY <3>2 DEF p, q
  <2>5. SubSeq(t, P[x - 1] + 3, P[x]) = SubSeq(s, P[x - 1] + 3, P[x])
    BY <2>2, <2>3, <2>4, PartOfPrefix
  <2> QED
    BY <1>1, <2>4, <2>5
<1> QED
  BY <1>1, <1>2 DEF Gravado

\* The frames of a file and where the last ends.
LEMMA FramesEnd ==
    ASSUME NEW s \in Seq(Nat), NEW P, NEW r \in Nat, NEW m \in Nat, r + m <= NBlocos,
           Gravado(s, P, r, m)
    PROVE  /\ P[m] \in Nat /\ P[m] <= Len(s) /\ P[m] <= m * (3 * B) /\ P[m] + 2 * B <= CapPreparo
           /\ r + m + 1 <= NBlocos => P[m] + 5 * B <= CapPreparo
<1>1. /\ P \in [0..m -> Nat] /\ P[0] = 0 /\ NBlocos \in Nat /\ B \in Nat
      /\ \A x \in 1..m : P[x] <= Len(s) /\ P[x] <= x * (3 * B)
  BY SizesOfCapacity DEF Gravado
<1>2. P[m] \in Nat
  BY <1>1
<1>3. P[m] <= Len(s) /\ P[m] <= m * (3 * B)
  <2>1. CASE m = 0
    <3>1. Len(s) \in Nat /\ 0 * (3 * B) = 0
      BY <1>1
    <3> QED
      BY <1>1, <2>1, <3>1
  <2>2. CASE m # 0
    <3>1. m \in 1..m
      BY <2>2
    <3> QED
      BY <1>1, <3>1
  <2> QED
    BY <2>1, <2>2
<1>4. m * (3 * B) <= 3 * B * NBlocos /\ m * (3 * B) \in Nat /\ 3 * B * NBlocos \in Nat
  <2>1. \A x, y, z \in Nat : x <= y => x * (3 * z) <= 3 * z * y /\ x * (3 * z) \in Nat /\ 3 * z * y \in Nat
    OBVIOUS
  <2>2. m <= NBlocos
    BY <1>1
  <2> QED
    BY <1>1, <2>1, <2>2
<1>5. P[m] + 2 * B <= CapPreparo
  <2> DEFINE y == m * (3 * B)
             z == 3 * B * NBlocos
  <2>1. y <= z /\ y \in Nat /\ z \in Nat /\ P[m] <= y
    BY <1>3, <1>4
  <2>2. CapPreparo = z + 2 * B
    BY DEF CapPreparo
  <2> HIDE DEF y, z
  <2> QED
    BY <1>1, <1>2, <2>1, <2>2
<1>6. ASSUME r + m + 1 <= NBlocos PROVE P[m] + 5 * B <= CapPreparo
  <2> DEFINE y == m * (3 * B)
             z == 3 * B * NBlocos
  <2>1. \A v, x, k \in Nat : v + 1 <= x => v * (3 * k) + 3 * k <= 3 * k * x
    <3> SUFFICES ASSUME NEW v \in Nat, NEW x \in Nat, NEW k \in Nat, v + 1 <= x
                 PROVE  v * (3 * k) + 3 * k <= 3 * k * x
      OBVIOUS
    <3>1. (v + 1) * (3 * k) <= x * (3 * k) /\ (v + 1) * (3 * k) = v * (3 * k) + 3 * k /\ x * (3 * k) = 3 * k * x
      OBVIOUS
    <3> QED
      BY <3>1
  <2>2. m + 1 <= NBlocos
    BY <1>1, <1>6
  <2>3. y + 3 * B <= z /\ y \in Nat /\ z \in Nat /\ P[m] <= y
    BY <1>1, <1>3, <1>4, <2>1, <2>2
  <2>4. CapPreparo = z + 2 * B
    BY DEF CapPreparo
  <2> HIDE DEF y, z
  <2> QED
    BY <1>1, <1>2, <2>3, <2>4
<1> QED
  BY <1>2, <1>3, <1>5, <1>6

\* The next frame.
LEMMA FrameAdded ==
    ASSUME NEW s \in Seq(Nat), NEW r \in Nat, NEW m \in Nat, r + m + 1 <= NBlocos, Quadros(s, r, m)
    PROVE  Quadros((s \o <<B, Clen[r + m + 1]>>) \o Comprimido(r + m + 1), r, m + 1)
<1> DEFINE b == r + m + 1
           c == Clen[b]
           g == Comprimido(b)
           h == <<B, c>>
           u == s \o h
           t == u \o g
<1>p. PICK P : Gravado(s, P, r, m) /\ P[m] = Len(s)
  BY DEF Quadros
<1> DEFINE Q == [x \in 0..(m + 1) |-> IF x = m + 1 THEN Len(t) ELSE P[x]]
<1>0. NBlocos \in Nat /\ b \in 1..NBlocos
  BY SizesOfCapacity
<1> HIDE DEF b
<1>1. c \in 1..(2 * B) /\ c \in Nat /\ B \in Nat /\ B >= 2 /\ g \in Seq(Nat) /\ Len(g) = c
  <2>1. /\ Clen[b] \in 1..(2 * B) /\ Clen[b] \in Nat /\ B \in Nat /\ B >= 2
        /\ g \in Seq(Nat) /\ Len(g) = Clen[b]
    BY <1>0, BlockOfInput
  <2> HIDE DEF g
  <2> QED
    BY <2>1 DEF c
<1> HIDE DEF c, g
<1>2. h \in Seq(Nat) /\ Len(h) = 2 /\ h[1] = B /\ h[2] = c
  BY <1>1
<1> HIDE DEF h
<1>3. /\ u \in Seq(Nat) /\ Len(u) = Len(s) + 2 /\ Len(s) \in Nat
      /\ \A x \in 1..Len(s) : u[x] = s[x]
      /\ u[Len(s) + 1] = B /\ u[Len(s) + 2] = c
  <2>1. /\ u \in Seq(Nat) /\ Len(u) = Len(s) + Len(h) /\ Len(s) \in Nat
        /\ \A x \in 1..Len(s) : u[x] = s[x]
        /\ \A x \in 1..Len(h) : u[Len(s) + x] = h[x]
    BY <1>2, Joined
  <2>2. 1 \in 1..Len(h) /\ 2 \in 1..Len(h)
    BY <1>2
  <2> HIDE DEF u
  <2> QED
    BY <1>2, <2>1, <2>2
<1> HIDE DEF u
<1>4. /\ t \in Seq(Nat) /\ Len(t) = Len(s) + 2 + c
      /\ \A x \in 1..Len(u) : t[x] = u[x]
      /\ \A x \in 1..c : t[Len(u) + x] = g[x]
  <2>1. /\ t \in Seq(Nat) /\ Len(t) = Len(u) + Len(g)
        /\ \A x \in 1..Len(u) : t[x] = u[x]
        /\ \A x \in 1..Len(g) : t[Len(u) + x] = g[x]
    BY <1>1, <1>3, Joined
  <2> HIDE DEF t
  <2> QED
    BY <1>1, <1>3, <2>1
<1> HIDE DEF t
<1>5. /\ \A x \in 1..Len(s) : t[x] = s[x]
      /\ t[Len(s) + 1] = B /\ t[Len(s) + 2] = c /\ Len(s) <= Len(t)
  <2>1. \A x \in 1..Len(s) : x \in 1..Len(u)
    BY <1>3
  <2>2. Len(s) + 1 \in 1..Len(u) /\ Len(s) + 2 \in 1..Len(u)
    BY <1>3
  <2>3. Len(s) <= Len(t)
    BY <1>1, <1>3, <1>4
  <2> QED
    BY <1>3, <1>4, <2>1, <2>2, <2>3
<1>6. SubSeq(t, Len(s) + 3, Len(t)) = g
  <2>1. SubSeq(t, Len(s) + 3, Len(t)) = [x \in 1..(1 + Len(t) - (Len(s) + 3)) |-> t[(Len(s) + 3) + x - 1]]
    <3>1. t \in Seq(Nat) /\ Len(s) + 3 \in Nat /\ Len(t) \in Nat
      BY <1>3, <1>4
    <3>2. \A v \in Seq(Nat), y, z \in Nat : SubSeq(v, y, z) = [x \in 1..(1 + z - y) |-> v[y + x - 1]]
      OBVIOUS
    <3> QED
      BY <3>1, <3>2
  <2>2. 1 + Len(t) - (Len(s) + 3) = c
    BY <1>1, <1>3, <1>4
  <2>3. \A x \in 1..c : t[(Len(s) + 3) + x - 1] = g[x]
    <3>1. \A x \in 1..c : (Len(s) + 3) + x - 1 = Len(u) + x
      BY <1>1, <1>3
    <3> QED
      BY <1>4, <3>1
  <2>4. g = [x \in 1..c |-> g[x]]
    BY <1>1
  <2> QED
    BY <2>1, <2>2, <2>3, <2>4
<1>7. Gravado(t, P, r, m) /\ P[m] \in Nat /\ P[m] <= m * (3 * B)
  <2>1. r + m <= NBlocos
    BY <1>0
  <2> QED
    BY <1>4, <1>5, <1>p, <2>1, FramesStay, FramesEnd
<1>8. /\ Q \in [0..(m + 1) -> Nat] /\ Q[m + 1] = Len(t) /\ \A x \in 0..m : Q[x] = P[x]
  <2>1. P \in [0..m -> Nat] /\ Len(t) \in Nat
    BY <1>4, <1>7 DEF Gravado
  <2>2. m + 1 \in 0..(m + 1) /\ \A x \in 0..m : x \in 0..(m + 1) /\ x # m + 1
    OBVIOUS
  <2>3. \A x \in 0..(m + 1) : x = m + 1 \/ x \in 0..m
    OBVIOUS
  <2> QED
    BY <2>1, <2>2, <2>3
<1> HIDE DEF Q
<1>9. ASSUME NEW x \in 1..(m + 1)
      PROVE  /\ Q[x] = Q[x - 1] + 2 + Clen[r + x] /\ Q[x] <= Len(t) /\ Q[x] <= x * (3 * B)
             /\ t[Q[x - 1] + 1] = B /\ t[Q[x - 1] + 2] = Clen[r + x]
             /\ SubSeq(t, Q[x - 1] + 3, Q[x]) = Comprimido(r + x)
  <2>1. CASE x = m + 1
    <3>1. Q[x] = Len(t) /\ Q[x - 1] = Len(s) /\ r + x = b
      BY <1>8, <1>p, <2>1 DEF b
    <3>2. Q[x] <= x * (3 * B)
      <4>1. (m + 1) * (3 * B) = m * (3 * B) + 3 * B /\ m * (3 * B) \in Nat
        BY <1>1
      <4> DEFINE y == m * (3 * B)
      <4>2. y \in Nat /\ Len(s) <= y
        BY <1>7, <1>p, <4>1
      <4>3. (m + 1) * (3 * B) = y + 3 * B
        BY <4>1
      <4> HIDE DEF y
      <4>4. Len(t) <= y + 3 * B
        BY <1>1, <1>3, <1>4, <4>2
      <4> QED
        BY <2>1, <3>1, <4>3, <4>4
    <3>3. Len(t) <= Len(t)
      BY <1>4
    <3> QED
      BY <1>4, <1>5, <1>6, <3>1, <3>2, <3>3 DEF c, g
  <2>2. CASE x # m + 1
    <3>1. x \in 1..m /\ x \in 0..m /\ x - 1 \in 0..m
      BY <2>2
    <3>2. Q[x] = P[x] /\ Q[x - 1] = P[x - 1]
      BY <1>8, <3>1
    <3> QED
      BY <1>7, <3>1, <3>2 DEF Gravado
  <2> QED
    BY <2>1, <2>2
<1>10. Q[0] = 0
  <2>1. 0 \in 0..m
    OBVIOUS
  <2> QED
    BY <1>7, <1>8, <2>1 DEF Gravado
<1>11. Gravado(t, Q, r, m + 1)
  BY <1>8, <1>9, <1>10 DEF Gravado
<1>12. Quadros(t, r, m + 1)
  BY <1>8, <1>11 DEF Quadros
<1> QED
  BY <1>12 DEF t, u, h, g, c, b

----------------------------------------------------------------------------
(***************************************************************************)
(* The writer of a preparation, and the reader.                            *)
(***************************************************************************)
\* A block adds its frame.
LEMMA FrameWritten ==
    ASSUME NEW e, NEW r \in Nat, NEW m \in Nat, r + m + 1 <= NBlocos, ComQuadros(e, r, m),
           NEW b, b = r + m + 1
    PROVE  ComQuadros(escrever(escrever(e, <<B, Len(Comprimido(b))>>), Comprimido(b)), r, m + 1)
<1> DEFINE s == Escrito(e)
           c == Comprimido(b)
           h == <<B, Clen[b]>>
           g == escrever(e, h)
           f == escrever(g, c)
<1>0. NBlocos \in Nat /\ b \in 1..NBlocos /\ r + m <= NBlocos
  BY SizesOfCapacity
<1>a. EmDia(e) /\ e.cap = CapPreparo
  BY DEF ComQuadros
<1>b. PICK P : Gravado(s, P, r, m) /\ P[m] = Len(s)
  BY DEF ComQuadros, Quadros
<1>1. Clen[b] \in 1..(2 * B) /\ Clen[b] \in Nat /\ B \in Nat /\ B >= 2 /\ c \in Seq(Nat) /\ Len(c) = Clen[b]
  BY <1>0, BlockOfInput
<1>2. h \in Seq(Nat) /\ Len(h) = 2 /\ h = <<B, Len(c)>>
  BY <1>1
<1>3. s \in Seq(Nat) /\ Len(s) \in Nat
  <2>1. e.arq \in Seq(Nat) /\ e.buf \in Seq(Nat)
    BY <1>a DEF EmDia, Escritores
  <2>2. \A u \in Seq(Nat) : Len(u) \in Nat
    OBVIOUS
  <2> QED
    BY <2>1, <2>2, Joined DEF Escrito
<1> HIDE DEF s
<1>4. Len(s) + 5 * B <= CapPreparo /\ CapPreparo \in Nat
  <2>1. Gravado(s, P, r, m) /\ P[m] = Len(s)
    BY <1>b
  <2>2. P[m] + 5 * B <= CapPreparo
    BY <1>0, <1>3, <2>1, FramesEnd
  <2> QED
    BY <2>1, <2>2, SizesOfCapacity
<1> HIDE DEF c, h
<1>5. Len(Escrito(e)) + Len(h) < e.cap
  <2>1. Len(s) + Len(h) < CapPreparo
    BY <1>1, <1>2, <1>3, <1>4
  <2> QED
    BY <1>a, <2>1 DEF s
<1>6. EmDia(g) /\ g.cap = CapPreparo /\ Escrito(g) = s \o h
  <2>1. EmDia(g) /\ g.cap = e.cap /\ Escrito(g) = Escrito(e) \o h
    BY <1>2, <1>5, <1>a, WriteAppends
  <2> QED
    BY <1>a, <2>1 DEF s
<1> HIDE DEF g
<1>7. s \o h \in Seq(Nat) /\ Len(s \o h) = Len(s) + 2
  <2>1. s \o h \in Seq(Nat) /\ Len(s \o h) = Len(s) + Len(h)
    BY <1>2, <1>3, Joined
  <2> QED
    BY <1>2, <2>1
<1>8. Len(Escrito(g)) + Len(c) < g.cap
  <2>1. Len(s) + 2 + Clen[b] < CapPreparo
    <3> DEFINE k == Clen[b]
    <3>1. k \in Nat /\ k <= 2 * B /\ B \in Nat /\ B >= 2 /\ Len(s) \in Nat /\ Len(s) + 5 * B <= CapPreparo
      BY <1>1, <1>3, <1>4
    <3> HIDE DEF k
    <3>2. Len(s) + 2 + k < CapPreparo
      BY <1>4, <3>1
    <3> QED
      BY <3>2 DEF k
  <2> QED
    BY <1>1, <1>6, <1>7, <2>1
<1>9. EmDia(f) /\ f.cap = CapPreparo /\ Escrito(f) = (s \o h) \o c
  <2>1. EmDia(f) /\ f.cap = g.cap /\ Escrito(f) = Escrito(g) \o c
    BY <1>1, <1>6, <1>8, WriteAppends
  <2> QED
    BY <1>6, <2>1
<1> HIDE DEF f
<1>10. Quadros((s \o h) \o c, r, m + 1)
  <2>1. Quadros(s, r, m)
    BY <1>b DEF Quadros
  <2>2. h = <<B, Clen[r + m + 1]>> /\ c = Comprimido(r + m + 1)
    BY DEF h, c
  <2> QED
    BY <1>3, <2>1, <2>2, FrameAdded
<1>11. f = escrever(escrever(e, <<B, Len(Comprimido(b))>>), Comprimido(b))
  BY <1>2 DEF f, g, c
<1>12. ComQuadros(f, r, m + 1)
  BY <1>9, <1>10 DEF ComQuadros
<1> QED
  BY <1>11, <1>12

\* A region that is done makes a whole file.
LEMMA FileClosed ==
    ASSUME NEW j \in 0..(NPrep - 1), NEW e, ComQuadros(e, Inicio(j), Quantos(j))
    PROVE  Inteiro(fechar(e, TRUE).arq, j)
<1> DEFINE s == Escrito(e)
           f == fechar(e, TRUE).arq
           r == Inicio(j)
           m == Quantos(j)
<1>a. EmDia(e) /\ e.cap = CapPreparo
  BY DEF ComQuadros
<1>1. r \in Nat /\ m \in Nat /\ r + m <= NBlocos
  BY Regions, SizesOfCapacity DEF Quantos
<1>2. s \in Seq(Nat)
  <2>1. e.arq \in Seq(Nat) /\ e.buf \in Seq(Nat)
    BY <1>a DEF EmDia, Escritores
  <2> QED
    BY <2>1, Joined DEF Escrito
<1>3. PICK P : Gravado(s, P, r, m) /\ P[m] = Len(s)
  BY DEF ComQuadros, Quadros
<1> HIDE DEF r, m
<1>4. Len(Escrito(e)) + B < e.cap
  <2>1. P[m] + 2 * B <= CapPreparo /\ P[m] \in Nat
    BY <1>1, <1>2, <1>3, FramesEnd
  <2>2. B \in Nat /\ B >= 2 /\ CapPreparo \in Nat
    BY SizesOfCapacity
  <2> HIDE DEF s
  <2>3. Len(s) + B < CapPreparo
    BY <1>3, <2>1, <2>2
  <2> QED
    BY <1>a, <2>3 DEF s
<1>5. /\ f \in Seq(Nat) /\ Multiplo(Len(f)) /\ Len(s) <= Len(f)
      /\ \A x \in 1..Len(s) : f[x] = s[x]
      /\ \A x \in (Len(s) + 1)..Len(f) : f[x] = 0
  BY <1>4, <1>a, ClosePads
<1> HIDE DEF s, f
<1>6. Gravado(f, P, r, m)
  BY <1>1, <1>2, <1>3, <1>5, FramesStay
<1>7. Completo(f, j, P)
  BY <1>3, <1>5, <1>6 DEF Completo, r, m
<1> QED
  BY <1>7 DEF Inteiro, f

\* What is left of a file behind its first m frames.
LEMMA FilePart ==
    ASSUME NEW j \in 0..(NPrep - 1), NEW s, NEW P, Completo(s, j, P), NEW m \in 0..Quantos(j)
    PROVE  /\ Inicio(j) \in Nat /\ Quantos(j) \in Nat \ {0} /\ m \in Nat
           /\ s \in Seq(Nat) /\ Len(s) \in Nat /\ P[m] \in Nat /\ P[m] <= Len(s)
           /\ m = Quantos(j) => \A y \in (P[m] + 1)..Len(s) : s[y] = 0
           /\ m < Quantos(j) =>
                 LET c == Clen[Inicio(j) + m + 1]
                 IN  /\ c \in Nat \ {0} /\ B \in Nat \ {0}
                     /\ P[m + 1] = P[m] + 2 + c /\ P[m + 1] <= Len(s)
                     /\ s[P[m] + 1] = B /\ s[P[m] + 2] = c
                     /\ SubSeq(s, P[m] + 3, P[m + 1]) = Comprimido(Inicio(j) + m + 1)
<1>1. Inicio(j) \in Nat /\ Quantos(j) \in Nat \ {0} /\ Inicio(j) + Quantos(j) <= NBlocos /\ NBlocos \in Nat
  BY Regions, SizesOfCapacity DEF Quantos
<1>2. /\ s \in Seq(Nat) /\ Gravado(s, P, Inicio(j), Quantos(j))
      /\ \A y \in (P[Quantos(j)] + 1)..Len(s) : s[y] = 0
  BY DEF Completo
<1> DEFINE q == Quantos(j)
           r == Inicio(j)
<1> HIDE DEF q, r
<1>3. m \in Nat /\ m \in 0..q /\ m <= q /\ q \in Nat /\ r \in Nat
  BY <1>1 DEF q, r
<1>4. /\ P \in [0..q -> Nat] /\ P[0] = 0
      /\ \A x \in 1..q :
            /\ P[x] = P[x - 1] + 2 + Clen[r + x] /\ P[x] <= Len(s)
            /\ s[P[x - 1] + 1] = B /\ s[P[x - 1] + 2] = Clen[r + x]
            /\ SubSeq(s, P[x - 1] + 3, P[x]) = Comprimido(r + x)
  BY <1>2 DEF Gravado, q, r
<1>5. P[m] \in Nat /\ Len(s) \in Nat
  BY <1>2, <1>3, <1>4
<1>6. P[m] <= Len(s)
  <2>1. CASE m = 0
    BY <1>4, <1>5, <2>1
  <2>2. CASE m # 0
    <3>1. m \in 1..q
      BY <1>3, <2>2
    <3> QED
      BY <1>4, <3>1
  <2> QED
    BY <2>1, <2>2
<1>7. ASSUME m < q
      PROVE  LET c == Clen[r + m + 1]
             IN  /\ c \in Nat \ {0} /\ B \in Nat \ {0}
                 /\ P[m + 1] = P[m] + 2 + c /\ P[m + 1] <= Len(s)
                 /\ s[P[m] + 1] = B /\ s[P[m] + 2] = c
                 /\ SubSeq(s, P[m] + 3, P[m + 1]) = Comprimido(r + m + 1)
  <2>1. m + 1 \in 1..q /\ (m + 1) - 1 = m /\ r + (m + 1) = r + m + 1 /\ r + m + 1 \in 1..NBlocos
    BY <1>1, <1>3, <1>7 DEF q, r
  <2>2. Clen[r + m + 1] \in Nat \ {0} /\ B \in Nat \ {0}
    BY <2>1, BlockOfInput
  <2> QED
    BY <1>4, <2>1, <2>2
<1> QED
  BY <1>1, <1>2, <1>3, <1>5, <1>6, <1>7 DEF q, r

\* Where a file that has been opened is read from.
LEMMA FileOpened ==
    ASSUME NEW j \in 0..(NPrep - 1), NEW s, Inteiro(s, j), NEW l,
           l.off = 0, l.pend = <<>>, l.fim_arq = FALSE
    PROVE  \E P : Lugar(l, s, j, P, 0)
<1>1. PICK P : Completo(s, j, P)
  BY DEF Inteiro
<1>2. /\ Quantos(j) \in Nat \ {0} /\ s \in Seq(Nat) /\ Len(s) \in Nat
      /\ P[0] \in Nat /\ P[0 + 1] = P[0] + 2 + Clen[Inicio(j) + 0 + 1] /\ P[0 + 1] <= Len(s)
      /\ Clen[Inicio(j) + 0 + 1] \in Nat
  <2>1. 0 \in 0..Quantos(j) /\ 0 < Quantos(j)
    BY Regions
  <2> QED
    BY <1>1, <2>1, FilePart
<1>3. P[0] = 0
  BY <1>1 DEF Completo, Gravado
<1>4. Len(s) # 0 /\ 0 \in 0..Len(s) /\ 0 \in 0..Quantos(j)
  BY <1>2, <1>3
<1>5. SubSeq(s, 0 + 1, 0) = <<>>
  BY <1>2, SubSeqEmpty
<1>6. Multiplo(0)
  BY SizesOfCapacity DEF Multiplo
<1> QED
  BY <1>1, <1>3, <1>4, <1>5, <1>6 DEF Lugar

\* What is pending.
LEMMA Pending ==
    ASSUME NEW j \in 0..(NPrep - 1), NEW l, NEW s, NEW P, NEW m, Lugar(l, s, j, P, m)
    PROVE  /\ l.off \in Nat /\ P[m] <= l.off /\ l.off <= Len(s)
           /\ l.pend \in Seq(Nat) /\ Len(l.pend) = l.off - P[m] /\ Len(l.pend) \in Nat
           /\ Trecho(l.pend, s, P[m])
<1>1. s \in Seq(Nat) /\ Len(s) \in Nat /\ P[m] \in Nat /\ P[m] <= Len(s)
  BY FilePart DEF Lugar
<1>2. l.off \in P[m]..Len(s) /\ l.pend = SubSeq(s, P[m] + 1, l.off)
  BY DEF Lugar
<1>3. l.off \in Nat /\ P[m] <= l.off /\ l.off <= Len(s)
  BY <1>1, <1>2
<1>4. l.pend \in Seq(Nat) /\ Len(l.pend) = l.off - P[m] /\ Trecho(l.pend, s, P[m])
  BY <1>1, <1>2, <1>3, PartOfPart
<1>5. Len(l.pend) \in Nat
  BY <1>4
<1> QED
  BY <1>1, <1>3, <1>4, <1>5

\* A frame that can be taken is the next block's.
TemQuadro(p) == Len(p) >= 2 /\ p[1] # 0 /\ Len(p) >= 2 + p[2]

LEMMA FrameTaken ==
    ASSUME NEW j \in 0..(NPrep - 1), NEW l, NEW s, NEW P, NEW m, Lugar(l, s, j, P, m), TemQuadro(l.pend),
           NEW l2, l2.off = l.off, l2.fim_arq = l.fim_arq,
           l2.pend = SubSeq(l.pend, 3 + l.pend[2], Len(l.pend))
    PROVE  /\ m < Quantos(j) /\ Lugar(l2, s, j, P, m + 1)
           /\ SubSeq(l.pend, 3, 2 + l.pend[2]) = Comprimido(Inicio(j) + m + 1)
<1> DEFINE p == l.pend
           n == Len(p)
           a == P[m]
           c == Clen[Inicio(j) + m + 1]
<1>0. m \in 0..Quantos(j) /\ Completo(s, j, P)
  BY DEF Lugar
<1>1. /\ Quantos(j) \in Nat /\ m \in Nat /\ s \in Seq(Nat) /\ Len(s) \in Nat /\ a \in Nat
      /\ m = Quantos(j) => \A y \in (a + 1)..Len(s) : s[y] = 0
      /\ m < Quantos(j) =>
            /\ c \in Nat \ {0} /\ P[m + 1] = a + 2 + c /\ P[m + 1] <= Len(s)
            /\ s[a + 1] = B /\ s[a + 2] = c
            /\ SubSeq(s, a + 3, P[m + 1]) = Comprimido(Inicio(j) + m + 1)
  BY <1>0, FilePart
<1>2. l.off \in Nat /\ a <= l.off /\ l.off <= Len(s) /\ n = l.off - a /\ n \in Nat /\ Trecho(p, s, a)
  BY Pending
<1>3. n >= 2 /\ p[1] # 0 /\ n >= 2 + p[2]
  BY DEF TemQuadro
<1> DEFINE z == Len(s)
           o == l.off
           u == P[m + 1]
<1> HIDE DEF c, a, p, n, z, o, u
<1>a. a \in Nat /\ z \in Nat /\ o \in Nat /\ n \in Nat /\ a <= o /\ o <= z /\ n = o - a /\ n >= 2
  BY <1>1, <1>2, <1>3 DEF z, o
<1>4. p[1] = s[a + 1] /\ p[2] = s[a + 2]
  <2>1. 1 \in 1..n /\ 2 \in 1..n
    BY <1>a
  <2> QED
    BY <1>2, <2>1 DEF Trecho, n
<1>5. m < Quantos(j)
  <2>1. a + 1 \in (a + 1)..z
    BY <1>a
  <2>2. m = Quantos(j) => s[a + 1] = 0
    BY <1>1, <2>1 DEF z
  <2>3. m # Quantos(j)
    BY <1>3, <1>4, <2>2
  <2> QED
    BY <1>0, <1>1, <2>3
<1>b. /\ c \in Nat \ {0} /\ u = a + 2 + c /\ u <= z /\ s[a + 1] = B /\ s[a + 2] = c
      /\ SubSeq(s, a + 3, u) = Comprimido(Inicio(j) + m + 1)
  BY <1>1, <1>5 DEF u, z
<1>6. p[2] = c /\ c \in Nat \ {0} /\ u = a + 2 + c /\ u \in Nat /\ n >= 2 + c
  <2>1. p[2] = c
    BY <1>4, <1>b
  <2>2. c \in Nat \ {0} /\ u = a + 2 + c /\ n >= 2 + c
    BY <1>3, <1>b, <2>1
  <2> QED
    BY <1>a, <2>1, <2>2
<1>7. SubSeq(p, 3, 2 + p[2]) = Comprimido(Inicio(j) + m + 1)
  <2>1. 2 + c \in Nat /\ 3 \in Nat \ {0} /\ 2 + c <= n
    BY <1>a, <1>6
  <2>2. SubSeq(p, 3, 2 + c) = SubSeq(s, a + 3, a + (2 + c))
    BY <1>2, <2>1 DEF Trecho, n
  <2>3. a + (2 + c) = u
    BY <1>a, <1>6
  <2> QED
    BY <1>6, <1>b, <2>2, <2>3
<1>8. l2.pend = SubSeq(s, u + 1, o)
  <2>1. 3 + c \in Nat \ {0} /\ n \in Nat /\ n <= n
    BY <1>a, <1>6
  <2>2. SubSeq(p, 3 + c, n) = SubSeq(s, a + (3 + c), a + n)
    BY <1>2, <2>1 DEF Trecho, n
  <2>3. a + (3 + c) = u + 1 /\ a + n = o
    BY <1>a, <1>6
  <2>4. l2.pend = SubSeq(p, 3 + c, n)
    BY <1>6 DEF p, n
  <2> QED
    BY <2>2, <2>3, <2>4
<1>9. m + 1 \in 0..Quantos(j) /\ o \in u..z
  <2>1. m + 1 \in 0..Quantos(j)
    <3>1. m \in Nat /\ Quantos(j) \in Nat
      BY <1>1
    <3> QED
      BY <1>5, <3>1
  <2>2. o \in u..z
    BY <1>a, <1>6
  <2> QED
    BY <2>1, <2>2
<1>10. Lugar(l2, s, j, P, m + 1)
  <2>1. Multiplo(l2.off) /\ l2.fim_arq = (l2.off = Len(s))
    BY DEF Lugar
  <2> QED
    BY <1>0, <1>8, <1>9, <2>1 DEF Lugar, u, o, z
<1> QED
  BY <1>5, <1>7, <1>10 DEF p

\* There is a next file only behind the last frame.
LEMMA FileDone ==
    ASSUME NEW j \in 0..(NPrep - 1), NEW l, NEW s, NEW P, NEW m, Lugar(l, s, j, P, m), ~TemQuadro(l.pend),
           (Len(l.pend) >= 2 /\ l.pend[1] = 0) \/ l.fim_arq
    PROVE  m = Quantos(j)
<1> DEFINE p == l.pend
           n == Len(p)
           a == P[m]
           c == Clen[Inicio(j) + m + 1]
<1>0. m \in 0..Quantos(j) /\ Completo(s, j, P) /\ (l.fim_arq => l.off = Len(s))
  BY DEF Lugar
<1>1. /\ Quantos(j) \in Nat /\ m \in Nat /\ s \in Seq(Nat) /\ Len(s) \in Nat /\ a \in Nat
      /\ m < Quantos(j) =>
            /\ c \in Nat \ {0} /\ P[m + 1] = a + 2 + c /\ P[m + 1] <= Len(s)
            /\ s[a + 1] = B /\ s[a + 2] = c /\ B # 0
  BY <1>0, FilePart
<1>2. l.off \in Nat /\ a <= l.off /\ l.off <= Len(s) /\ n = l.off - a /\ n \in Nat /\ Trecho(p, s, a)
  BY Pending
<1>3. /\ n >= 2 /\ p[1] # 0 => ~(n >= 2 + p[2])
      /\ (n >= 2 /\ p[1] = 0) \/ l.fim_arq
  BY DEF TemQuadro
<1> DEFINE z == Len(s)
           o == l.off
           u == P[m + 1]
<1> HIDE DEF p, n, a, c, z, o, u
<1> SUFFICES ASSUME m < Quantos(j) PROVE FALSE
  BY <1>0, <1>1
<1>a. a \in Nat /\ z \in Nat /\ o \in Nat /\ n \in Nat /\ a <= o /\ o <= z /\ n = o - a
  BY <1>1, <1>2 DEF z, o
<1>b. c \in Nat \ {0} /\ u = a + 2 + c /\ u <= z /\ s[a + 1] = B /\ s[a + 2] = c /\ B # 0
  BY <1>1 DEF u, z
<1>4. l.fim_arq => n >= 2 + c
  <2>1. l.fim_arq => o = z
    BY <1>0 DEF o, z
  <2>2. o = z => n >= 2 + c
    BY <1>a, <1>b
  <2> QED
    BY <2>1, <2>2
<1>5. n >= 2
  <2>1. n >= 2 + c => n >= 2
    BY <1>a, <1>b
  <2> QED
    BY <1>3, <1>4, <2>1
<1>6. p[1] = B /\ p[2] = c /\ B # 0
  <2>1. 1 \in 1..n /\ 2 \in 1..n
    BY <1>a, <1>5
  <2>2. p[1] = s[a + 1] /\ p[2] = s[a + 2]
    BY <1>2, <2>1 DEF Trecho, n
  <2> QED
    BY <1>b, <2>2
<1> QED
  BY <1>3, <1>4, <1>5, <1>6

\* A read leaves the reader where it is in the frames.
LEMMA BlockRead ==
    ASSUME NEW j \in 0..(NPrep - 1), NEW l, NEW s, NEW P, NEW m, Lugar(l, s, j, P, m), ~l.fim_arq, NEW l2,
           LET lido == SubSeq(s, l.off + 1, l.off + B)
           IN  /\ l2.pend = l.pend \o lido /\ l2.off = l.off + Len(lido)
               /\ l2.fim_arq = (l.fim_arq \/ lido = <<>> \/ l.off + Len(lido) >= Len(s))
    PROVE  Lugar(l2, s, j, P, m)
<1> DEFINE o == l.off
           lido == SubSeq(s, o + 1, o + B)
           a == P[m]
<1>0. m \in 0..Quantos(j) /\ Completo(s, j, P) /\ o # Len(s) /\ Multiplo(o) /\ Multiplo(Len(s))
  BY DEF Lugar, Completo
<1>1. s \in Seq(Nat) /\ Len(s) \in Nat /\ a \in Nat /\ B \in Nat /\ B >= 2
  BY <1>0, FilePart, SizesOfCapacity
<1>2. o \in Nat /\ a <= o /\ o <= Len(s) /\ l.pend = SubSeq(s, a + 1, o)
  BY Pending DEF Lugar
<1>3. o + B <= Len(s) /\ Multiplo(o + B)
  <2>1. PICK c, d \in Nat : o = c * B /\ Len(s) = d * B
    BY <1>0 DEF Multiplo
  <2>2. c < d
    <3> SUFFICES ASSUME d <= c PROVE FALSE
      BY <2>1
    <3>1. d * B <= c * B
      BY <1>1, Multiples
    <3> QED
      BY <1>0, <1>1, <1>2, <2>1, <3>1
  <2>3. (c + 1) * B <= d * B /\ (c + 1) * B = c * B + B /\ c + 1 \in Nat
    <3>1. c + 1 \in Nat /\ c + 1 <= d
      BY <2>2
    <3> QED
      BY <3>1, Multiples
  <2>4. o + B = (c + 1) * B
    BY <2>1, <2>3
  <2>5. o + B <= Len(s)
    BY <2>1, <2>3, <2>4
  <2> QED
    BY <2>3, <2>4, <2>5 DEF Multiplo
<1> HIDE DEF o, a
<1>4. Len(lido) = B /\ lido # <<>>
  <2>1. o + B \in Nat /\ o <= o + B
    BY <1>1, <1>2
  <2>2. Len(lido) = (o + B) - o
    BY <1>1, <1>2, <1>3, <2>1, PartOfPart
  <2> HIDE DEF lido
  <2>3. Len(lido) = B
    BY <1>1, <1>2, <2>2
  <2> QED
    BY <1>1, <2>3
<1>5. l.pend \o lido = SubSeq(s, a + 1, o + B)
  <2>1. a + 1 \in 1..(Len(s) + 1) /\ o \in ((a + 1) - 1)..Len(s) /\ o + B \in o..Len(s)
    BY <1>1, <1>2, <1>3
  <2> QED
    BY <1>1, <1>2, <2>1, ConcatAdjacentSubSeq
<1>6. l2.pend = l.pend \o lido /\ l2.off = o + Len(lido)
      /\ l2.fim_arq = (l.fim_arq \/ lido = <<>> \/ o + Len(lido) >= Len(s))
  BY DEF o
<1> HIDE DEF lido
<1>7. l2.off = o + B /\ l2.pend = SubSeq(s, a + 1, o + B)
  BY <1>4, <1>5, <1>6
<1>8. l2.fim_arq = (o + B >= Len(s))
  <2>1. ~l.fim_arq /\ ~(lido = <<>>)
    BY <1>4
  <2> DEFINE X == l.fim_arq \/ lido = <<>> \/ o + Len(lido) >= Len(s)
             Y == o + Len(lido) >= Len(s)
  <2>2. X = Y
    <3>1. CASE Y
      BY <3>1
    <3>2. CASE ~Y
      BY <2>1, <3>2
    <3> QED
      BY <3>1, <3>2
  <2>3. l2.fim_arq = X
    BY <1>6
  <2> HIDE DEF X
  <2>4. l2.fim_arq = Y
    BY <2>2, <2>3, Zenon
  <2> QED
    BY <1>4, <2>4
<1>9. o + B \in a..Len(s) /\ ((o + B >= Len(s)) <=> (o + B = Len(s)))
  <2> DEFINE z == Len(s)
  <2>1. z \in Nat /\ a \in Nat /\ o \in Nat /\ B \in Nat /\ a <= o /\ o <= z /\ o + B <= z
    BY <1>1, <1>2, <1>3
  <2> HIDE DEF z
  <2>2. o + B \in a..z /\ ((o + B >= z) <=> (o + B = z))
    BY <2>1
  <2> QED
    BY <2>2 DEF z
<1>10. l2.fim_arq = (l2.off = Len(s))
  BY <1>7, <1>8, <1>9
<1> QED
  BY <1>0, <1>3, <1>7, <1>9, <1>10 DEF Lugar, a

----------------------------------------------------------------------------
(***************************************************************************)
(* A worker that decompresses: the frames it has taken are the blocks of    *)
(* its files, in order, round and round.                                   *)
(***************************************************************************)
\* The blocks of the files, file by file.
LEMMA OrderOfBlocks ==
    ASSUME NEW i \in 0..(NTeste - 1), NEW Pre, Ordem(i, Pre), NEW f \in 1..Len(Arquivos(i, NTeste))
    PROVE  LET j == Arquivos(i, NTeste)[f]
               n == Len(Arquivos(i, NTeste))
               L == Len(Blocos(i, NTeste))
           IN  /\ j \in 0..(NPrep - 1) /\ n \in Nat \ {0} /\ Pre[0] = 0 /\ Pre[n] = L
               /\ Quantos(j) \in Nat \ {0} /\ Pre[f - 1] \in Nat /\ Pre[f] = Pre[f - 1] + Quantos(j)
               /\ Pre[f] <= L /\ L \in Nat \ {0}
<1> DEFINE fds == Arquivos(i, NTeste)
           n == Len(fds)
           bs == Blocos(i, NTeste)
           L == Len(bs)
           j == fds[f]
<1>1. fds \in Seq(0..(NPrep - 1)) /\ n \in Nat \ {0}
  BY FilesOfWorker
<1>2. /\ Pre \in [0..n -> Nat] /\ Pre[0] = 0 /\ Pre[n] = L
      /\ Pre[f] = Pre[f - 1] + Quantos(j) /\ Pre[f] <= L
  BY DEF Ordem
<1>3. L \in Nat
  BY BlocksInOrder
<1>f. f \in 1..n
  OBVIOUS
<1> HIDE DEF fds, L, bs, n
<1>4. j \in 0..(NPrep - 1)
  <2>1. f \in 1..Len(fds)
    BY <1>f DEF n
  <2> QED
    BY <1>1, <2>1, ElementOfSeq
<1> HIDE DEF j
<1>5. Quantos(j) \in Nat \ {0}
  BY <1>4, Regions
<1>6. f \in 0..n /\ f - 1 \in 0..n
  BY <1>1, <1>f
<1>7. Pre[f - 1] \in Nat
  BY <1>2, <1>6
<1>8. L \in Nat \ {0}
  BY <1>2, <1>3, <1>5, <1>7
<1> QED
  BY <1>1, <1>2, <1>4, <1>5, <1>7, <1>8 DEF fds, n, bs, L, j

LEMMA BlockInOrder ==
    ASSUME NEW i \in 0..(NTeste - 1), NEW Pre, Ordem(i, Pre), NEW f \in 1..Len(Arquivos(i, NTeste)),
           NEW m \in 1..Quantos(Arquivos(i, NTeste)[f])
    PROVE  Blocos(i, NTeste)[Pre[f - 1] + m] = Inicio(Arquivos(i, NTeste)[f]) + m
BY DEF Ordem

\* A worker that has opened its files.
LEMMA ReaderOpens ==
    ASSUME ArquivosOK, NEW i \in 0..(NTeste - 1), NEW y,
           y.l = [NoLeitor EXCEPT !.fds = Arquivos(i, NTeste)], y.cnt = 0
    PROVE  Lendo(y, comp, i)
<1> DEFINE fds == Arquivos(i, NTeste)
           j == fds[1]
           s == comp[j]
<1>1. PICK Pre : Ordem(i, Pre)
  BY BlocksInOrder
<1>2. 1 \in 1..Len(fds)
  BY FilesOfWorker
<1>3. j \in 0..(NPrep - 1) /\ Pre[0] = 0 /\ Len(Blocos(i, NTeste)) \in Nat
  BY <1>1, <1>2, OrderOfBlocks
<1>4. /\ y.l.fds = fds /\ y.l.f = 1 /\ y.l.off = 0 /\ y.l.pend = <<>> /\ y.l.fim_arq = FALSE
      /\ DOMAIN y.l = DOMAIN NoLeitor
  BY DEF NoLeitor
<1> HIDE DEF fds
<1>5. \E P : Lugar(y.l, s, j, P, 0)
  <2>1. Inteiro(s, j)
    BY <1>3 DEF ArquivosOK
  <2> HIDE DEF s, j
  <2> QED
    BY <1>3, <1>4, <2>1, FileOpened DEF j
<1>6. PICK P : Lugar(y.l, s, j, P, 0)
  BY <1>5
<1>7. y.cnt = 0 * Len(Blocos(i, NTeste)) + Pre[y.l.f - 1] + 0
  <2>1. y.l.f - 1 = 0 /\ 0 * Len(Blocos(i, NTeste)) = 0
    BY <1>3, <1>4
  <2> QED
    BY <1>3, <2>1
<1>8. Lugar(y.l, comp[y.l.fds[y.l.f]], y.l.fds[y.l.f], P, 0)
  BY <1>4, <1>6
<1>9. 0 \in Nat /\ ~(y.cnt > 0)
  OBVIOUS
<1>10. Posto(y, comp, i, Pre, P, 0, 0)
  BY <1>1, <1>7, <1>8 DEF Posto
<1> QED
  BY <1>2, <1>4, <1>9, <1>10 DEF Lendo, fds

\* What a reader becomes: it takes a frame, goes on to its next file, reads a block.
Tomado(l) == [l EXCEPT !.pend = SubSeq(l.pend, 3 + l.pend[2], Len(l.pend))]
Adiante(l) == [l EXCEPT !.f = (l.f % Len(l.fds)) + 1, !.off = 0, !.pend = <<>>, !.fim_arq = FALSE]
Lido(l, arq) ==
    LET lido == SubSeq(arq, l.off + 1, l.off + B)
    IN  [l EXCEPT !.pend = l.pend \o lido, !.off = l.off + Len(lido),
                  !.fim_arq = l.fim_arq \/ lido = <<>> \/ l.off + Len(lido) >= Len(arq)]

LEMMA ReaderFields ==
    ASSUME NEW l, DOMAIN l = DOMAIN NoLeitor, NEW arq
    PROVE  /\ DOMAIN Tomado(l) = DOMAIN NoLeitor /\ DOMAIN Adiante(l) = DOMAIN NoLeitor
           /\ DOMAIN Lido(l, arq) = DOMAIN NoLeitor
           /\ Tomado(l).off = l.off /\ Tomado(l).fim_arq = l.fim_arq /\ Tomado(l).f = l.f
           /\ Tomado(l).fds = l.fds /\ Tomado(l).pend = SubSeq(l.pend, 3 + l.pend[2], Len(l.pend))
           /\ Adiante(l).f = (l.f % Len(l.fds)) + 1 /\ Adiante(l).off = 0 /\ Adiante(l).pend = <<>>
           /\ Adiante(l).fim_arq = FALSE /\ Adiante(l).fds = l.fds
           /\ Lido(l, arq).f = l.f /\ Lido(l, arq).fds = l.fds
<1>1. /\ DOMAIN Tomado(l) = DOMAIN NoLeitor
      /\ Tomado(l).off = l.off /\ Tomado(l).fim_arq = l.fim_arq /\ Tomado(l).f = l.f
      /\ Tomado(l).fds = l.fds /\ Tomado(l).pend = SubSeq(l.pend, 3 + l.pend[2], Len(l.pend))
  BY DEF Tomado, NoLeitor
<1>2. /\ DOMAIN Adiante(l) = DOMAIN NoLeitor
      /\ Adiante(l).f = (l.f % Len(l.fds)) + 1 /\ Adiante(l).off = 0 /\ Adiante(l).pend = <<>>
      /\ Adiante(l).fim_arq = FALSE /\ Adiante(l).fds = l.fds
  BY DEF Adiante, NoLeitor
<1>3. DOMAIN Lido(l, arq) = DOMAIN NoLeitor /\ Lido(l, arq).f = l.f /\ Lido(l, arq).fds = l.fds
  BY DEF Lido, NoLeitor
<1> QED
  BY <1>1, <1>2, <1>3

LEMMA ReadFields ==
    ASSUME NEW l, DOMAIN l = DOMAIN NoLeitor, NEW arq
    PROVE  LET lido == SubSeq(arq, l.off + 1, l.off + B)
           IN  /\ Lido(l, arq).pend = l.pend \o lido /\ Lido(l, arq).off = l.off + Len(lido)
               /\ Lido(l, arq).fim_arq = (l.fim_arq \/ lido = <<>> \/ l.off + Len(lido) >= Len(arq))
BY DEF Lido, NoLeitor

\* It takes a frame.
LEMMA ReaderTakes ==
    ASSUME NEW i \in 0..(NTeste - 1), NEW x, Lendo(x, comp, i), TemQuadro(x.l.pend), NEW y,
           y.l = Tomado(x.l),
           y.fr = SubSeq(x.l.pend, 3, 2 + x.l.pend[2]), y.cnt = x.cnt + 1
    PROVE  Lendo(y, comp, i)
<1> DEFINE fds == Arquivos(i, NTeste)
           f == x.l.f
           bs == Blocos(i, NTeste)
           L == Len(bs)
           j == fds[f]
           q == Quantos(j)
<1>1. x.l.fds = fds /\ f \in 1..Len(fds) /\ DOMAIN x.l = DOMAIN NoLeitor
  BY DEF Lendo
<1>0. PICK Pre, P : \E m, k \in Nat : Posto(x, comp, i, Pre, P, m, k)
  BY DEF Lendo
<1>2. PICK m \in Nat, k \in Nat : Posto(x, comp, i, Pre, P, m, k)
  BY <1>0
<1>3. /\ Ordem(i, Pre) /\ Lugar(x.l, comp[j], j, P, m)
      /\ x.cnt = k * L + Pre[f - 1] + m
  BY <1>1, <1>2 DEF Posto
<1> HIDE DEF f
<1>4. /\ j \in 0..(NPrep - 1) /\ q \in Nat \ {0} /\ Pre[f - 1] \in Nat
      /\ Pre[f] = Pre[f - 1] + q /\ Pre[f] <= L /\ L \in Nat \ {0}
  <2>1. f \in 1..Len(Arquivos(i, NTeste)) /\ Ordem(i, Pre)
    BY <1>1, <1>3
  <2> QED
    BY <2>1, OrderOfBlocks
<1>b. ASSUME NEW b \in 1..q PROVE bs[Pre[f - 1] + b] = Inicio(j) + b
  BY <1>1, <1>3, BlockInOrder
<1>5. /\ y.l.off = x.l.off /\ y.l.fim_arq = x.l.fim_arq /\ y.l.f = f /\ y.l.fds = fds
      /\ DOMAIN y.l = DOMAIN NoLeitor
      /\ y.l.pend = SubSeq(x.l.pend, 3 + x.l.pend[2], Len(x.l.pend))
  <2> DEFINE v == x.l
             u == Tomado(v)
  <2>1. DOMAIN v = DOMAIN NoLeitor /\ v.fds = fds /\ v.f = f /\ y.l = u
    BY <1>1 DEF f
  <2> HIDE DEF v
  <2>2. /\ u.off = v.off /\ u.fim_arq = v.fim_arq /\ u.f = v.f /\ u.fds = v.fds
        /\ DOMAIN u = DOMAIN NoLeitor /\ u.pend = SubSeq(v.pend, 3 + v.pend[2], Len(v.pend))
    BY <2>1, ReaderFields
  <2> HIDE DEF u
  <2> QED
    BY <2>1, <2>2 DEF v
<1> HIDE DEF fds, f, bs, L, j, q
<1>6. /\ m < q /\ Lugar(y.l, comp[j], j, P, m + 1)
      /\ SubSeq(x.l.pend, 3, 2 + x.l.pend[2]) = Comprimido(Inicio(j) + m + 1)
  <2> DEFINE l == x.l
             l2 == y.l
             s == comp[j]
  <2>1. /\ Lugar(l, s, j, P, m) /\ TemQuadro(l.pend) /\ j \in 0..(NPrep - 1)
        /\ l2.off = l.off /\ l2.fim_arq = l.fim_arq
        /\ l2.pend = SubSeq(l.pend, 3 + l.pend[2], Len(l.pend))
    BY <1>3, <1>4, <1>5
  <2> HIDE DEF l, l2, s
  <2>2. m < Quantos(j) /\ Lugar(l2, s, j, P, m + 1)
    BY <2>1, FrameTaken
  <2>3. SubSeq(l.pend, 3, 2 + l.pend[2]) = Comprimido(Inicio(j) + m + 1)
    BY <2>1, FrameTaken
  <2> QED
    BY <2>2, <2>3 DEF q, l, l2, s
<1> DEFINE a == Pre[f - 1]
           t == a + m
<1>7. a \in Nat /\ m \in Nat /\ m < q /\ q \in Nat /\ L \in Nat \ {0} /\ a + q <= L
  BY <1>4, <1>6
<1>8. t \in 0..(L - 1) /\ m + 1 \in 1..q /\ m + 1 \in Nat
  <2> HIDE DEF a
  <2> QED
    BY <1>7
<1>9. bs[t + 1] = Inicio(j) + m + 1
  <2>1. bs[a + (m + 1)] = Inicio(j) + (m + 1)
    BY <1>b, <1>8
  <2>2. Inicio(j) \in Nat
    BY <1>4, Regions
  <2>3. a + (m + 1) = t + 1
    <3> HIDE DEF a
    <3> QED
      BY <1>7
  <2> HIDE DEF a, t
  <2> QED
    BY <1>7, <2>1, <2>2, <2>3
<1>10. y.cnt - 1 = k * L + t /\ y.cnt = k * L + a + (m + 1)
  <2> DEFINE z == k * L
  <2>1. z \in Nat /\ x.cnt = z + a + m
    BY <1>3, <1>7
  <2> HIDE DEF z, a
  <2>2. y.cnt - 1 = z + (a + m) /\ y.cnt = z + a + (m + 1)
    BY <1>7, <2>1
  <2> QED
    BY <2>2 DEF z
<1> HIDE DEF t
<1>11. (y.cnt - 1) % L = t
  <2>1. (k * L + t) % L = t
    BY <1>7, <1>8, RemainderOf
  <2> QED
    BY <1>10, <2>1
<1>12. y.fr = Comprimido(bs[((y.cnt - 1) % L) + 1])
  BY <1>6, <1>9, <1>11
<1>13. Lugar(y.l, comp[y.l.fds[y.l.f]], y.l.fds[y.l.f], P, m + 1)
  BY <1>5, <1>6 DEF j
<1>14. y.cnt = k * Len(Blocos(i, NTeste)) + Pre[y.l.f - 1] + (m + 1)
  BY <1>5, <1>10 DEF L, bs
<1>15. Posto(y, comp, i, Pre, P, m + 1, k)
  BY <1>3, <1>13, <1>14 DEF Posto
<1>16. y.cnt > 0 => y.fr = Comprimido(Blocos(i, NTeste)[((y.cnt - 1) % Len(Blocos(i, NTeste))) + 1])
  BY <1>12 DEF L, bs
<1>17. y.l.fds = Arquivos(i, NTeste) /\ y.l.f \in 1..Len(y.l.fds) /\ DOMAIN y.l = DOMAIN NoLeitor
  BY <1>1, <1>5 DEF fds
<1> QED
  BY <1>8, <1>15, <1>16, <1>17 DEF Lendo

\* It goes on to its next file, or to its first in the next round.
LEMMA ReaderGoesOn ==
    ASSUME ArquivosOK, NEW i \in 0..(NTeste - 1), NEW x, Lendo(x, comp, i), ~TemQuadro(x.l.pend),
           (Len(x.l.pend) >= 2 /\ x.l.pend[1] = 0) \/ x.l.fim_arq, NEW y,
           y.l = Adiante(x.l), y.fr = x.fr, y.cnt = x.cnt
    PROVE  Lendo(y, comp, i)
<1> DEFINE fds == Arquivos(i, NTeste)
           n == Len(fds)
           f == x.l.f
           bs == Blocos(i, NTeste)
           L == Len(bs)
           j == fds[f]
           q == Quantos(j)
           g == (f % n) + 1
           d == fds[g]
<1>1. x.l.fds = fds /\ f \in 1..Len(fds) /\ DOMAIN x.l = DOMAIN NoLeitor
  BY DEF Lendo
<1>0. PICK Pre, P : \E m, k \in Nat : Posto(x, comp, i, Pre, P, m, k)
  BY DEF Lendo
<1>2. PICK m \in Nat, k \in Nat : Posto(x, comp, i, Pre, P, m, k)
  BY <1>0
<1>3. /\ Ordem(i, Pre) /\ Lugar(x.l, comp[j], j, P, m)
      /\ x.cnt = k * L + Pre[f - 1] + m
  BY <1>1, <1>2 DEF Posto
<1> HIDE DEF f
<1>4. /\ j \in 0..(NPrep - 1) /\ q \in Nat \ {0} /\ Pre[f - 1] \in Nat /\ n \in Nat \ {0}
      /\ Pre[f] = Pre[f - 1] + q /\ L \in Nat \ {0} /\ Pre[0] = 0 /\ Pre[n] = L
  BY <1>1, <1>3, OrderOfBlocks
<1>5. /\ y.l.off = 0 /\ y.l.fim_arq = FALSE /\ y.l.pend = <<>> /\ y.l.f = g /\ y.l.fds = fds
      /\ DOMAIN y.l = DOMAIN NoLeitor
  <2> DEFINE v == x.l
             u == Adiante(v)
  <2>1. DOMAIN v = DOMAIN NoLeitor /\ v.fds = fds /\ v.f = f /\ y.l = u
    BY <1>1 DEF f
  <2> HIDE DEF v
  <2>2. /\ u.off = 0 /\ u.fim_arq = FALSE /\ u.pend = <<>> /\ u.f = (v.f % Len(v.fds)) + 1 /\ u.fds = v.fds
        /\ DOMAIN u = DOMAIN NoLeitor
    BY <2>1, ReaderFields
  <2> HIDE DEF u
  <2> QED
    BY <2>1, <2>2
<1>a. f \in 1..n
  BY <1>1
<1> HIDE DEF fds, f, bs, L, j, q, n
<1>6. m = q
  BY <1>3, <1>4, FileDone DEF q
<1>7. /\ f # n => g = f + 1
      /\ f = n => g = 1
  <2>1. f # n => f \in 0..(n - 1)
    BY <1>4, <1>a
  <2>2. f # n => (0 * n + f) % n = f
    BY <1>4, <2>1, RemainderOf
  <2>3. (1 * n + 0) % n = 0
    <3>1. 0 \in 0..(n - 1) /\ 1 \in Nat
      BY <1>4
    <3> QED
      BY <1>4, <3>1, RemainderOf
  <2>4. 0 * n + f = f /\ 1 * n + 0 = n
    BY <1>4, <1>a
  <2>5. (f # n => f % n = f) /\ (f = n => f % n = 0)
    BY <2>2, <2>3, <2>4
  <2> QED
    BY <2>5
<1>8. g \in 1..n
  BY <1>4, <1>a, <1>7
<1> HIDE DEF g
<1>9. \E h \in Nat : x.cnt = h * L + Pre[g - 1] + 0
  <2> DEFINE a == Pre[f - 1]
  <2>1. a \in Nat /\ q \in Nat /\ L \in Nat /\ x.cnt = k * L + a + q /\ Pre[f] = a + q
    BY <1>3, <1>4, <1>6
  <2> HIDE DEF a
  <2>2. CASE f # n
    <3>1. Pre[g - 1] = Pre[f]
      <4>1. g - 1 = f
        BY <1>7, <1>a, <2>2
      <4> QED
        BY <4>1
    <3> DEFINE z == k * L
    <3>2. z \in Nat /\ x.cnt = z + a + q
      BY <2>1
    <3> HIDE DEF z
    <3>3. x.cnt = z + (a + q) + 0
      BY <2>1, <3>2
    <3> QED
      BY <2>1, <3>1, <3>3 DEF z
  <2>3. CASE f = n
    <3>1. Pre[g - 1] = 0
      <4>1. g - 1 = 0
        BY <1>7, <2>3
      <4> QED
        BY <1>4, <4>1
    <3> DEFINE z == k * L
    <3>2. z \in Nat /\ x.cnt = z + a + q
      BY <2>1
    <3>a. a + q = L
      BY <1>4, <2>1, <2>3
    <3>3. (k + 1) * L = z + L /\ k + 1 \in Nat
      <4> HIDE DEF L
      <4>1. L \in Nat /\ k \in Nat
        BY <2>1
      <4> QED
        BY <4>1
    <3> HIDE DEF z
    <3>4. x.cnt = (k + 1) * L + 0 + 0
      BY <2>1, <3>2, <3>3, <3>a
    <3> QED
      BY <3>1, <3>3, <3>4
  <2> QED
    BY <2>2, <2>3
<1>10. d \in 0..(NPrep - 1)
  <2>1. g \in 1..Len(Arquivos(i, NTeste))
    BY <1>8 DEF n, fds
  <2> QED
    BY <1>3, <2>1, OrderOfBlocks DEF fds
<1> HIDE DEF d
<1>11. \E R : Lugar(y.l, comp[d], d, R, 0)
  <2>1. Inteiro(comp[d], d)
    BY <1>10 DEF ArquivosOK
  <2> QED
    BY <1>5, <1>10, <2>1, FileOpened
<1>12. PICK h \in Nat : x.cnt = h * L + Pre[g - 1] + 0
  BY <1>9
<1>13. PICK R : Lugar(y.l, comp[d], d, R, 0)
  BY <1>11
<1>14. Lugar(y.l, comp[y.l.fds[y.l.f]], y.l.fds[y.l.f], R, 0) /\ 0 \in Nat
  BY <1>5, <1>13 DEF d
<1>15. y.cnt = h * Len(Blocos(i, NTeste)) + Pre[y.l.f - 1] + 0
  BY <1>5, <1>12 DEF L, bs
<1>16. LET bb == Blocos(i, NTeste)
       IN  y.cnt > 0 => y.fr = Comprimido(bb[((y.cnt - 1) % Len(bb)) + 1])
  BY DEF Lendo
<1>17. Posto(y, comp, i, Pre, R, 0, h)
  BY <1>3, <1>14, <1>15 DEF Posto
<1>18. y.l.fds = Arquivos(i, NTeste) /\ y.l.f \in 1..Len(y.l.fds) /\ DOMAIN y.l = DOMAIN NoLeitor
  BY <1>5, <1>8 DEF fds, n
<1> QED
  BY <1>14, <1>16, <1>17, <1>18 DEF Lendo

\* It reads a block of its file.
LEMMA ReaderReads ==
    ASSUME NEW i \in 0..(NTeste - 1), NEW x, Lendo(x, comp, i), ~x.l.fim_arq, NEW y,
           y.l = Lido(x.l, comp[x.l.fds[x.l.f]]), y.fr = x.fr, y.cnt = x.cnt
    PROVE  Lendo(y, comp, i)
<1> DEFINE fds == Arquivos(i, NTeste)
           f == x.l.f
           bs == Blocos(i, NTeste)
           L == Len(bs)
           j == fds[f]
           s == comp[j]
           lido == SubSeq(s, x.l.off + 1, x.l.off + B)
<1>1. x.l.fds = fds /\ f \in 1..Len(fds) /\ DOMAIN x.l = DOMAIN NoLeitor
  BY DEF Lendo
<1>0. PICK Pre, P : \E m, k \in Nat : Posto(x, comp, i, Pre, P, m, k)
  BY DEF Lendo
<1>2. PICK m \in Nat, k \in Nat : Posto(x, comp, i, Pre, P, m, k)
  BY <1>0
<1>3. /\ Ordem(i, Pre) /\ Lugar(x.l, s, j, P, m)
      /\ x.cnt = k * L + Pre[f - 1] + m
  BY <1>1, <1>2 DEF Posto
<1> HIDE DEF f
<1>4. j \in 0..(NPrep - 1)
  BY <1>1, <1>3, OrderOfBlocks
<1>5. /\ y.l.pend = x.l.pend \o lido /\ y.l.off = x.l.off + Len(lido) /\ y.l.f = f /\ y.l.fds = fds
      /\ y.l.fim_arq = (x.l.fim_arq \/ lido = <<>> \/ x.l.off + Len(lido) >= Len(s))
      /\ DOMAIN y.l = DOMAIN NoLeitor
  <2> DEFINE v == x.l
             u == Lido(v, s)
  <2>1. DOMAIN v = DOMAIN NoLeitor /\ v.fds = fds /\ v.f = f /\ y.l = u
    BY <1>1 DEF f
  <2> HIDE DEF v, s
  <2>2. u.f = v.f /\ u.fds = v.fds /\ DOMAIN u = DOMAIN NoLeitor
    BY <2>1, ReaderFields
  <2> DEFINE d == SubSeq(s, v.off + 1, v.off + B)
  <2>3. /\ u.pend = v.pend \o d /\ u.off = v.off + Len(d)
        /\ u.fim_arq = (v.fim_arq \/ d = <<>> \/ v.off + Len(d) >= Len(s))
    BY <2>1, ReadFields
  <2>4. lido = d
    BY DEF v
  <2> HIDE DEF u, d
  <2> QED
    BY <2>1, <2>2, <2>3, <2>4 DEF v
<1> HIDE DEF fds, f, bs, L, j, s
<1>6. Lugar(y.l, s, j, P, m)
  BY <1>3, <1>4, <1>5, BlockRead
<1>7. Lugar(y.l, comp[y.l.fds[y.l.f]], y.l.fds[y.l.f], P, m)
  BY <1>5, <1>6 DEF j, s
<1>8. y.cnt = k * Len(Blocos(i, NTeste)) + Pre[y.l.f - 1] + m
  BY <1>3, <1>5 DEF L, bs
<1>9. LET bb == Blocos(i, NTeste)
      IN  y.cnt > 0 => y.fr = Comprimido(bb[((y.cnt - 1) % Len(bb)) + 1])
  BY DEF Lendo
<1>10. Posto(y, comp, i, Pre, P, m, k)
  BY <1>3, <1>7, <1>8 DEF Posto
<1>11. y.l.fds = Arquivos(i, NTeste) /\ y.l.f \in 1..Len(y.l.fds) /\ DOMAIN y.l = DOMAIN NoLeitor
  BY <1>1, <1>5 DEF fds
<1> QED
  BY <1>9, <1>10, <1>11 DEF Lendo

----------------------------------------------------------------------------
(***************************************************************************)
(* The steps of a worker: Muda(i, x) says that worker i becomes x, and what *)
(* that does to the files and the messages.                                *)
(***************************************************************************)
Muda(i, x) ==
    /\ w' = [w EXCEPT ![i] = x] /\ x.modo = w[i].modo /\ w[i].pc \notin {"fora", "fim", "morto"}
    /\ x.pc \in Ativos \cup {"fim", "morto"}
    /\ pai' = pai /\ pasta' = pasta
    /\ DOMAIN comp' = 0..(NPrep - 1) /\ (EmPreparo \/ comp' = comp)
    /\ \A j \in 0..(NPrep - 1) : j # i => comp'[j] = comp[j]
    /\ \/ x.pc # "fim" /\ fila' \in {fila, fila \cup {[msg |-> "pronto", i |-> i, bytes |-> 0]}}
       \/ x.pc = "fim" /\ fila' = fila \cup {[msg |-> "fim", i |-> i, bytes |-> x.cnt]}
    /\ EmPreparo /\ x.pc \in Ativos => Escrevendo(x, i)
    /\ EmPreparo /\ x.pc = "fim" => Inteiro(comp'[i], i)
    /\ Le(x.modo) /\ x.pc \in Ativos => ArquivosOK /\ Lendo(x, comp, i)

LEMMA OneWorker ==
    ASSUME DInv, NEW i \in Trab, w[i].pc # "fora"
    PROVE  /\ i \in 0..(pai.n - 1) /\ w[i].modo = w[0].modo /\ DOMAIN w[i] = Campos /\ DOMAIN w = Trab
           /\ (EmPreparo <=> w[i].modo = "preparar")
           /\ EmPreparo => pai.n = NPrep /\ i \in 0..(NPrep - 1)
           /\ Le(w[i].modo) => pai.n = NTeste /\ i \in 0..(NTeste - 1) /\ ~EmPreparo
           /\ pai.at \notin {"parado", "preparar"} /\ w[i].cnt \in Nat
<1>1. i < pai.n /\ w[i].modo = w[0].modo
  BY DEF DInv, CInv, Lancados
<1>2. pai.n \in Nat /\ DOMAIN w[i] = Campos /\ DOMAIN w = Trab /\ w[i].cnt \in Nat
  BY DEF DInv, CInv, Tipos, TiposPai, TiposTrab
<1>3. i \in Nat
  BY WorkerNumbers
<1>4. EmPreparo => pai.n = NPrep
  BY DEF DInv, ModosOK
<1>5. Le(w[0].modo) => pai.n = NTeste /\ ~EmPreparo
  BY DEF DInv, ModosOK, Le, EmPreparo
<1>6. pai.at \notin {"parado", "preparar"}
  <2>1. pai.n # 0
    BY <1>1, <1>2, <1>3
  <2> QED
    BY <2>1 DEF DInv, ModosOK
<1> QED
  BY <1>1, <1>2, <1>3, <1>4, <1>5, <1>6 DEF EmPreparo

\* What a step leaves alone.
LEMMA WritesOn ==
    ASSUME NEW x, NEW y, NEW j, Escrevendo(y, j), x.pos = y.pos, x.e = y.e,
           x.pc \in {"espera", "barreira", "bloco"} => y.pos < Fundo(j),
           x.pc = "fecha" => y.pos = Fundo(j), x.pc \in {"decide", "fecha"} => y.pos > Inicio(j)
    PROVE  Escrevendo(x, j)
BY DEF Escrevendo

LEMMA ReadsOn ==
    ASSUME NEW x, NEW y, NEW i, Lendo(y, comp, i), x.l = y.l, x.fr = y.fr, x.cnt = y.cnt
    PROVE  Lendo(x, comp, i)
BY DEF Lendo, Posto

LEMMA ActiveWorker ==
    ASSUME DInv, NEW i \in Trab, w[i].pc \in Ativos
    PROVE  /\ EmPreparo => Escrevendo(w[i], i)
           /\ Le(w[i].modo) => ArquivosOK /\ Lendo(w[i], comp, i)
<1>1. w[i].pc # "fora"
  BY DEF Ativos
<1>2. EmPreparo => i \in 0..(NPrep - 1)
  BY <1>1, OneWorker
<1> QED
  BY <1>2 DEF DInv, PreparoOK, LeitoresOK

\* A worker that dies.
LEMMA DeathChanges ==
    ASSUME DInv, NEW i \in Trab, w[i].pc \notin {"fora", "fim", "morto"},
           w' = [w EXCEPT ![i] = Morto(i)], UNCHANGED <<pai, fila, comp, pasta>>
    PROVE  Muda(i, Morto(i))
<1>1. Morto(i).pc = "morto" /\ Morto(i).modo = w[i].modo
  BY DEF Morto, Fora
<1>2. DOMAIN comp = 0..(NPrep - 1)
  BY DEF DInv
<1> HIDE DEF Morto
<1> QED
  BY <1>1, <1>2 DEF Muda, Ativos

\* A worker that changes neither the files nor the messages.
LEMMA QuietChanges ==
    ASSUME DInv, NEW i \in Trab, w[i].pc \in Ativos, NEW x, x.pc \in Ativos, x.modo = w[i].modo,
           w' = [w EXCEPT ![i] = x], UNCHANGED <<pai, fila, comp, pasta>>,
           EmPreparo => Escrevendo(x, i), Le(x.modo) => Lendo(x, comp, i)
    PROVE  Muda(i, x)
<1>1. DOMAIN comp = 0..(NPrep - 1) /\ w[i].pc \notin {"fora", "fim", "morto"} /\ x.pc # "fim"
  BY DEF DInv, Ativos
<1>2. Le(x.modo) => ArquivosOK
  BY ActiveWorker
<1> QED
  BY <1>1, <1>2 DEF Muda

LEMMA OpeningChanges ==
    ASSUME DInv, NEW i \in Trab, Abrir(i)
    PROVE  \E x : Muda(i, x)
<1> DEFINE e == [NoEscritor EXCEPT !.cap = IF w[i].modo = "preparar" THEN CapPreparo ELSE CapSaida]
           l == IF Le(w[i].modo) THEN [NoLeitor EXCEPT !.fds = Arquivos(i, pai.n)] ELSE w[i].l
           x == [w[i] EXCEPT !.pc = "espera", !.pos = regiao(i, pai.n)[1], !.e = e, !.l = l]
<1>1. /\ w[i].pc = "abre" /\ (Le(w[i].modo) => pasta) /\ w' = [w EXCEPT ![i] = x]
      /\ comp' = (IF w[i].modo = "preparar" THEN [comp EXCEPT ![i] = <<>>] ELSE comp)
      /\ fila' = fila \cup {[msg |-> "pronto", i |-> i, bytes |-> 0]}
      /\ UNCHANGED <<pai, pasta>>
  BY DEF Abrir
<1>2. /\ i \in 0..(pai.n - 1) /\ DOMAIN w[i] = Campos
      /\ (EmPreparo <=> w[i].modo = "preparar")
      /\ EmPreparo => pai.n = NPrep /\ i \in 0..(NPrep - 1)
      /\ Le(w[i].modo) => pai.n = NTeste /\ i \in 0..(NTeste - 1) /\ ~EmPreparo
      /\ pai.at \notin {"parado", "preparar"}
  <2>1. w[i].pc # "fora"
    BY <1>1
  <2> QED
    BY <2>1, OneWorker
<1>3. /\ x.pc = "espera" /\ x.pos = regiao(i, pai.n)[1] /\ x.e = e /\ x.l = l
      /\ x.modo = w[i].modo /\ x.cnt = w[i].cnt /\ w[i].cnt = 0
  BY <1>1, <1>2 DEF Campos, DInv, CInv, ContadoOK
<1> HIDE DEF x, e, l
<1>4. DOMAIN comp = 0..(NPrep - 1)
  BY DEF DInv
<1>5. ASSUME EmPreparo PROVE Escrevendo(x, i)
  <2>1. x.pos = Inicio(i) /\ Inicio(i) \in Nat /\ Fundo(i) \in Nat /\ Inicio(i) < Fundo(i) /\ x.pos - Inicio(i) = 0
    <3>1. Inicio(i) \in Nat /\ Fundo(i) \in Nat /\ Inicio(i) < Fundo(i)
      BY <1>2, <1>5, Regions
    <3>2. x.pos = Inicio(i)
      BY <1>2, <1>3, <1>5 DEF Inicio
    <3> QED
      BY <3>1, <3>2
  <2>2. e.buf = <<>> /\ e.arq = <<>> /\ e.off = 0 /\ e.cap = CapPreparo /\ DOMAIN e = {"buf", "arq", "off", "cap"}
    BY <1>2, <1>5 DEF e, NoEscritor, CapPreparo
  <2>3. EmDia(e)
    <3>1. e = [buf |-> <<>>, arq |-> <<>>, off |-> 0, cap |-> CapPreparo]
      BY <1>2, <1>5 DEF e, NoEscritor, CapPreparo
    <3>2. <<>> \in Seq(Nat) /\ Len(<<>>) = 0 /\ B >= 2 /\ B \in Nat /\ CapPreparo \in Nat
      BY SizesOfCapacity
    <3>3. e \in Escritores
      BY <3>1, <3>2 DEF Escritores
    <3>4. Multiplo(0)
      BY <3>2 DEF Multiplo
    <3> QED
      BY <2>2, <3>2, <3>3, <3>4 DEF EmDia
  <2>4. Escrito(e) = <<>> /\ Len(<<>>) = 0
    BY <2>2 DEF Escrito
  <2>5. \E P : Gravado(<<>>, P, Inicio(i), 0) /\ P[0] = 0
    <3> DEFINE P == [z \in 0..0 |-> 0]
    <3>1. P \in [0..0 -> Nat] /\ P[0] = 0 /\ 1..0 = {}
      OBVIOUS
    <3> HIDE DEF P
    <3>2. Gravado(<<>>, P, Inicio(i), 0)
      BY <3>1 DEF Gravado
    <3> QED
      BY <3>1, <3>2
  <2>6. x.pos \in Inicio(i)..Fundo(i) /\ x.pos < Fundo(i)
    BY <2>1
  <2> QED
    BY <1>3, <2>1, <2>2, <2>3, <2>4, <2>5, <2>6 DEF Escrevendo, ComQuadros, Quadros
<1>6. ASSUME Le(w[i].modo) PROVE ArquivosOK /\ Lendo(x, comp, i)
  <2>1. ArquivosOK
    BY <1>1, <1>2, <1>6 DEF DInv, TesteOK
  <2>2. x.l = [NoLeitor EXCEPT !.fds = Arquivos(i, NTeste)] /\ x.cnt = 0 /\ i \in 0..(NTeste - 1)
    BY <1>2, <1>3, <1>6 DEF l
  <2> QED
    BY <2>1, <2>2, ReaderOpens
<1>7. /\ DOMAIN comp' = 0..(NPrep - 1) /\ (EmPreparo \/ comp' = comp)
      /\ \A j \in 0..(NPrep - 1) : j # i => comp'[j] = comp[j]
  BY <1>1, <1>2, <1>4
<1>8. x.pc \in Ativos \cup {"fim", "morto"} /\ w[i].pc \notin {"fora", "fim", "morto"} /\ x.pc # "fim"
  BY <1>1, <1>3 DEF Ativos
<1>9. Muda(i, x)
  BY <1>1, <1>3, <1>5, <1>6, <1>7, <1>8 DEF Muda
<1> QED
  BY <1>9

\* It arrives, passes or decides.
LEMMA WaitingChanges ==
    ASSUME DInv, NEW i \in Trab, Chegar(i) \/ Passar(i) \/ Decidir(i)
    PROVE  \E x : Muda(i, x)
<1>0. w[i].pc \in {"espera", "barreira", "decide"} /\ UNCHANGED <<pai, fila, comp, pasta>>
  BY DEF Chegar, Passar, Decidir
<1>1. w[i].pc \in Ativos /\ w[i].pc \notin {"fora", "fim", "morto"}
  BY <1>0 DEF Ativos
<1>2. /\ DOMAIN w[i] = Campos /\ (EmPreparo <=> w[i].modo = "preparar")
      /\ EmPreparo => pai.n = NPrep /\ i \in 0..(NPrep - 1)
  BY <1>1, OneWorker
<1>3. (EmPreparo => Escrevendo(w[i], i)) /\ (Le(w[i].modo) => Lendo(w[i], comp, i))
  BY <1>1, ActiveWorker
<1>4. CASE w' = [w EXCEPT ![i] = Morto(i)]
  <2>1. Muda(i, Morto(i))
    BY <1>0, <1>1, <1>4, DeathChanges
  <2> QED
    BY <2>1
<1>5. ASSUME NEW pc \in {"barreira", "bloco", "fecha"}, NEW dl,
             w' = [w EXCEPT ![i] = [w[i] EXCEPT !.pc = pc, !.dl = dl]],
             EmPreparo => IF pc = "fecha" THEN w[i].pos = Fundo(i) /\ w[i].pos > Inicio(i)
                          ELSE w[i].pos < Fundo(i)
      PROVE  \E x : Muda(i, x)
  <2> DEFINE x == [w[i] EXCEPT !.pc = pc, !.dl = dl]
  <2>1. /\ x.pc = pc /\ x.pos = w[i].pos /\ x.e = w[i].e /\ x.l = w[i].l /\ x.fr = w[i].fr
        /\ x.cnt = w[i].cnt /\ x.modo = w[i].modo
    BY <1>2 DEF Campos
  <2> HIDE DEF x
  <2>2. EmPreparo => Escrevendo(x, i)
    BY <1>3, <1>5, <2>1, WritesOn
  <2>3. Le(x.modo) => Lendo(x, comp, i)
    BY <1>3, <2>1, ReadsOn
  <2>4. x.pc \in Ativos
    BY <2>1 DEF Ativos
  <2>5. Muda(i, x)
    BY <1>0, <1>1, <1>5, <2>1, <2>2, <2>3, <2>4, QuietChanges DEF x
  <2> QED
    BY <2>5
<1>6. w[i].pc \in {"espera", "barreira"} /\ EmPreparo => w[i].pos < Fundo(i)
  BY <1>3 DEF Escrevendo
<1>7. CASE Chegar(i)
  <2>1. CASE bar.quebrada
    BY <1>4, <1>7, <2>1 DEF Chegar
  <2>2. CASE ~bar.quebrada
    <3>1. w' = [w EXCEPT ![i].pc = "barreira"]
      BY <1>7, <2>2 DEF Chegar
    <3>2. [w EXCEPT ![i].pc = "barreira"] = [w EXCEPT ![i] = [w[i] EXCEPT !.pc = "barreira", !.dl = w[i].dl]]
      <4>1. [w[i] EXCEPT !.pc = "barreira"] = [w[i] EXCEPT !.pc = "barreira", !.dl = w[i].dl]
        BY <1>2 DEF Campos
      <4> QED
        BY <4>1
    <3>3. w[i].pc = "espera"
      BY <1>7 DEF Chegar
    <3> QED
      BY <1>5, <1>6, <3>1, <3>2, <3>3
  <2> QED
    BY <2>1, <2>2
<1>8. CASE Passar(i)
  <2>1. CASE bar.quebrada
    BY <1>4, <1>8, <2>1 DEF Passar
  <2>2. CASE ~bar.quebrada
    <3>1. w' = [w EXCEPT ![i] = [w[i] EXCEPT !.pc = "bloco", !.dl = mm.dl]] /\ w[i].pc = "barreira"
      BY <1>8, <2>2 DEF Passar
    <3> QED
      BY <1>5, <1>6, <3>1
  <2> QED
    BY <2>1, <2>2
<1>9. CASE Decidir(i)
  <2> DEFINE cada == w[i].cnt % Passo = 0
             para == CASE w[i].modo = "preparar" -> w[i].pos >= regiao(i, pai.n)[2]
                       [] w[i].modo = "sust" -> agora >= w[i].dl
                       [] OTHER -> cada /\ agora >= w[i].dl
             pc == IF para THEN "fecha" ELSE "bloco"
             dl == IF ~para /\ cada THEN mm.dl ELSE w[i].dl
  <2>1. w' = [w EXCEPT ![i] = [w[i] EXCEPT !.pc = pc, !.dl = dl]]
    BY <1>9 DEF Decidir
  <2>2. EmPreparo => (para <=> w[i].pos >= regiao(i, NPrep)[2])
    BY <1>2
  <2> HIDE DEF para
  <2>3. EmPreparo => /\ w[i].pos \in Inicio(i)..Fundo(i) /\ Inicio(i) \in Nat /\ Fundo(i) \in Nat
                     /\ w[i].pos > Inicio(i) /\ Fundo(i) > Inicio(i)
    <3>1. w[i].pc = "decide"
      BY <1>9 DEF Decidir
    <3> QED
      BY <1>2, <1>3, <3>1, Regions DEF Escrevendo
  <2>6. EmPreparo => (w[i].pos >= regiao(i, NPrep)[2] <=> w[i].pos = Fundo(i))
    <3> SUFFICES ASSUME EmPreparo PROVE w[i].pos >= regiao(i, NPrep)[2] <=> w[i].pos = Fundo(i)
      OBVIOUS
    <3> DEFINE r == regiao(i, NPrep)
    <3>1. Fundo(i) = IF r[2] > r[1] THEN r[2] ELSE r[1] + 1
      BY DEF Fundo
    <3>2. Inicio(i) = r[1] /\ r[2] \in Int
      BY <1>2, RegionEnd DEF Inicio
    <3> HIDE DEF r
    <3>3. w[i].pos >= r[2] <=> w[i].pos = Fundo(i)
      BY <2>3, <3>1, <3>2
    <3> QED
      BY <3>3 DEF r
  <2>4. pc \in {"barreira", "bloco", "fecha"}
    OBVIOUS
  <2>5. EmPreparo => IF pc = "fecha" THEN w[i].pos = Fundo(i) /\ w[i].pos > Inicio(i)
                     ELSE w[i].pos < Fundo(i)
    BY <2>2, <2>3, <2>6
  <2> HIDE DEF pc, dl
  <2> QED
    BY <1>5, <2>1, <2>4, <2>5
<1> QED
  BY <1>7, <1>8, <1>9

\* A block of a preparation, or of a test.
LEMMA CompressingChanges ==
    ASSUME DInv, NEW i \in Trab, ComprimirBloco(i) \/ BlocoSust(i)
    PROVE  \E x : Muda(i, x)
<1>0. w[i].pc = "bloco" /\ w[i].modo \in {"comp", "preparar", "sust"} /\ UNCHANGED <<pai, fila, comp, pasta>>
  BY DEF ComprimirBloco, BlocoSust, PodeBloco, Feito
<1>1. w[i].pc \in Ativos /\ w[i].pc # "fora" /\ ~Le(w[i].modo)
  BY <1>0 DEF Ativos, Le
<1>2. /\ DOMAIN w[i] = Campos /\ (EmPreparo <=> w[i].modo = "preparar")
      /\ EmPreparo => pai.n = NPrep /\ i \in 0..(NPrep - 1)
  BY <1>1, OneWorker
<1>3. EmPreparo => Escrevendo(w[i], i)
  BY <1>1, ActiveWorker
<1>4. CASE BlocoSust(i)
  <2> DEFINE x == [w[i] EXCEPT !.cnt = @ + 1, !.pc = "decide"]
  <2>1. w' = [w EXCEPT ![i] = x] /\ w[i].modo = "sust"
    BY <1>4 DEF BlocoSust, Feito
  <2>2. x.modo = w[i].modo /\ x.pc = "decide"
    BY <1>2 DEF Campos
  <2> HIDE DEF x
  <2>3. x.pc \in Ativos /\ ~EmPreparo /\ ~Le(x.modo)
    BY <1>1, <1>2, <2>1, <2>2 DEF Ativos
  <2>4. Muda(i, x)
    BY <1>0, <1>1, <2>1, <2>2, <2>3, QuietChanges
  <2> QED
    BY <2>4
<1>5. CASE ComprimirBloco(i)
  <2> DEFINE c == Comprimido(w[i].pos + 1)
             r == regiao(i, pai.n)
             e == escrever(escrever(w[i].e, <<B, Len(c)>>), c)
             p == IF w[i].pos + 1 >= r[2] /\ w[i].modo = "comp" THEN r[1] ELSE w[i].pos + 1
             x == [[w[i] EXCEPT !.e = e, !.pos = p] EXCEPT !.cnt = @ + 1, !.pc = "decide"]
  <2>1. w' = [w EXCEPT ![i] = x]
    BY <1>5 DEF ComprimirBloco, Feito
  <2>2. x.modo = w[i].modo /\ x.pc = "decide" /\ x.e = e /\ x.pos = p
    BY <1>2 DEF Campos
  <2> HIDE DEF x
  <2>3. ASSUME EmPreparo PROVE Escrevendo(x, i)
    <3> DEFINE y == w[i].e
               b == Inicio(i)
               m == w[i].pos - b
    <3>1. Escrevendo(w[i], i) /\ i \in 0..(NPrep - 1) /\ w[i].modo = "preparar"
      BY <1>2, <1>3, <2>3
    <3>2. /\ b \in Nat /\ Fundo(i) \in Nat /\ Fundo(i) <= NBlocos /\ NBlocos \in Nat
          /\ w[i].pos \in b..Fundo(i) /\ w[i].pos < Fundo(i)
      BY <1>0, <3>1, Regions, SizesOfCapacity DEF Escrevendo
    <3>3. ComQuadros(y, b, m)
      BY <3>1 DEF Escrevendo
    <3>5. /\ m \in Nat /\ b + m + 1 <= NBlocos /\ w[i].pos + 1 = b + m + 1
          /\ p = w[i].pos + 1 /\ p - b = m + 1 /\ p \in b..Fundo(i) /\ p > b
      <4> HIDE DEF b
      <4> QED
        BY <3>1, <3>2
    <3> HIDE DEF b, m, p, y
    <3>6. ComQuadros(e, b, m + 1)
      <4> DEFINE k == w[i].pos + 1
      <4>1. k = b + m + 1 /\ e = escrever(escrever(y, <<B, Len(Comprimido(k))>>), Comprimido(k))
        BY <3>5 DEF y
      <4> HIDE DEF k, e
      <4> QED
        BY <3>2, <3>3, <3>5, <4>1, FrameWritten
    <3> HIDE DEF e
    <3> QED
      BY <2>2, <3>5, <3>6 DEF Escrevendo, b
  <2>4. x.pc \in Ativos /\ ~Le(x.modo)
    BY <1>1, <2>2 DEF Ativos
  <2>5. Muda(i, x)
    <3> HIDE DEF c, r, e, p
    <3> QED
      BY <1>0, <1>1, <2>1, <2>2, <2>3, <2>4, QuietChanges
  <2> QED
    BY <2>5
<1> QED
  BY <1>4, <1>5

LEMMA ReadingChanges ==
    ASSUME DInv, NEW i \in Trab, DescomprimirBloco(i) \/ ProximoArquivo(i) \/ LerBloco(i)
    PROVE  \E x : Muda(i, x)
<1>0. w[i].pc = "bloco" /\ Le(w[i].modo) /\ UNCHANGED <<pai, fila, comp, pasta>>
  BY DEF DescomprimirBloco, ProximoArquivo, LerBloco, PodeBloco, Feito
<1>1. w[i].pc \in Ativos /\ w[i].pc # "fora"
  BY <1>0 DEF Ativos
<1>2. DOMAIN w[i] = Campos /\ i \in 0..(NTeste - 1) /\ ~EmPreparo /\ w[i].cnt \in Nat
  BY <1>0, <1>1, OneWorker
<1>3. ArquivosOK /\ Lendo(w[i], comp, i)
  BY <1>0, <1>1, ActiveWorker
<1>4. DOMAIN w[i].l = DOMAIN NoLeitor /\ (TemQuadro(w[i].l.pend) <=> Quadro(i))
  BY <1>3 DEF Lendo, TemQuadro, Quadro, Disp
<1>5. ASSUME NEW x, w' = [w EXCEPT ![i] = x], x.pc \in {"bloco", "decide"}, x.modo = w[i].modo, Lendo(x, comp, i)
      PROVE  \E y : Muda(i, y)
  <2>1. x.pc \in Ativos
    BY <1>5 DEF Ativos
  <2>2. Muda(i, x)
    BY <1>0, <1>1, <1>2, <1>5, <2>1, QuietChanges
  <2> QED
    BY <2>2
<1>6. CASE DescomprimirBloco(i)
  <2> DEFINE pend == w[i].l.pend
             fr == SubSeq(pend, 3, 2 + pend[2])
             l == [w[i].l EXCEPT !.pend = SubSeq(pend, 3 + pend[2], Len(pend))]
             y == [w[i] EXCEPT !.fr = fr, !.l.pend = SubSeq(@, 3 + pend[2], Len(@))]
             z == IF Grava(w[i].modo) THEN [y EXCEPT !.e = escrever(@, [j \in 1..B |-> 1])] ELSE y
             x == [z EXCEPT !.cnt = @ + 1, !.pc = "decide"]
  <2>1. w' = [w EXCEPT ![i] = x]
    BY <1>6 DEF DescomprimirBloco, Feito
  <2>2. y.fr = fr /\ y.l = l /\ y.cnt = w[i].cnt /\ y.modo = w[i].modo /\ DOMAIN y = Campos
    BY <1>2 DEF Campos
  <2> HIDE DEF y, fr, l
  <2>3. z.fr = fr /\ z.l = l /\ z.cnt = w[i].cnt /\ z.modo = w[i].modo /\ DOMAIN z = Campos
    BY <2>2 DEF Campos
  <2> HIDE DEF z
  <2>4. x.fr = fr /\ x.l = l /\ x.cnt = w[i].cnt + 1 /\ x.modo = w[i].modo /\ x.pc = "decide"
    BY <2>3 DEF Campos
  <2> HIDE DEF x
  <2>5. TemQuadro(w[i].l.pend)
    BY <1>4, <1>6 DEF DescomprimirBloco
  <2>6. Lendo(x, comp, i)
    <3> DEFINE v == w[i]
    <3>1. /\ Lendo(v, comp, i) /\ TemQuadro(v.l.pend)
          /\ x.l = Tomado(v.l)
          /\ x.fr = SubSeq(v.l.pend, 3, 2 + v.l.pend[2]) /\ x.cnt = v.cnt + 1
      BY <1>3, <2>4, <2>5 DEF fr, l, Tomado
    <3> HIDE DEF v
    <3> QED
      BY <1>2, <3>1, ReaderTakes
  <2> QED
    BY <1>5, <2>1, <2>4, <2>6
<1>7. CASE ProximoArquivo(i)
  <2> DEFINE l == w[i].l
             l2 == Adiante(l)
             x == [w[i] EXCEPT !.l = l2]
  <2>1. w' = [w EXCEPT ![i] = x]
    <3>1. w' = [w EXCEPT ![i].l = l2]
      BY <1>7 DEF ProximoArquivo, Adiante
    <3> HIDE DEF l2
    <3> QED
      BY <3>1
  <2> HIDE DEF l2
  <2>2. x.l = l2 /\ x.fr = w[i].fr /\ x.cnt = w[i].cnt /\ x.modo = w[i].modo /\ x.pc = "bloco"
    BY <1>0, <1>2 DEF Campos
  <2> HIDE DEF x
  <2>3. ~TemQuadro(w[i].l.pend) /\ ((Len(w[i].l.pend) >= 2 /\ w[i].l.pend[1] = 0) \/ w[i].l.fim_arq)
    BY <1>4, <1>7 DEF ProximoArquivo, Disp
  <2>4. Lendo(x, comp, i)
    <3> DEFINE v == w[i]
    <3>1. /\ Lendo(v, comp, i) /\ ~TemQuadro(v.l.pend)
          /\ (Len(v.l.pend) >= 2 /\ v.l.pend[1] = 0) \/ v.l.fim_arq
          /\ x.l = Adiante(v.l)
          /\ x.fr = v.fr /\ x.cnt = v.cnt
      BY <1>3, <2>2, <2>3 DEF l2
    <3> HIDE DEF v
    <3> QED
      BY <1>2, <1>3, <3>1, ReaderGoesOn
  <2> QED
    BY <1>5, <2>1, <2>2, <2>4
<1>8. CASE LerBloco(i)
  <2> DEFINE l == w[i].l
             arq == comp[l.fds[l.f]]
             l2 == Lido(l, arq)
             x == [w[i] EXCEPT !.l = l2]
  <2>1. w' = [w EXCEPT ![i] = x]
    <3>1. w' = [w EXCEPT ![i].l = l2]
      BY <1>8, Zenon DEF LerBloco, Lido
    <3> HIDE DEF l2
    <3> QED
      BY <3>1
  <2> HIDE DEF l2
  <2>2. x.l = l2 /\ x.fr = w[i].fr /\ x.cnt = w[i].cnt /\ x.modo = w[i].modo /\ x.pc = "bloco"
    BY <1>0, <1>2 DEF Campos
  <2> HIDE DEF x
  <2>3. ~w[i].l.fim_arq
    BY <1>8 DEF LerBloco
  <2>4. Lendo(x, comp, i)
    <3> DEFINE v == w[i]
    <3>1. /\ Lendo(v, comp, i) /\ ~v.l.fim_arq /\ x.fr = v.fr /\ x.cnt = v.cnt
      BY <1>3, <2>2, <2>3
    <3>2. x.l = Lido(v.l, comp[v.l.fds[v.l.f]])
      BY <2>2 DEF l2
    <3> HIDE DEF v
    <3> QED
      BY <1>2, <3>1, <3>2, ReaderReads
  <2> QED
    BY <1>5, <2>1, <2>2, <2>4
<1> QED
  BY <1>6, <1>7, <1>8

LEMMA ClosingChanges ==
    ASSUME DInv, NEW i \in Trab, Fechar(i)
    PROVE  \E x : Muda(i, x)
<1> DEFINE e == fechar(w[i].e, w[i].modo = "preparar")
           x == [Fora EXCEPT !.pc = "fim", !.modo = w[i].modo, !.cnt = w[i].cnt]
<1>1. /\ w[i].pc = "fecha" /\ w' = [w EXCEPT ![i] = x]
      /\ comp' = (IF w[i].modo = "preparar" THEN [comp EXCEPT ![i] = e.arq] ELSE comp)
      /\ fila' = fila \cup {[msg |-> "fim", i |-> i, bytes |-> w[i].cnt]}
      /\ UNCHANGED <<pai, pasta>>
  BY DEF Fechar
<1>2. /\ w[i].pc \in Ativos
      /\ (EmPreparo <=> w[i].modo = "preparar")
      /\ EmPreparo => i \in 0..(NPrep - 1)
  <2>1. w[i].pc # "fora" /\ w[i].pc \in Ativos
    BY <1>1 DEF Ativos
  <2> QED
    BY <2>1, OneWorker
<1>3. x.pc = "fim" /\ x.modo = w[i].modo /\ x.cnt = w[i].cnt
  BY DEF Fora
<1> HIDE DEF x
<1>4. DOMAIN comp = 0..(NPrep - 1)
  BY DEF DInv
<1>5. ASSUME EmPreparo PROVE Inteiro(e.arq, i)
  <2> DEFINE y == w[i].e
  <2>1. Escrevendo(w[i], i) /\ i \in 0..(NPrep - 1)
    BY <1>2, <1>5, ActiveWorker
  <2>2. w[i].pos = Fundo(i)
    BY <1>1, <2>1 DEF Escrevendo
  <2>3. ComQuadros(y, Inicio(i), Quantos(i))
    BY <2>1, <2>2 DEF Escrevendo, Quantos
  <2>4. e = fechar(y, TRUE)
    BY <1>2, <1>5
  <2> HIDE DEF y, e
  <2> QED
    BY <2>1, <2>3, <2>4, FileClosed
<1> HIDE DEF e
<1>6. /\ DOMAIN comp' = 0..(NPrep - 1) /\ (EmPreparo \/ comp' = comp)
      /\ \A j \in 0..(NPrep - 1) : j # i => comp'[j] = comp[j]
      /\ EmPreparo => comp'[i] = e.arq
  BY <1>1, <1>2, <1>4
<1>7. x.pc \notin Ativos /\ w[i].pc \notin {"fora", "fim", "morto"}
  BY <1>1, <1>3 DEF Ativos
<1>8. Muda(i, x)
  BY <1>1, <1>3, <1>5, <1>6, <1>7 DEF Muda
<1> QED
  BY <1>8

LEMMA WorkerChanges ==
    ASSUME DInv, NEW i \in Trab,
           worker(i) \/ (TempoBarreira(i) /\ ~(travas.dormindo > 0)) \/ Falhar(i)
    PROVE  \E x : Muda(i, x)
<1>1. CASE NaoAbre(i) \/ (TempoBarreira(i) /\ ~(travas.dormindo > 0)) \/ Falhar(i)
  <2>1. /\ w[i].pc \notin {"fora", "fim", "morto"} /\ w' = [w EXCEPT ![i] = Morto(i)]
        /\ UNCHANGED <<pai, fila, comp, pasta>>
    BY <1>1 DEF NaoAbre, TempoBarreira, Falhar
  <2>2. Muda(i, Morto(i))
    BY <2>1, DeathChanges
  <2> QED
    BY <2>2
<1> QED
  BY <1>1, OpeningChanges, WaitingChanges, CompressingChanges, ReadingChanges, ClosingChanges DEF worker

----------------------------------------------------------------------------
(***************************************************************************)
(* A step of a worker keeps the invariant.                                 *)
(***************************************************************************)
LEMMA ChangedWorker ==
    ASSUME DInv, NEW i \in Trab, NEW x, Muda(i, x)
    PROVE  /\ w'[i] = x /\ (\A j \in Trab : j # i => w'[j] = w[j]) /\ x.modo = w[i].modo
           /\ (\A j \in Trab : w'[j].modo = w[j].modo) /\ w'[0].modo = w[0].modo
           /\ EmPreparo' = EmPreparo
           /\ EmPreparo => i \in 0..(NPrep - 1)
           /\ w[i].pc \notin {"fora", "fim", "morto"}
<1>1. DOMAIN w = Trab /\ 0 \in Trab
  BY WorkerNumbers DEF DInv, CInv, Tipos, TiposTrab
<1>2. w[i].pc \notin {"fora", "fim", "morto"} /\ w' = [w EXCEPT ![i] = x] /\ x.modo = w[i].modo
  BY DEF Muda
<1>3. w'[i] = x /\ (\A j \in Trab : j # i => w'[j] = w[j])
  BY <1>1, <1>2
<1>4. (\A j \in Trab : w'[j].modo = w[j].modo) /\ w'[0].modo = w[0].modo
  BY <1>1, <1>2, <1>3
<1>5. EmPreparo => i \in 0..(NPrep - 1)
  <2>1. w[i].pc # "fora"
    BY <1>2
  <2> QED
    BY <2>1, OneWorker
<1> QED
  BY <1>2, <1>3, <1>4, <1>5 DEF EmPreparo

\* The answers: one that arrives has not been received yet.
LEMMA ChangedAnswers ==
    ASSUME DInv, NEW i \in Trab, NEW x, Muda(i, x)
    PROVE  RespostasOK'
<1>1. /\ w'[i] = x /\ (\A j \in Trab : j # i => w'[j] = w[j])
      /\ w[i].pc \notin {"fora", "fim", "morto"}
  BY ChangedWorker
<1> DEFINE a == [msg |-> "pronto", i |-> i, bytes |-> 0]
           b == [msg |-> "fim", i |-> i, bytes |-> x.cnt]
<1>2. \/ x.pc # "fim" /\ fila' \in {fila, fila \cup {a}}
      \/ x.pc = "fim" /\ fila' = fila \cup {b}
  BY DEF Muda
<1>3. a.msg = "pronto" /\ b.msg = "fim" /\ b.i = i /\ a.msg # "fim"
  OBVIOUS
<1>4. Resposta(i)' = b
  BY <1>1 DEF Resposta
<1>5. \A j \in Trab : j # i => Resposta(j)' = Resposta(j) /\ Resposta(j) # a /\ Resposta(j) # b
  <2> SUFFICES ASSUME NEW j \in Trab, j # i
               PROVE  Resposta(j)' = Resposta(j) /\ Resposta(j) # a /\ Resposta(j) # b
    OBVIOUS
  <2>1. Resposta(j)' = Resposta(j)
    BY <1>1 DEF Resposta
  <2>2. Resposta(j).msg = "fim" /\ Resposta(j).i = j
    BY DEF Resposta
  <2> QED
    BY <2>1, <2>2, <1>3
<1> HIDE DEF a, b
<1>6. Recebidos' = Recebidos
  <2>1. i \notin Recebidos
    BY <1>1 DEF Recebidos
  <2>2. i \notin Recebidos'
    BY <1>1, <1>2, <1>4 DEF Recebidos
  <2>3. \A j \in Trab : j # i => (j \in Recebidos' <=> j \in Recebidos)
    <3> SUFFICES ASSUME NEW j \in Trab, j # i PROVE j \in Recebidos' <=> j \in Recebidos
      OBVIOUS
    <3>1. w'[j] = w[j] /\ Resposta(j)' = Resposta(j) /\ (Resposta(j) \in fila' <=> Resposta(j) \in fila)
      BY <1>1, <1>2, <1>5
    <3>2. j \in Recebidos <=> w[j].pc = "fim" /\ Resposta(j) \notin fila
      BY DEF Recebidos
    <3>3. j \in Recebidos' <=> w'[j].pc = "fim" /\ Resposta(j)' \notin fila'
      BY DEF Recebidos
    <3> QED
      BY <3>1, <3>2, <3>3
  <2>4. Recebidos \subseteq Trab /\ Recebidos' \subseteq Trab
    BY DEF Recebidos
  <2> QED
    BY <2>1, <2>2, <2>3, <2>4
<1>7. \A m \in fila' : m.msg = "fim" => \E j \in Trab : w'[j].pc = "fim" /\ m = Resposta(j)'
  <2> SUFFICES ASSUME NEW m \in fila', m.msg = "fim"
               PROVE  \E j \in Trab : w'[j].pc = "fim" /\ m = Resposta(j)'
    OBVIOUS
  <2>1. CASE m \in fila
    <3>1. PICK j \in Trab : w[j].pc = "fim" /\ m = Resposta(j)
      BY <2>1 DEF DInv, RespostasOK
    <3>2. j # i
      BY <1>1, <3>1
    <3> QED
      BY <1>1, <1>5, <3>1, <3>2
  <2>2. CASE m \notin fila
    <3>1. m = b /\ x.pc = "fim"
      BY <1>2, <1>3, <2>2
    <3> QED
      BY <1>1, <1>4, <3>1
  <2> QED
    BY <2>1, <2>2
<1>8. pai' = pai
  BY DEF Muda
<1> QED
  BY <1>6, <1>7, <1>8 DEF DInv, RespostasOK

LEMMA ChangedKeeps ==
    ASSUME DInv, NEW i \in Trab, NEW x, Muda(i, x), CInv'
    PROVE  DInv'
<1>1. /\ w'[i] = x /\ (\A j \in Trab : j # i => w'[j] = w[j]) /\ x.modo = w[i].modo
      /\ (\A j \in Trab : w'[j].modo = w[j].modo) /\ w'[0].modo = w[0].modo
      /\ EmPreparo' = EmPreparo
      /\ EmPreparo => i \in 0..(NPrep - 1)
      /\ w[i].pc \notin {"fora", "fim", "morto"}
  BY ChangedWorker
<1>2. /\ pai' = pai /\ pasta' = pasta
      /\ DOMAIN comp' = 0..(NPrep - 1) /\ (EmPreparo \/ comp' = comp)
      /\ \A j \in 0..(NPrep - 1) : j # i => comp'[j] = comp[j]
      /\ EmPreparo /\ x.pc \in Ativos => Escrevendo(x, i)
      /\ EmPreparo /\ x.pc = "fim" => Inteiro(comp'[i], i)
      /\ Le(x.modo) /\ x.pc \in Ativos => ArquivosOK /\ Lendo(x, comp, i)
  BY DEF Muda
<1>3. ModosOK'
  <2>0. x.pc \in Ativos \cup {"fim", "morto"}
    BY DEF Muda
  <2>1. \A j \in Trab : w'[j].pc \in Ativos \cup {"fora", "abre", "fim", "morto"}
    BY <1>1, <2>0 DEF DInv, ModosOK
  <2> QED
    BY <1>1, <1>2, <2>1 DEF DInv, ModosOK
<1>4. RespostasOK'
  BY ChangedAnswers
<1>5. ~EmPreparo => ArquivosOK' = ArquivosOK
  BY <1>2 DEF ArquivosOK
<1>6. PreparoOK'
  <2> SUFFICES ASSUME EmPreparo PROVE PreparoOK'
    BY <1>1 DEF PreparoOK
  <2>1. pai.at # "plano"
    <3>1. i \in Andam
      BY <1>1 DEF Andam
    <3> QED
      BY <3>1 DEF DInv, PreparoOK
  <2>2. \A j \in 0..(NPrep - 1) : /\ w'[j].pc \in Ativos => Escrevendo(w'[j], j)
                                  /\ w'[j].pc = "fim" => Inteiro(comp'[j], j)
    <3> SUFFICES ASSUME NEW j \in 0..(NPrep - 1)
                 PROVE  /\ w'[j].pc \in Ativos => Escrevendo(w'[j], j)
                        /\ w'[j].pc = "fim" => Inteiro(comp'[j], j)
      OBVIOUS
    <3>1. CASE j = i
      BY <1>1, <1>2, <3>1
    <3>2. CASE j # i
      <4>1. j \in Trab
        BY SizesOfCapacity
      <4>2. w'[j] = w[j] /\ comp'[j] = comp[j]
        BY <1>1, <1>2, <3>2, <4>1
      <4> QED
        BY <4>2 DEF DInv, PreparoOK
    <3> QED
      BY <3>1, <3>2
  <2>3. pai'.at # "plano"
    BY <1>2, <2>1
  <2> QED
    BY <2>2, <2>3 DEF PreparoOK
<1>7. TesteOK'
  BY <1>1, <1>2, <1>5 DEF DInv, TesteOK
<1>8. LeitoresOK'
  <2> SUFFICES ASSUME NEW j \in Trab, Le(w'[j].modo), w'[j].pc \in Ativos
               PROVE  ArquivosOK' /\ Lendo(w'[j], comp', j)
    BY DEF LeitoresOK
  <2>1. w[j].pc # "fora" /\ w[j].modo = w'[j].modo
    <3>1. CASE j = i
      BY <1>1, <3>1
    <3>2. CASE j # i
      BY <1>1, <3>2 DEF Ativos
    <3> QED
      BY <3>1, <3>2
  <2>2. ~EmPreparo
    BY <2>1, OneWorker
  <2>3. comp' = comp
    BY <1>2, <2>2
  <2>4. ArquivosOK /\ Lendo(w'[j], comp, j)
    <3>1. CASE j = i
      BY <1>1, <1>2, <3>1
    <3>2. CASE j # i
      BY <1>1, <3>2 DEF DInv, LeitoresOK
    <3> QED
      BY <3>1, <3>2
  <2> QED
    BY <1>5, <2>2, <2>3, <2>4
<1> QED
  BY <1>2, <1>3, <1>4, <1>6, <1>7, <1>8 DEF DInv

----------------------------------------------------------------------------
(***************************************************************************)
(* The steps of the parent, for the files.                                 *)
(***************************************************************************)
LEMMA ParentTypes ==
    ASSUME DInv
    PROVE  DOMAIN pai = CamposDoPai /\ pai.n \in Nat /\ pai.plano \in Seq(Modos)
BY DEF DInv, CInv, Tipos, TiposPai, ModosOK

\* The workers and the files stay as they are.
LEMMA ParentKeeps ==
    ASSUME DInv, CInv', UNCHANGED <<w, comp>>, ModosOK', RespostasOK',
           EmPreparo /\ pai'.at = "plano" => Andam = {} /\ ArquivosOK,
           pasta' /\ ~EmPreparo /\ pai'.at \notin {"parado", "preparar"} => ArquivosOK
    PROVE  DInv'
<1>1. EmPreparo' = EmPreparo /\ ArquivosOK' = ArquivosOK /\ Andam' = Andam
  BY DEF EmPreparo, ArquivosOK, Andam
<1>2. DOMAIN comp' = 0..(NPrep - 1)
  BY DEF DInv
<1>3. PreparoOK'
  BY <1>1 DEF DInv, PreparoOK
<1>4. TesteOK'
  BY <1>1 DEF TesteOK
<1>5. LeitoresOK'
  BY <1>1 DEF DInv, LeitoresOK
<1> QED
  BY <1>2, <1>3, <1>4, <1>5 DEF DInv

LEMMA SameAnswers ==
    ASSUME DInv, UNCHANGED <<w, fila>>,
           pai'.at \in {"prontos", "barreira", "curva", "fins"} =>
               /\ pai.at \in {"prontos", "barreira", "curva", "fins"}
               /\ pai'.n = pai.n /\ pai'.resta \in 0..pai.n
               /\ IF pai'.at = "fins" THEN pai'.resta = (IF pai.at = "fins" THEN pai.resta ELSE pai.n)
                                      ELSE pai.at # "fins",
           pai'.at = "curva" => pai'.resta = pai'.n
    PROVE  RespostasOK'
<1>1. Recebidos' = Recebidos
  BY DEF Recebidos, Resposta
<1>2. pai.n \in Nat
  BY ParentTypes
<1>3. \A m \in fila' : m.msg = "fim" => \E i \in Trab : w'[i].pc = "fim" /\ m = Resposta(i)'
  BY DEF DInv, RespostasOK, Resposta
<1>4. pai'.at \in {"prontos", "barreira", "curva", "fins"} =>
        /\ pai'.resta \in 0..pai'.n
        /\ Cardinality(Recebidos) = IF pai'.at = "fins" THEN pai'.n - pai'.resta ELSE 0
  BY <1>2 DEF DInv, RespostasOK
<1> QED
  BY <1>1, <1>3, <1>4 DEF RespostasOK

\* The modes of the workers, when the parent goes on.
LEMMA SameModes ==
    ASSUME DInv, w' = w, pai'.n = pai.n, pai'.plano \in Seq(Modos),
           EmPreparo => pai'.at \in {"prontos", "barreira", "fins", "plano", "erro", "saindo", "fim"},
           pai'.at \in {"parado", "preparar"} => pai.at \in {"parado", "preparar"},
           pai'.at \in {"prontos", "barreira", "curva", "fins"} => EmPreparo \/ pai'.plano # <<>>
    PROVE  ModosOK'
<1>1. EmPreparo' = EmPreparo
  BY DEF EmPreparo
<1> QED
  BY <1>1 DEF DInv, ModosOK

LEMMA StartKeeps ==
    ASSUME DInv, CInv', Comecar
    PROVE  DInv'
<1>0. DOMAIN pai = CamposDoPai
  BY ParentTypes
<1>1. PICK c \in Comandos :
        /\ pai' = [pai EXCEPT !.cmd = c.cmd, !.plano = c.plano,
                              !.at = IF c.cmd = "io_disco" THEN "preparar" ELSE "plano"]
        /\ pasta' = (c.cmd = "io_disco")
  BY DEF Comecar
<1>2. pai.at = "parado" /\ UNCHANGED <<w, fila, comp>>
  BY DEF Comecar
<1>3. /\ pai'.at = (IF c.cmd = "io_disco" THEN "preparar" ELSE "plano")
      /\ pai'.n = pai.n /\ pai'.plano = c.plano
  BY <1>0, <1>1 DEF CamposDoPai
<1>4. pai'.plano \in Seq(Modos)
  BY <1>1, <1>3, CapacityAssumption DEF CapacityAssumption, Modos
<1>5. ~EmPreparo
  BY <1>2 DEF DInv, ModosOK
<1>6. ModosOK'
  BY <1>2, <1>3, <1>4, <1>5, SameModes
<1>7. RespostasOK'
  BY <1>2, <1>3, SameAnswers
<1>8. pasta' => pai'.at = "preparar"
  BY <1>1, <1>3
<1> QED
  BY <1>2, <1>5, <1>6, <1>7, <1>8, ParentKeeps

\* The workers of a preparation or of a test are launched.
LEMMA WorkersLaunched ==
    ASSUME DInv, CInv', NEW modo \in Modos \cup {"preparar"}, NEW n \in Nat \ {0}, Lancar(modo, n),
           n = (IF modo = "preparar" THEN NPrep ELSE NTeste),
           pai'.n = n, pai'.resta = n, pai'.at = "prontos", pai'.plano \in Seq(Modos), comp' = comp,
           modo # "preparar" => pai'.plano # <<>> /\ (pasta' => ArquivosOK)
    PROVE  DInv'
<1>1. /\ w' = [i \in Trab |-> IF i < n THEN [Fora EXCEPT !.pc = "abre", !.modo = modo] ELSE Fora]
      /\ fila' = {}
  BY DEF Lancar
<1>2. \A i \in Trab : /\ w'[i].pc \in {"abre", "fora"}
                      /\ w'[i].modo = IF i < n THEN modo ELSE "none"
  BY <1>1 DEF Fora
<1>3. w'[0].modo = modo
  BY <1>2, WorkerNumbers
<1>4. (EmPreparo' <=> modo = "preparar") /\ ArquivosOK' = ArquivosOK
  BY <1>3 DEF EmPreparo, ArquivosOK
<1>5. ModosOK'
  <2>1. \A i \in Trab : /\ w'[i].modo = IF i < pai'.n THEN w'[0].modo ELSE "none"
                       /\ w'[i].pc \in Ativos \cup {"fora", "abre", "fim", "morto"}
    BY <1>2, <1>3
  <2>2. Le(modo) => modo # "preparar"
    BY DEF Le
  <2> QED
    BY <1>3, <1>4, <2>1, <2>2 DEF ModosOK
<1>6. RespostasOK'
  <2>1. Recebidos' = {}
    BY <1>2 DEF Recebidos
  <2>2. Cardinality({}) = 0 /\ pai'.resta \in 0..pai'.n
    BY FS_EmptySet
  <2>3. Cardinality(Recebidos') = 0 /\ \A m \in fila' : FALSE
    BY <1>1, <2>1, <2>2
  <2> QED
    BY <2>2, <2>3 DEF RespostasOK
<1>7. PreparoOK'
  <2>1. \A i \in 0..(NPrep - 1) : w'[i].pc \notin Ativos /\ w'[i].pc # "fim"
    BY <1>2, SizesOfCapacity DEF Ativos
  <2> QED
    BY <2>1 DEF PreparoOK
<1>8. TesteOK'
  BY <1>4 DEF TesteOK
<1>9. LeitoresOK'
  BY <1>2 DEF LeitoresOK, Ativos
<1>10. DOMAIN comp' = 0..(NPrep - 1)
  BY DEF DInv
<1> QED
  BY <1>5, <1>6, <1>7, <1>8, <1>9, <1>10 DEF DInv

LEMMA PreparationKeeps ==
    ASSUME DInv, CInv', Preparar
    PROVE  DInv'
<1>0. DOMAIN pai = CamposDoPai
  BY ParentTypes
<1>1. /\ Lancar("preparar", NPrep) /\ comp' = comp
      /\ pai' = [pai EXCEPT !.at = "prontos", !.n = NPrep, !.resta = NPrep]
  BY DEF Preparar
<1>2. pai'.n = NPrep /\ pai'.resta = NPrep /\ pai'.at = "prontos" /\ pai'.plano = pai.plano
  BY <1>0, <1>1 DEF CamposDoPai
<1>3. pai'.plano \in Seq(Modos) /\ NPrep \in Nat \ {0}
  BY <1>2, SizesOfCapacity DEF DInv, ModosOK
<1> QED
  BY <1>1, <1>2, <1>3, WorkersLaunched

LEMMA TestKeeps ==
    ASSUME DInv, CInv', Testar
    PROVE  DInv'
<1> DEFINE modo == Head(pai.plano)
<1>1. /\ pai.at = "plano" /\ pai.plano # <<>> /\ Lancar(modo, NTeste) /\ comp' = comp /\ pasta' = pasta
      /\ pai' = [Parado EXCEPT !.at = "prontos", !.cmd = pai.cmd, !.plano = pai.plano,
                               !.testes = pai.testes, !.n = NTeste, !.resta = NTeste]
  BY DEF Testar
<1>2. pai'.n = NTeste /\ pai'.resta = NTeste /\ pai'.at = "prontos" /\ pai'.plano = pai.plano
  BY <1>1 DEF Parado
<1>3. pai.plano \in Seq(Modos) /\ NTeste \in Nat \ {0}
  BY SizesOfCapacity DEF DInv, ModosOK
<1>4. modo \in Modos
  BY <1>1, <1>3
<1> HIDE DEF modo
<1>5. modo # "preparar"
  BY <1>4 DEF Modos
<1>6. pasta => ArquivosOK
  BY <1>1 DEF DInv, PreparoOK, TesteOK
<1> QED
  BY <1>1, <1>2, <1>3, <1>4, <1>5, <1>6, WorkersLaunched

\* The steps between the launch of the workers and the end of the curve.
LEMMA WaitsKeep ==
    ASSUME DInv, CInv', Pronto \/ MarcarPrazo \/ Largar \/ Amostrar \/ FimDaCurva
    PROVE  DInv'
<1> USE DEF CamposDoPai
<1>0. DOMAIN pai = CamposDoPai /\ pai.n \in Nat /\ pai.plano \in Seq(Modos)
  BY ParentTypes
<1>1. /\ UNCHANGED <<w, comp, pasta>> /\ pai'.n = pai.n /\ pai'.plano = pai.plano
      /\ pai.at \in {"prontos", "barreira", "curva"}
      /\ pai'.at \in {"prontos", "barreira", "curva", "fins", "erro"}
  <2>1. CASE Pronto \/ MarcarPrazo \/ Largar
    BY <1>0, <2>1 DEF Pronto, MarcarPrazo, Largar
  <2>2. CASE Amostrar \/ FimDaCurva
    BY <1>0, <2>2 DEF Amostrar, FimDaCurva, Ir
  <2> QED
    BY <2>1, <2>2
<1>2. /\ pai.resta \in 0..pai.n /\ (pai.at = "curva" => pai.resta = pai.n)
      /\ EmPreparo \/ pai.plano # <<>>
      /\ EmPreparo => pai.at # "curva"
  BY <1>1 DEF DInv, RespostasOK, ModosOK
<1>3. EmPreparo => pai'.at # "curva"
  BY <1>0, <1>2 DEF Pronto, MarcarPrazo, Largar, Amostrar, FimDaCurva, Ir
<1>4. ModosOK'
  BY <1>0, <1>1, <1>2, <1>3, SameModes
<1>5. RespostasOK'
  <2>1. CASE Pronto
    <3>1. /\ pai'.at = "prontos" /\ pai.at = "prontos" /\ pai'.resta = pai.resta - 1 /\ pai.resta > 0
          /\ \E m \in fila : m.msg = "pronto" /\ fila' = fila \ {m}
      BY <1>0, <2>1 DEF Pronto, Chegadas
    <3>2. PICK a \in fila : a.msg = "pronto" /\ fila' = fila \ {a}
      BY <3>1
    <3>3. \A i \in Trab : Resposta(i)' = Resposta(i) /\ Resposta(i) # a
      BY <1>1, <3>2 DEF Resposta
    <3>4. Recebidos' = Recebidos
      BY <1>1, <3>2, <3>3 DEF Recebidos
    <3>5. \A m \in fila' : m.msg = "fim" => \E i \in Trab : w'[i].pc = "fim" /\ m = Resposta(i)'
      BY <1>1, <3>2, <3>3 DEF DInv, RespostasOK
    <3>6. Cardinality(Recebidos) = 0 /\ pai'.resta \in 0..pai'.n
      BY <1>0, <1>1, <1>2, <3>1 DEF DInv, RespostasOK
    <3> QED
      BY <3>1, <3>4, <3>5, <3>6 DEF RespostasOK
  <2>2. CASE MarcarPrazo
    <3>1. pai'.at = "barreira" /\ pai'.resta = pai.resta /\ fila' = fila
      BY <1>0, <2>2 DEF MarcarPrazo
    <3> QED
      BY <1>1, <1>2, <3>1, SameAnswers
  <2>3. CASE Largar
    <3>1. /\ fila' = fila /\ pai.at = "barreira"
          /\ pai'.at = "erro" \/ (pai'.at \in {"fins", "curva"} /\ pai'.resta = pai.n)
      BY <1>0, <2>3 DEF Largar
    <3> QED
      BY <1>0, <1>1, <3>1, SameAnswers
  <2>4. CASE Amostrar \/ FimDaCurva
    <3>1. fila' = fila /\ pai.at = "curva" /\ pai'.at \in {"fins", "curva"} /\ pai'.resta = pai.resta
      BY <1>0, <2>4 DEF Amostrar, FimDaCurva, Ir
    <3> QED
      BY <1>1, <1>2, <3>1, SameAnswers
  <2> QED
    BY <2>1, <2>2, <2>3, <2>4
<1>6. pasta' /\ ~EmPreparo => ArquivosOK
  BY <1>1 DEF DInv, TesteOK
<1>7. pai'.at # "plano"
  BY <1>1
<1> QED
  BY <1>1, <1>4, <1>5, <1>6, <1>7, ParentKeeps

\* One more answer is received.
LEMMA AnswerKeeps ==
    ASSUME DInv, CInv', Receber
    PROVE  DInv'
<1>0. DOMAIN pai = CamposDoPai /\ pai.n \in Nat /\ pai.plano \in Seq(Modos)
  BY ParentTypes
<1>1. PICK a \in fila : /\ a.msg = "fim" /\ fila' = fila \ {a}
                        /\ pai' = [pai EXCEPT !.resta = @ - 1, !.total = @ + a.bytes]
  BY DEF Receber, Chegadas
<1>2. UNCHANGED <<w, comp, pasta>> /\ pai.at = "fins" /\ pai.resta > 0
  BY DEF Receber
<1>3. pai'.at = "fins" /\ pai'.n = pai.n /\ pai'.plano = pai.plano /\ pai'.resta = pai.resta - 1
  BY <1>0, <1>1, <1>2 DEF CamposDoPai
<1>4. pai.resta \in 0..pai.n /\ Cardinality(Recebidos) = pai.n - pai.resta
  BY <1>2 DEF DInv, RespostasOK
<1>5. PICK i \in Trab : w[i].pc = "fim" /\ a = Resposta(i)
  BY <1>1 DEF DInv, RespostasOK
<1>6. \A j \in Trab : Resposta(j)' = Resposta(j) /\ (j # i => Resposta(j) # a)
  <2> SUFFICES ASSUME NEW j \in Trab PROVE Resposta(j)' = Resposta(j) /\ (j # i => Resposta(j) # a)
    OBVIOUS
  <2>1. Resposta(j).i = j /\ a.i = i
    BY <1>5 DEF Resposta
  <2>2. Resposta(j)' = Resposta(j)
    BY <1>2 DEF Resposta
  <2> QED
    BY <2>1, <2>2
<1>7. i \notin Recebidos /\ Recebidos' = Recebidos \cup {i}
  BY <1>1, <1>2, <1>5, <1>6 DEF Recebidos
<1>8. Cardinality(Recebidos') = Cardinality(Recebidos) + 1
  <2>1. Recebidos \subseteq Trab
    BY DEF Recebidos
  <2>2. IsFiniteSet(Recebidos)
    BY <2>1, WorkerNumbers, FS_Subset
  <2> QED
    BY <1>7, <2>2, FS_AddElement
<1>9. \A m \in fila' : m.msg = "fim" => \E j \in Trab : w'[j].pc = "fim" /\ m = Resposta(j)'
  BY <1>1, <1>2, <1>6 DEF DInv, RespostasOK
<1>10. RespostasOK'
  <2>1. pai'.resta \in 0..pai'.n /\ Cardinality(Recebidos') = pai'.n - pai'.resta
    BY <1>0, <1>2, <1>3, <1>4, <1>8
  <2> QED
    BY <1>3, <1>9, <2>1 DEF RespostasOK
<1>11. ModosOK'
  <2>1. EmPreparo \/ pai.plano # <<>>
    BY <1>2 DEF DInv, ModosOK
  <2> QED
    BY <1>0, <1>2, <1>3, <2>1, SameModes
<1>12. pasta' /\ ~EmPreparo => ArquivosOK
  BY <1>2 DEF DInv, TesteOK
<1> QED
  BY <1>2, <1>3, <1>10, <1>11, <1>12, ParentKeeps

\* When all n have answered, every worker of a preparation has closed its file.
LEMMA SaveKeeps ==
    ASSUME DInv, CInv', Gravar
    PROVE  DInv'
<1>0. DOMAIN pai = CamposDoPai /\ pai.n \in Nat /\ pai.plano \in Seq(Modos)
  BY ParentTypes
<1>1. /\ pai.at = "fins" /\ pai.resta = 0 /\ Andam = {} /\ UNCHANGED <<w, comp, pasta, fila>>
      /\ pai' = [pai EXCEPT !.at = "plano", !.plano = IF EmPreparo THEN @ ELSE Tail(@),
                            !.testes = IF EmPreparo THEN @ ELSE @ + 1]
  BY DEF Gravar, Vivos
<1>2. /\ pai'.at = "plano" /\ pai'.n = pai.n
      /\ pai'.plano = (IF EmPreparo THEN pai.plano ELSE Tail(pai.plano))
  BY <1>0, <1>1 DEF CamposDoPai
<1>3. pai'.plano \in Seq(Modos)
  <2>1. EmPreparo \/ pai.plano # <<>>
    BY <1>1 DEF DInv, ModosOK
  <2>2. pai.plano # <<>> => Tail(pai.plano) \in Seq(Modos)
    BY <1>0
  <2> QED
    BY <1>0, <1>2, <2>1, <2>2
<1>4. ModosOK'
  BY <1>1, <1>2, <1>3, SameModes
<1>5. RespostasOK'
  BY <1>1, <1>2, SameAnswers
<1>6. ASSUME EmPreparo PROVE ArquivosOK
  <2>1. pai.n = NPrep /\ Cardinality(Recebidos) = NPrep
    <3>1. pai.n = NPrep
      BY <1>6 DEF DInv, ModosOK
    <3>2. Cardinality(Recebidos) = pai.n - pai.resta
      BY <1>1 DEF DInv, RespostasOK
    <3> QED
      BY <1>0, <1>1, <3>1, <3>2
  <2>2. Recebidos \subseteq 0..(NPrep - 1)
    <3> SUFFICES ASSUME NEW j \in Recebidos PROVE j \in 0..(NPrep - 1)
      OBVIOUS
    <3>1. j \in Trab /\ w[j].pc # "fora"
      BY DEF Recebidos
    <3> QED
      BY <1>6, <3>1, OneWorker
  <2>3. IsFiniteSet(0..(NPrep - 1)) /\ Cardinality(0..(NPrep - 1)) = NPrep
    <3>1. NPrep \in Nat \ {0} /\ NPrep - 1 \in Int
      BY SizesOfCapacity
    <3>2. /\ IsFiniteSet(0..(NPrep - 1))
          /\ Cardinality(0..(NPrep - 1)) = IF 0 > NPrep - 1 THEN 0 ELSE NPrep - 1 - 0 + 1
      BY <3>1, FS_Interval
    <3> QED
      BY <3>1, <3>2
  <2>4. Recebidos = 0..(NPrep - 1)
    BY <2>1, <2>2, <2>3, FS_Subset
  <2>5. \A j \in 0..(NPrep - 1) : w[j].pc = "fim"
    BY <2>4 DEF Recebidos
  <2> QED
    BY <1>6, <2>5 DEF DInv, PreparoOK, ArquivosOK
<1>7. pasta' /\ ~EmPreparo => ArquivosOK
  BY <1>1 DEF DInv, TesteOK
<1> QED
  BY <1>1, <1>4, <1>5, <1>6, <1>7, ParentKeeps

LEMMA EndingKeeps ==
    ASSUME DInv, CInv', Tempo \/ Terminar \/ Sair, pai' # pai
    PROVE  DInv'
<1>0. DOMAIN pai = CamposDoPai /\ pai.n \in Nat /\ pai.plano \in Seq(Modos)
  BY ParentTypes
<1>1. /\ UNCHANGED <<w, comp, fila>> /\ pai'.n = pai.n /\ pai'.plano = pai.plano
      /\ pai'.at \in {"erro", "saindo", "fim"} /\ pai.at \notin {"parado", "preparar"}
      /\ pasta' => pasta
  BY <1>0 DEF Tempo, Terminar, Sair, Ir, CamposDoPai
<1>2. ModosOK'
  BY <1>0, <1>1, SameModes
<1>3. RespostasOK'
  BY <1>1, SameAnswers
<1>4. pasta' /\ ~EmPreparo => ArquivosOK
  BY <1>1 DEF DInv, TesteOK
<1> QED
  BY <1>1, <1>2, <1>3, <1>4, ParentKeeps

LEMMA SilenceKeeps ==
    ASSUME DInv, CInv', UNCHANGED <<pai, w, comp, fila, pasta>>
    PROVE  DInv'
<1>1. UNCHANGED <<pai, w, comp, fila, pasta>>
  OBVIOUS
<1>2. ModosOK'
  BY <1>1 DEF DInv, ModosOK, EmPreparo
<1>3. RespostasOK'
  BY <1>1 DEF DInv, RespostasOK, Recebidos, Resposta
<1>4. EmPreparo /\ pai'.at = "plano" => Andam = {} /\ ArquivosOK
  BY <1>1 DEF DInv, PreparoOK
<1>5. pasta' /\ ~EmPreparo /\ pai'.at \notin {"parado", "preparar"} => ArquivosOK
  BY <1>1 DEF DInv, TesteOK
<1> QED
  BY <1>1, <1>2, <1>3, <1>4, <1>5, ParentKeeps

\* A worker that is killed leaves the files; its messages may go with it.
LEMMA KilledAnswers ==
    ASSUME DInv, NEW i \in Trab, w[i].pc # "fora", w' = [w EXCEPT ![i] = Morto(i)], pai' = pai,
           fila' = fila \/ fila' = fila \ Suas(i),
           w[i].pc = "fim" => Suas(i) # {} /\ fila' = fila \ Suas(i)
    PROVE  RespostasOK'
<1>1. /\ DOMAIN w = Trab /\ w'[i] = Morto(i) /\ Morto(i).pc = "morto"
      /\ \A j \in Trab : j # i => w'[j] = w[j]
  BY DEF DInv, CInv, Tipos, TiposTrab, Morto, Fora
<1>2. \A j \in Trab : j # i => Resposta(j)' = Resposta(j) /\ Resposta(j) \notin Suas(i)
  BY <1>1 DEF Resposta, Suas
<1>3. \A m \in fila : m.msg = "fim" => \E j \in Trab : w[j].pc = "fim" /\ m = Resposta(j)
  BY DEF DInv, RespostasOK
<1>4. i \notin Recebidos
  <2>1. CASE w[i].pc = "fim"
    <3>1. PICK m \in fila : m.i = i /\ m.msg = "fim"
      BY <2>1 DEF Suas
    <3>2. PICK j \in Trab : w[j].pc = "fim" /\ m = Resposta(j)
      BY <1>3, <3>1
    <3>3. j = i
      BY <3>1, <3>2 DEF Resposta
    <3> QED
      BY <3>1, <3>2, <3>3 DEF Recebidos
  <2>2. CASE w[i].pc # "fim"
    BY <2>2 DEF Recebidos
  <2> QED
    BY <2>1, <2>2
<1>5. Recebidos' = Recebidos
  <2>1. i \notin Recebidos'
    BY <1>1 DEF Recebidos
  <2>2. ASSUME NEW j \in Trab, j # i PROVE j \in Recebidos' <=> j \in Recebidos
    <3>1. w'[j] = w[j] /\ Resposta(j)' = Resposta(j) /\ (Resposta(j) \in fila' <=> Resposta(j) \in fila)
      BY <1>1, <1>2, <2>2
    <3>2. j \in Recebidos <=> w[j].pc = "fim" /\ Resposta(j) \notin fila
      BY DEF Recebidos
    <3>3. j \in Recebidos' <=> w'[j].pc = "fim" /\ Resposta(j)' \notin fila'
      BY DEF Recebidos
    <3> QED
      BY <3>1, <3>2, <3>3
  <2>3. Recebidos \subseteq Trab /\ Recebidos' \subseteq Trab
    BY DEF Recebidos
  <2> QED
    BY <1>4, <2>1, <2>2, <2>3
<1>6. ASSUME NEW m \in fila', m.msg = "fim" PROVE \E j \in Trab : w'[j].pc = "fim" /\ m = Resposta(j)'
  <2>1. m \in fila
    BY <1>6
  <2>2. PICK j \in Trab : w[j].pc = "fim" /\ m = Resposta(j)
    BY <1>3, <1>6, <2>1
  <2>3. j # i
    <3> SUFFICES ASSUME j = i PROVE FALSE
      OBVIOUS
    <3>1. fila' = fila \ Suas(i) /\ m.i = i
      BY <2>2 DEF Resposta
    <3> QED
      BY <1>6, <2>1, <3>1 DEF Suas
  <2> QED
    BY <1>1, <1>2, <2>2, <2>3
<1> QED
  BY <1>5, <1>6 DEF DInv, RespostasOK

LEMMA KilledKeeps ==
    ASSUME DInv, CInv', NEW i \in Trab, Morrer(i)
    PROVE  DInv'
<1>1. w[i].pc # "fora" /\ (i \in Andam \/ Suas(i) # {}) /\ UNCHANGED <<pai, comp, pasta>>
  BY DEF Morrer
<1>2. \/ UNCHANGED <<w, fila>>
      \/ /\ w' = [w EXCEPT ![i] = Morto(i)]
         /\ fila' = fila \/ fila' = fila \ Suas(i)
         /\ i \in Andam \/ fila' = fila \ Suas(i)
  BY DEF Morrer
<1>3. CASE UNCHANGED <<w, fila>>
  BY <1>1, <1>3, SilenceKeeps
<1>4. CASE w' = [w EXCEPT ![i] = Morto(i)] /\ ~UNCHANGED <<w, fila>>
  <2>1. /\ DOMAIN w = Trab /\ w'[i] = Morto(i) /\ Morto(i).pc = "morto" /\ Morto(i).modo = w[i].modo
        /\ \A j \in Trab : j # i => w'[j] = w[j]
    BY <1>4 DEF DInv, CInv, Tipos, TiposTrab, Morto, Fora
  <2>2. (\A j \in Trab : w'[j].modo = w[j].modo) /\ w'[0].modo = w[0].modo /\ EmPreparo' = EmPreparo
    BY <2>1, WorkerNumbers DEF EmPreparo
  <2>3. RespostasOK'
    <3>1. w[i].pc = "fim" => Suas(i) # {} /\ fila' = fila \ Suas(i)
      BY <1>1, <1>2, <1>4 DEF Andam
    <3> QED
      BY <1>1, <1>2, <1>4, <3>1, KilledAnswers
  <2>4. ModosOK'
    <3>1. \A j \in Trab : w'[j].pc \in Ativos \cup {"fora", "abre", "fim", "morto"}
      BY <2>1 DEF DInv, ModosOK
    <3> QED
      BY <1>1, <2>2, <3>1 DEF DInv, ModosOK
  <2>5. ArquivosOK' = ArquivosOK
    BY <1>1 DEF ArquivosOK
  <2>6. Andam' \subseteq Andam
    BY <2>1 DEF Andam
  <2>7. PreparoOK'
    <3> SUFFICES ASSUME EmPreparo PROVE PreparoOK'
      BY <2>2 DEF PreparoOK
    <3>1. ASSUME NEW j \in 0..(NPrep - 1)
          PROVE  /\ w'[j].pc \in Ativos => Escrevendo(w'[j], j)
                 /\ w'[j].pc = "fim" => Inteiro(comp'[j], j)
      <4>1. j \in Trab
        BY SizesOfCapacity
      <4>2. CASE j = i
        BY <2>1, <4>2 DEF Ativos
      <4>3. CASE j # i
        BY <1>1, <2>1, <4>1, <4>3 DEF DInv, PreparoOK
      <4> QED
        BY <4>2, <4>3
    <3> QED
      BY <1>1, <2>5, <2>6, <3>1 DEF DInv, PreparoOK
  <2>8. TesteOK'
    BY <1>1, <2>2, <2>5 DEF DInv, TesteOK
  <2>9. LeitoresOK'
    <3> SUFFICES ASSUME NEW j \in Trab, Le(w'[j].modo), w'[j].pc \in Ativos
                 PROVE  ArquivosOK' /\ Lendo(w'[j], comp', j)
      BY DEF LeitoresOK
    <3>1. j # i
      BY <2>1 DEF Ativos
    <3> QED
      BY <1>1, <2>1, <2>5, <3>1 DEF DInv, LeitoresOK
  <2> QED
    BY <1>1, <2>3, <2>4, <2>7, <2>8, <2>9 DEF DInv
<1> QED
  BY <1>2, <1>3, <1>4

LEMMA FilesInit ==
    ASSUME Init
    PROVE  DInv
<1>1. CInv
  BY CapacityInit
<1>2. /\ \A i \in Trab : w[i].pc = "fora" /\ w[i].modo = "none"
      /\ w[0].modo = "none"
  BY WorkerNumbers DEF Init, Fora
<1>3. pai.at = "parado" /\ pai.n = 0 /\ pai.plano = <<>> /\ fila = {} /\ DOMAIN comp = 0..(NPrep - 1)
  BY DEF Init, Parado
<1>4. ~EmPreparo /\ ~Le("none")
  BY <1>2 DEF EmPreparo, Le
<1>5. ModosOK
  <2>1. <<>> \in Seq(Modos) /\ \A i \in Trab : ~(i < 0)
    BY WorkerNumbers
  <2> QED
    BY <1>2, <1>3, <1>4, <2>1 DEF ModosOK
<1>6. RespostasOK
  BY <1>3 DEF RespostasOK
<1>7. PreparoOK /\ TesteOK /\ LeitoresOK
  BY <1>2, <1>3, <1>4 DEF PreparoOK, TesteOK, LeitoresOK, Ativos
<1> QED
  BY <1>1, <1>3, <1>5, <1>6, <1>7 DEF DInv

LEMMA FilesNext ==
    ASSUME DInv, [Next]_vars, CInv'
    PROVE  DInv'
<1>1. CASE executar_io \/ Tempo
  <2>1. CASE pai' = pai /\ Tempo
    <3>1. UNCHANGED <<w, comp, fila, pasta>>
      BY <2>1 DEF Tempo
    <3> QED
      BY <2>1, <3>1, SilenceKeeps
  <2>2. CASE pai' # pai /\ (Tempo \/ Terminar \/ Sair)
    BY <2>2, EndingKeeps
  <2>3. CASE pai' = pai /\ (Terminar \/ Sair)
    <3>1. DOMAIN pai = CamposDoPai
      BY ParentTypes
    <3> QED
      BY <2>3, <3>1 DEF Terminar, Sair, Ir, CamposDoPai
  <2> QED
    BY <1>1, <2>1, <2>2, <2>3, StartKeeps, PreparationKeeps, TestKeeps, WaitsKeep, AnswerKeeps, SaveKeeps
    DEF executar_io
<1>2. CASE Tic \/ UNCHANGED vars
  <2>1. UNCHANGED <<pai, w, comp, fila, pasta>>
    BY <1>2 DEF Tic, vars
  <2> QED
    BY <2>1, SilenceKeeps
<1>3. ASSUME NEW i \in Trab, worker(i) \/ TempoBarreira(i) \/ Falhar(i) \/ Morrer(i)
      PROVE  DInv'
  <2>1. CASE worker(i) \/ (TempoBarreira(i) /\ ~(travas.dormindo > 0)) \/ Falhar(i)
    <3>1. PICK x : Muda(i, x)
      BY <2>1, WorkerChanges
    <3> QED
      BY <3>1, ChangedKeeps
  <2>2. CASE TempoBarreira(i) /\ travas.dormindo > 0
    <3>1. UNCHANGED <<pai, w, comp, fila, pasta>>
      BY <2>2 DEF TempoBarreira
    <3> QED
      BY <3>1, SilenceKeeps
  <2>3. CASE Morrer(i)
    BY <2>3, KilledKeeps
  <2> QED
    BY <1>3, <2>1, <2>2, <2>3
<1> QED
  BY <1>1, <1>2, <1>3 DEF Next

\* What a reader holds is the frame of its last block.
LEMMA ReadersHoldTheirBlock ==
    ASSUME DInv
    PROVE  FramesComeBack
<1> SUFFICES ASSUME NEW i \in Trab, Le(w[i].modo), w[i].pc # "fim", w[i].cnt > 0
             PROVE  LET bs == Blocos(i, NTeste)
                    IN  Descomprimido(w[i].fr) = {c \in DOMAIN Clen :
                            Comprimido(c) = Comprimido(bs[((w[i].cnt - 1) % Len(bs)) + 1])}
  BY DEF FramesComeBack
<1>1. w[i].pc \in Ativos
  <2>1. w[i].pc \notin {"fora", "abre", "morto"}
    BY DEF DInv, CInv, ContadoOK
  <2> QED
    BY <2>1 DEF DInv, ModosOK
<1>2. Lendo(w[i], comp, i)
  BY <1>1 DEF DInv, LeitoresOK
<1>3. LET bs == Blocos(i, NTeste) IN w[i].fr = Comprimido(bs[((w[i].cnt - 1) % Len(bs)) + 1])
  BY <1>2 DEF Lendo
<1> QED
  BY <1>3, Zenon DEF Descomprimido

\* What comes out of the files of frames, when they are read round and round, is the
\* blocks that went in, each once in every round and in order, with any number of
\* workers that die and any size of the input and its blocks (Escritor.escrever and
\* fechar, Leitor.proximo, modo_io_comp_worker, executar_io and cmd_io_disco of
\* capacidade_local.py).
THEOREM FramesAreTheBlocks == Spec => []FramesComeBack
<1>1. Init => DInv
  BY FilesInit
<1>2. DInv /\ [Next]_vars => DInv'
  BY CapacityNext, FilesNext DEF DInv
<1>3. DInv => FramesComeBack
  BY ReadersHoldTheirBlock
<1> QED
  BY <1>1, <1>2, <1>3, PTL DEF Spec

=============================================================================
