-------------------------- MODULE EngineGate_proofs --------------------------
(***************************************************************************)
(* Proofs about EngineGate, for any number of clients, permits and workers. *)
(*                                                                         *)
(* The balancer reads the number of free permits, and takes one later.      *)
(* What it read may be false by then; what stays true is that the permits   *)
(* it had left were at least two more than it holds (TakingIsSafe), which   *)
(* follows from the conservation of permits at the moment of the reading.   *)
(***************************************************************************)
EXTENDS EngineGate, FiniteSetTheorems, SequenceTheorems, TLAPS

HoldersOf(f) == {r \in Requests : f[r] \in {"granted", "working"}}

\* The balancer about to take a permit leaves one after it.
TakingIsSafe == balancer = "taking" => retained + 1 < Permits

IInv == TypeOK /\ PermitsConserved /\ WaitersQueued /\ BalancerLeavesOne /\ TakingIsSafe

USE RequestsAssumption, PermitsAssumption

----------------------------------------------------------------------------
\* The requests that hold a permit are finitely many.
LEMMA HoldersFinite ==
    ASSUME NEW f
    PROVE  IsFiniteSet(HoldersOf(f)) /\ Cardinality(HoldersOf(f)) \in Nat
<1>1. HoldersOf(f) \in SUBSET Requests
  BY DEF HoldersOf
<1> QED
  BY <1>1, FS_Subset, FS_CardinalityType

\* A request that gets a permit makes the holders one more.
LEMMA OneHolderMore ==
    ASSUME NEW f \in [Requests -> Phases], NEW r \in Requests,
           f[r] \notin {"granted", "working"}, NEW p \in {"granted", "working"}
    PROVE  Cardinality(HoldersOf([f EXCEPT ![r] = p])) = Cardinality(HoldersOf(f)) + 1
<1>1. HoldersOf([f EXCEPT ![r] = p]) = HoldersOf(f) \cup {r}
  BY DEF HoldersOf
<1>2. r \notin HoldersOf(f)
  BY DEF HoldersOf
<1> QED
  BY <1>1, <1>2, HoldersFinite, FS_AddElement

\* A request that drops its permit makes them one less.
LEMMA OneHolderLess ==
    ASSUME NEW f \in [Requests -> Phases], NEW r \in Requests,
           f[r] \in {"granted", "working"}, NEW p \in {"idle", "left"}
    PROVE  Cardinality(HoldersOf([f EXCEPT ![r] = p])) = Cardinality(HoldersOf(f)) - 1
<1>1. HoldersOf([f EXCEPT ![r] = p]) = HoldersOf(f) \ {r}
  BY DEF HoldersOf
<1>2. r \in HoldersOf(f)
  BY DEF HoldersOf
<1>3. IsFiniteSet(HoldersOf(f))
  BY HoldersFinite
<1>4. Cardinality(HoldersOf(f) \ {r}) = Cardinality(HoldersOf(f)) - 1
  BY <1>2, <1>3, FS_RemoveElement
<1> QED
  BY <1>1, <1>4

\* A permit that is dropped goes to the first that waits, or is free: either way the
\* permits that are free or held are one more, and the queue stays as it should be.
LEMMA ReleaseGivesOne ==
    ASSUME TypeOK, WaitersQueued, NEW ph \in [Requests -> Phases], Release(ph),
           \A r \in Requests : ph[r] = "waiting" <=> phase[r] = "waiting"
    PROVE  /\ phase' \in [Requests -> Phases]
           /\ avail' \in Nat
           /\ queue' \in Seq(Requests)
           /\ WaitersQueued'
           /\ avail' + Cardinality(HoldersOf(phase')) = avail + Cardinality(HoldersOf(ph)) + 1
<1>1. CASE queue = <<>>
  BY <1>1, HoldersFinite DEF Release, TypeOK, WaitersQueued
<1>2. CASE queue # <<>>
  <2> DEFINE h == Head(queue)
  <2>1. /\ queue \in Seq(Requests) /\ Len(queue) \in Nat /\ Len(queue) > 0
        /\ h \in Requests /\ h = queue[1] /\ phase[h] = "waiting"
    BY <1>2, EmptySeq DEF TypeOK, WaitersQueued
  <2>2. /\ Tail(queue) \in Seq(Requests)
        /\ Len(Tail(queue)) = Len(queue) - 1
        /\ \A i \in 1..Len(Tail(queue)) : Tail(queue)[i] = queue[i + 1]
    BY <2>1, <1>2, HeadTailProperties
  <2>3. /\ phase' = [ph EXCEPT ![h] = "granted"]
        /\ queue' = Tail(queue)
        /\ avail' = avail
    BY <1>2 DEF Release
  <2>4. phase' \in [Requests -> Phases] /\ avail' \in Nat /\ queue' \in Seq(Requests)
    BY <2>1, <2>2, <2>3 DEF TypeOK, Phases
  <2>5. WaitersQueued'
    <3>1. ASSUME NEW r \in Requests
          PROVE  phase'[r] = "waiting" <=> \E i \in 1..Len(queue') : queue'[i] = r
      <4>1. CASE r = h
        BY <4>1, <2>1, <2>2, <2>3 DEF WaitersQueued
      <4>2. CASE r # h
        <5>1. phase'[r] = "waiting" <=> \E i \in 1..Len(queue) : queue[i] = r
          BY <4>2, <2>3 DEF WaitersQueued
        <5>2. (\E i \in 1..Len(queue) : queue[i] = r)
                  <=> \E i \in 1..Len(queue') : queue'[i] = r
          BY <4>2, <2>1, <2>2, <2>3
        <5> QED
          BY <5>1, <5>2
      <4> QED
        BY <4>1, <4>2
    <3>2. ASSUME NEW i \in 1..Len(queue'), NEW j \in 1..Len(queue'), queue'[i] = queue'[j]
          PROVE  i = j
      BY <3>2, <2>1, <2>2, <2>3 DEF WaitersQueued
    <3>3. queue' # <<>> => avail' = 0
      BY <1>2, <2>3 DEF WaitersQueued
    <3> QED
      BY <3>1, <3>2, <3>3 DEF WaitersQueued
  <2>6. Cardinality(HoldersOf(phase')) = Cardinality(HoldersOf(ph)) + 1
    <3>1. ph[h] \notin {"granted", "working"}
      BY <2>1
    <3> QED
      BY <3>1, <2>1, <2>3, OneHolderMore
  <2> QED
    BY <2>3, <2>4, <2>5, <2>6, HoldersFinite DEF TypeOK
<1> QED
  BY <1>1, <1>2

\* What is left of a sequence without its element at k.
LEMMA RemoveAtProperties ==
    ASSUME NEW S, NEW s \in Seq(S), NEW k \in 1..Len(s)
    PROVE  /\ RemoveAt(s, k) \in Seq(S)
           /\ Len(RemoveAt(s, k)) = Len(s) - 1
           /\ \A i \in 1..(Len(s) - 1) :
                 RemoveAt(s, k)[i] = IF i < k THEN s[i] ELSE s[i + 1]
<1> DEFINE front == SubSeq(s, 1, k - 1)
           back  == SubSeq(s, k + 1, Len(s))
<1>1. Len(s) \in Nat
  BY LenProperties
<1>2. /\ front \in Seq(S) /\ Len(front) = k - 1
      /\ \A i \in 1..(k - 1) : front[i] = s[i]
  BY <1>1, SubSeqProperties
<1>3. /\ back \in Seq(S) /\ Len(back) = Len(s) - k
      /\ \A i \in 1..(Len(s) - k) : back[i] = s[k + i]
  BY <1>1, SubSeqProperties
<1>4. /\ front \o back \in Seq(S)
      /\ Len(front \o back) = Len(front) + Len(back)
      /\ \A i \in 1..(Len(front) + Len(back)) : (front \o back)[i] =
            IF i <= Len(front) THEN front[i] ELSE back[i - Len(front)]
  BY <1>2, <1>3, ConcatProperties
<1> HIDE DEF front, back
<1>5. ASSUME NEW i \in 1..(Len(s) - 1)
      PROVE  (front \o back)[i] = IF i < k THEN s[i] ELSE s[i + 1]
  <2>1. CASE i < k
    BY <1>1, <1>2, <1>3, <1>4, <2>1
  <2>2. CASE i >= k
    <3>1. i - (k - 1) \in 1..(Len(s) - k) /\ k + (i - (k - 1)) = i + 1
      BY <1>1, <2>2
    <3>2. (front \o back)[i] = back[i - (k - 1)]
      BY <1>1, <1>2, <1>3, <1>4, <2>2
    <3>3. back[i - (k - 1)] = s[i + 1]
      BY <1>3, <3>1
    <3>4. ~(i < k)
      BY <1>1, <2>2
    <3> QED
      BY <3>2, <3>3, <3>4
  <2>3. i < k \/ i >= k
    BY <1>1
  <2> QED
    BY <2>1, <2>2, <2>3
<1>6. Len(front \o back) = Len(s) - 1
  BY <1>1, <1>2, <1>3, <1>4
<1>7. RemoveAt(s, k) = front \o back
  BY DEF RemoveAt, front, back
<1> QED
  BY <1>4, <1>5, <1>6, <1>7

----------------------------------------------------------------------------
LEMMA InitInv == Init => IInv
<1> SUFFICES ASSUME Init PROVE IInv
  OBVIOUS
<1>1. TypeOK
  BY DEF Init, TypeOK, Phases
<1>2. Holders = {}
  BY DEF Init, Holders
<1>3. PermitsConserved
  BY <1>2, FS_EmptySet DEF Init, PermitsConserved
<1>4. WaitersQueued
  BY DEF Init, WaitersQueued
<1> QED
  BY <1>1, <1>3, <1>4 DEF Init, IInv, BalancerLeavesOne, TakingIsSafe

\* Each action keeps the types, the permits and the queue; only the balancer's own steps
\* touch what the bound on its permits speaks of.
LEMMA StepInv == IInv /\ [Next]_vars => IInv'
<1> SUFFICES ASSUME IInv, [Next]_vars PROVE IInv'
  OBVIOUS
<1>0. /\ TypeOK /\ PermitsConserved /\ WaitersQueued /\ BalancerLeavesOne /\ TakingIsSafe
      /\ Holders = HoldersOf(phase) /\ Holders' = HoldersOf(phase')
      /\ IsFiniteSet(HoldersOf(phase)) /\ Cardinality(HoldersOf(phase)) \in Nat
  BY HoldersFinite DEF IInv, Holders, HoldersOf
<1>1. ASSUME NEW r \in Requests, Acquire(r)
      PROVE  IInv'
  <2>1. TypeOK'
    <3>1. Append(queue, r) \in Seq(Requests)
      BY <1>0, AppendProperties DEF TypeOK
    <3>2. CASE avail > 0
      BY <1>0, <1>1, <3>2 DEF Acquire, TypeOK, Phases
    <3>3. CASE ~(avail > 0)
      BY <1>0, <1>1, <3>1, <3>3 DEF Acquire, TypeOK, Phases
    <3> QED
      BY <3>2, <3>3
  <2>2. PermitsConserved'
    <3>1. CASE avail > 0
      <4>1. phase' = [phase EXCEPT ![r] = "granted"] /\ avail' = avail - 1
        BY <1>1, <3>1 DEF Acquire
      <4>2. Cardinality(HoldersOf(phase')) = Cardinality(HoldersOf(phase)) + 1
        BY <1>0, <1>1, <4>1, OneHolderMore DEF Acquire, TypeOK
      <4> QED
        BY <1>0, <1>1, <4>1, <4>2 DEF PermitsConserved, Acquire, TypeOK
    <3>2. CASE ~(avail > 0)
      <4>1. HoldersOf(phase') = HoldersOf(phase)
        BY <1>0, <1>1, <3>2 DEF Acquire, HoldersOf, TypeOK
      <4> QED
        BY <1>0, <1>1, <3>2, <4>1 DEF PermitsConserved, Acquire
    <3> QED
      BY <3>1, <3>2
  <2>3. WaitersQueued'
    <3>1. CASE avail > 0
      BY <1>0, <1>1, <3>1 DEF Acquire, WaitersQueued, TypeOK
    <3>2. CASE ~(avail > 0)
      <4>1. /\ queue' = Append(queue, r) /\ avail' = 0
            /\ phase' = [phase EXCEPT ![r] = "waiting"] /\ phase[r] = "idle"
        BY <1>0, <1>1, <3>2 DEF Acquire, TypeOK
      <4>0. \A i \in 1..Len(queue) : queue[i] # r
        BY <1>0, <4>1 DEF WaitersQueued
      <4>2. /\ Len(queue') = Len(queue) + 1 /\ Len(queue) \in Nat
            /\ queue'[Len(queue) + 1] = r
            /\ \A i \in 1..Len(queue) : queue'[i] = queue[i]
        BY <1>0, <4>1, AppendProperties DEF TypeOK
      <4>3. ASSUME NEW q \in Requests
            PROVE  phase'[q] = "waiting" <=> \E i \in 1..Len(queue') : queue'[i] = q
        BY <1>0, <4>0, <4>1, <4>2 DEF WaitersQueued, TypeOK
      <4>4. ASSUME NEW i \in 1..Len(queue'), NEW j \in 1..Len(queue'), queue'[i] = queue'[j]
            PROVE  i = j
        BY <1>0, <4>0, <4>1, <4>2, <4>4 DEF WaitersQueued
      <4> QED
        BY <4>1, <4>3, <4>4 DEF WaitersQueued
    <3> QED
      BY <3>1, <3>2
  <2> QED
    BY <1>0, <1>1, <2>1, <2>2, <2>3 DEF IInv, Acquire, BalancerLeavesOne, TakingIsSafe
<1>2. ASSUME NEW r \in Requests, Spawn(r)
      PROVE  IInv'
  <2>1. TypeOK'
    BY <1>0, <1>2 DEF Spawn, TypeOK, Phases
  <2>2. HoldersOf(phase') = HoldersOf(phase)
    BY <1>0, <1>2 DEF Spawn, HoldersOf, TypeOK
  <2>3. WaitersQueued'
    BY <1>0, <1>2 DEF Spawn, WaitersQueued, TypeOK
  <2> QED
    BY <1>0, <1>2, <2>1, <2>2, <2>3
    DEF IInv, Spawn, PermitsConserved, BalancerLeavesOne, TakingIsSafe
<1>3. ASSUME NEW r \in Requests, Finish(r)
      PROVE  IInv'
  <2>1. TypeOK'
    BY <1>0, <1>3 DEF Finish, TypeOK, Phases
  <2>2. HoldersOf(phase') = HoldersOf(phase)
    BY <1>0, <1>3 DEF Finish, HoldersOf, TypeOK
  <2>3. WaitersQueued'
    BY <1>0, <1>3 DEF Finish, WaitersQueued, TypeOK
  <2> QED
    BY <1>0, <1>3, <2>1, <2>2, <2>3
    DEF IInv, Finish, PermitsConserved, BalancerLeavesOne, TakingIsSafe
<1>4. ASSUME NEW r \in Requests, NEW p \in {"idle", "left"},
             phase[r] \in {"granted", "working"}, Release([phase EXCEPT ![r] = p]),
             UNCHANGED <<jobs, running, balancer, retained>>
      PROVE  IInv'
  <2> DEFINE ph == [phase EXCEPT ![r] = p]
  <2>1. ph \in [Requests -> Phases]
    BY <1>0 DEF TypeOK, Phases
  <2>2. \A q \in Requests : ph[q] = "waiting" <=> phase[q] = "waiting"
    BY <1>0, <1>4 DEF TypeOK
  <2>3. Cardinality(HoldersOf(ph)) = Cardinality(HoldersOf(phase)) - 1
    BY <1>0, <1>4, OneHolderLess DEF TypeOK
  <2>4. /\ phase' \in [Requests -> Phases] /\ avail' \in Nat /\ queue' \in Seq(Requests)
        /\ WaitersQueued'
        /\ avail' + Cardinality(HoldersOf(phase')) = avail + Cardinality(HoldersOf(ph)) + 1
    BY <1>0, <1>4, <2>1, <2>2, ReleaseGivesOne
  <2>5. TypeOK'
    BY <1>0, <1>4, <2>4 DEF TypeOK
  <2>6. PermitsConserved'
    BY <1>0, <1>4, <2>3, <2>4, HoldersFinite DEF PermitsConserved, TypeOK
  <2> QED
    BY <1>0, <1>4, <2>4, <2>5, <2>6 DEF IInv, BalancerLeavesOne, TakingIsSafe
<1>5. ASSUME NEW r \in Requests, Return(r)
      PROVE  IInv'
  BY <1>4, <1>5 DEF Return
<1>6. ASSUME NEW r \in Requests, Cancel(r)
      PROVE  IInv'
  <2>1. CASE phase[r] \in {"granted", "working"}
    BY <1>4, <1>6, <2>1 DEF Cancel
  <2>2. CASE phase[r] = "waiting"
    <3>1. PICK k \in 1..Len(queue) : queue[k] = r /\ queue' = RemoveAt(queue, k)
      BY <1>6, <2>2 DEF Cancel
    <3>2. /\ phase' = [phase EXCEPT ![r] = "idle"]
          /\ UNCHANGED <<avail, jobs, running, balancer, retained>>
      BY <1>6, <2>2 DEF Cancel
    <3>3. /\ queue \in Seq(Requests) /\ Len(queue) \in Nat
          /\ queue' \in Seq(Requests)
          /\ Len(queue') = Len(queue) - 1
          /\ \A i \in 1..Len(queue') : queue'[i] = IF i < k THEN queue[i] ELSE queue[i + 1]
      <4>1. queue \in Seq(Requests) /\ Len(queue) \in Nat /\ k \in 1..Len(queue)
        BY <1>0, <3>1 DEF TypeOK
      <4> QED
        BY <3>1, <4>1, RemoveAtProperties
    <3>4. TypeOK'
      BY <1>0, <3>2, <3>3 DEF TypeOK, Phases
    <3>5. HoldersOf(phase') = HoldersOf(phase)
      BY <1>0, <2>2, <3>2 DEF HoldersOf, TypeOK
    <3>6. ASSUME NEW q \in Requests
          PROVE  phase'[q] = "waiting" <=> \E i \in 1..Len(queue') : queue'[i] = q
      <4>1. CASE q = r
        BY <1>0, <3>1, <3>2, <3>3, <4>1 DEF WaitersQueued, TypeOK
      <4>2. CASE q # r
        <5>1. phase'[q] = "waiting" <=> \E i \in 1..Len(queue) : queue[i] = q
          BY <1>0, <3>2, <4>2 DEF WaitersQueued, TypeOK
        <5>2. ASSUME NEW i \in 1..Len(queue), queue[i] = q
              PROVE  \E j \in 1..Len(queue') : queue'[j] = q
          <6>1. i # k
            BY <3>1, <4>2, <5>2
          <6>2. CASE i < k
            BY <3>3, <5>2, <6>2
          <6>3. CASE i > k
            <7>1. i - 1 \in 1..Len(queue') /\ ~(i - 1 < k) /\ (i - 1) + 1 = i
              BY <3>3, <6>3
            <7>2. queue'[i - 1] = queue[i]
              BY <3>3, <7>1
            <7> QED
              BY <5>2, <7>1, <7>2
          <6> QED
            BY <3>3, <6>1, <6>2, <6>3
        <5>3. ASSUME NEW i \in 1..Len(queue'), queue'[i] = q
              PROVE  \E j \in 1..Len(queue) : queue[j] = q
          BY <3>3, <5>3
        <5> QED
          BY <5>1, <5>2, <5>3
      <4> QED
        BY <4>1, <4>2
    <3>7. ASSUME NEW i \in 1..Len(queue'), NEW j \in 1..Len(queue'), queue'[i] = queue'[j]
          PROVE  i = j
      BY <1>0, <3>1, <3>3, <3>7 DEF WaitersQueued
    <3>8. avail' = 0
      BY <1>0, <3>1, <3>2, <3>3 DEF WaitersQueued
    <3>9. WaitersQueued'
      BY <3>6, <3>7, <3>8 DEF WaitersQueued
    <3> QED
      BY <1>0, <3>2, <3>4, <3>5, <3>9
      DEF IInv, PermitsConserved, BalancerLeavesOne, TakingIsSafe
  <2> QED
    BY <1>6, <2>1, <2>2 DEF Cancel
<1>7. CASE Start
  BY <1>0, <1>7, HeadTailProperties
  DEF Start, IInv, TypeOK, PermitsConserved, WaitersQueued, BalancerLeavesOne, TakingIsSafe
<1>8. CASE BalancerSees
  BY <1>0, <1>8
  DEF BalancerSees, IInv, TypeOK, PermitsConserved, WaitersQueued, BalancerLeavesOne,
      TakingIsSafe
<1>9. CASE BalancerTakes
  BY <1>0, <1>9
  DEF BalancerTakes, IInv, TypeOK, PermitsConserved, WaitersQueued, BalancerLeavesOne,
      TakingIsSafe
<1>10. CASE BalancerReturns
  <2>1. /\ phase' \in [Requests -> Phases] /\ avail' \in Nat /\ queue' \in Seq(Requests)
        /\ WaitersQueued'
        /\ avail' + Cardinality(HoldersOf(phase')) = avail + Cardinality(HoldersOf(phase)) + 1
    BY <1>0, <1>10, ReleaseGivesOne DEF BalancerReturns, TypeOK
  <2>2. retained' = retained - 1 /\ UNCHANGED <<jobs, running, balancer>>
        /\ balancer = "asleep" /\ retained > 0
    BY <1>10 DEF BalancerReturns
  <2>3. TypeOK'
    BY <1>0, <2>1, <2>2 DEF TypeOK
  <2>4. PermitsConserved'
    BY <1>0, <2>1, <2>2, HoldersFinite DEF PermitsConserved, TypeOK
  <2> QED
    BY <1>0, <2>1, <2>2, <2>3, <2>4 DEF IInv, BalancerLeavesOne, TakingIsSafe, TypeOK
<1>11. CASE UNCHANGED vars
  BY <1>0, <1>11
  DEF vars, IInv, TypeOK, PermitsConserved, WaitersQueued, BalancerLeavesOne, TakingIsSafe,
      HoldersOf
<1> QED
  BY <1>1, <1>2, <1>3, <1>5, <1>6, <1>7, <1>8, <1>9, <1>10, <1>11 DEF Next

LEMMA Inductive == Spec => []IInv
  BY InitInv, StepInv, PTL DEF Spec

----------------------------------------------------------------------------
\* The variables keep their types.
THEOREM TypeCorrect == Spec => []TypeOK
<1>1. IInv => TypeOK
  BY DEF IInv
<1> QED
  BY <1>1, Inductive, PTL

\* Permits are neither lost nor invented, for any number of them.
THEOREM PermitsAreConserved == Spec => []PermitsConserved
<1>1. IInv => PermitsConserved
  BY DEF IInv
<1> QED
  BY <1>1, Inductive, PTL

\* Whoever waits is queued once, and no permit is free while somebody waits.
THEOREM WaitersAreQueued == Spec => []WaitersQueued
<1>1. IInv => WaitersQueued
  BY DEF IInv
<1> QED
  BY <1>1, Inductive, PTL

\* The load balancer never withdraws the last permit (main.rs:193-195).
THEOREM BalancerAlwaysLeavesOne == Spec => []BalancerLeavesOne
<1>1. IInv => BalancerLeavesOne
  BY DEF IInv
<1> QED
  BY <1>1, Inductive, PTL

============================================================================
