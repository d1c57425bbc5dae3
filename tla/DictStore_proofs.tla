-------------------------- MODULE DictStore_proofs --------------------------
(***************************************************************************)
(* Theorems about DictStore, for any nodes, workers, dictionaries, limits  *)
(* of the sample buffer and numbers of kills and faults.                   *)
(*                                                                         *)
(* That a sealed dictionary resolves is not inductive: a dictionary is on   *)
(* the disk of its node before it is published, so before it is active, so  *)
(* before a compress takes it, so before an essence is sealed with it       *)
(* (Kept); and a file that only one worker has had open is whole once it is  *)
(* written, so the rename publishes no other (FilesOK).                     *)
(***************************************************************************)
EXTENDS DictStore, TLAPS

Working == {"exists", "create", "write", "rename", "publish", "activate", "redisPut",
            "readFile", "redisGet"}

\* A worker that trains, writes or resolves does so for a dictionary.
WorkOK == \A w \in Workers : pc[w] \in Working => work[w] \in Dicts

TypeInv == TypeOK /\ WorkOK

\* The dictionary is on the disk of the node, or two workers have written it at once.
Saved(n, d) == d \in raced[n] \/ final[n][d] = "whole"

FilesOK ==
    /\ \A n \in Nodes, d \in Dicts : final[n][d] = "torn" => d \in raced[n]
    /\ \A w \in Workers :
        /\ fd[w] # "none" <=> pc[w] \in {"write", "rename"}
        /\ w \in cut => pc[w] = "write"
        /\ fd[w] \in {"final", "replaced"} \/ w \in cut => work[w] \in raced[NodeOf[w]]
        /\ pc[w] = "rename" /\ fd[w] = "tmp" =>
            work[w] \in raced[NodeOf[w]] \/ tmp[NodeOf[w]][work[w]] = "whole"
        /\ \A v \in Workers \ {w} :
            fd[v] = "tmp" /\ fd[w] = "tmp" /\ NodeOf[v] = NodeOf[w] /\ work[v] = work[w]
                => work[w] \in raced[NodeOf[w]]

Kept ==
    /\ \A n \in Nodes : \A d \in sealed[n] : Saved(n, d)
    /\ \A n \in Nodes : active[n] \in Dicts => Saved(n, active[n])
    /\ \A w \in Workers : used[w] \in Dicts => Saved(NodeOf[w], used[w])
    /\ \A w \in Workers : pc[w] \in {"publish", "activate"} => Saved(NodeOf[w], work[w])

IInv == TypeInv /\ FilesOK /\ Kept

USE NodesAssumption, NamesAssumption, SizesAssumption, NumbersAssumption

Holds == {"whole", "torn", Absent}

----------------------------------------------------------------------------
\* The table of the files of a kind stays one when what a file holds changes.
LEMMA TableUpdate ==
    ASSUME NEW f \in [Nodes -> [Dicts -> Holds]], NEW n \in Nodes, NEW d \in Dicts,
           NEW x \in Holds
    PROVE  [f EXCEPT ![n][d] = x] \in [Nodes -> [Dicts -> Holds]]
OBVIOUS

\* A worker that leaves keeps the types.
LEMMA LeaveTypes ==
    ASSUME TypeInv, NEW w \in Workers, Leave(w)
    PROVE  /\ pc' \in [Workers -> Labels]
           /\ used' \in [Workers -> Dicts \cup {NoDict}]
           /\ work' \in [Workers -> Dicts \cup {NoDict}]
           /\ fetching' \in [Workers -> BOOLEAN]
           /\ fd' \in [Workers -> {"none", "tmp", "final", "replaced"}]
           /\ cut' \subseteq Workers
           /\ WorkOK'
BY DEF TypeInv, TypeOK, WorkOK, Working, Leave, Close, Goto, Labels

\* So does one that is done with write_file.
LEMMA ProceedTypes ==
    ASSUME TypeInv, NEW w \in Workers, pc[w] \in Working, NEW label \in {"publish", "seal"},
           Proceed(w, label)
    PROVE  /\ pc' \in [Workers -> Labels]
           /\ used' \in [Workers -> Dicts \cup {NoDict}]
           /\ work' \in [Workers -> Dicts \cup {NoDict}]
           /\ fetching' \in [Workers -> BOOLEAN]
           /\ WorkOK'
BY DEF TypeInv, TypeOK, WorkOK, Working, Proceed, Goto, Labels

\* The steps of a compress keep the types.
LEMMA CompressTypes ==
    ASSUME TypeInv, NEW w \in Workers, Compress(w)
    PROVE  TypeInv'
<1> DEFINE n == NodeOf[w]
<1>0. n \in Nodes
  OBVIOUS
<1>1. CASE ActiveFor(w)
  BY <1>1, <1>0 DEF ActiveFor, Goto, TypeInv, TypeOK, WorkOK, Working, Labels, maps, disk, counts
<1>2. CASE Observe(w)
  BY <1>2 DEF Observe, Goto, TypeInv, TypeOK, WorkOK, Working, Labels, own, maps, disk, counts
<1>3. CASE Sample(w)
  <2>1. PICK size \in Sizes : samples' = [samples EXCEPT ![n] = Add(@, size)]
    BY <1>3 DEF Sample
  <2>2. samples[n] \in [items : Nat, bytes : 0..SampleBudget]
    BY <1>0 DEF TypeInv, TypeOK
  <2>3. Add(samples[n], size) \in [items : Nat, bytes : 0..SampleBudget]
    BY <2>2 DEF Add
  <2>4. samples' \in [Nodes -> [items : Nat, bytes : 0..SampleBudget]]
    BY <2>1, <2>3 DEF TypeInv, TypeOK
  <2> QED
    BY <1>3, <2>4 DEF Sample, Goto, TypeInv, TypeOK, WorkOK, Working, Labels, own, disk, counts
<1>4. CASE Train(w)
  <2>0. Empty \in [items : Nat, bytes : 0..SampleBudget]
    BY DEF Empty
  <2>1. samples' = samples \/ samples' = [samples EXCEPT ![n] = Empty]
    BY <1>4 DEF Train
  <2>2. samples' \in [Nodes -> [items : Nat, bytes : 0..SampleBudget]]
    BY <2>0, <2>1, <1>0 DEF TypeInv, TypeOK
  <2>3. CASE Goto(w, "seal") /\ UNCHANGED work
    BY <1>4, <2>2, <2>3 DEF Train, Goto, TypeInv, TypeOK, WorkOK, Working, Labels, disk, counts
  <2>4. CASE Goto(w, "exists") /\ \E d \in Dicts : work' = [work EXCEPT ![w] = d]
    <3>1. PICK d \in Dicts : work' = [work EXCEPT ![w] = d]
      BY <2>4
    <3>2. work' \in [Workers -> Dicts \cup {NoDict}] /\ pc' \in [Workers -> Labels] /\ WorkOK'
      BY <2>4, <3>1 DEF TypeInv, TypeOK, WorkOK, Working, Goto, Labels
    <3> QED
      BY <1>4, <2>2, <3>2 DEF Train, TypeInv, TypeOK, disk, counts
  <2> QED
    BY <1>4, <2>3, <2>4 DEF Train
<1>5. CASE Publish(w)
  BY <1>5 DEF Publish, Goto, TypeInv, TypeOK, WorkOK, Working, Labels, own, disk, counts
<1>6. CASE Activate(w)
  BY <1>6 DEF Activate, Goto, TypeInv, TypeOK, WorkOK, Working, Labels, own, disk, counts
<1>7. CASE RedisPut(w)
  <2>1. redis' \subseteq Dicts /\ faults' \in 0..MaxFaults
    BY <1>7 DEF RedisPut, Fail, TypeInv, TypeOK, WorkOK, Working
  <2> QED
    BY <1>7, <2>1 DEF RedisPut, Goto, TypeInv, TypeOK, WorkOK, Working, Labels, own, maps, disk
<1>8. CASE Seal(w)
  <2>0. ASSUME sealed' = [sealed EXCEPT ![n] = @ \cup {used[w]}], used[w] # NoDict
        PROVE  sealed' \in [Nodes -> SUBSET Dicts]
    <3>1. used[w] \in Dicts /\ sealed[n] \subseteq Dicts
      BY <2>0, <1>0 DEF TypeInv, TypeOK
    <3>2. sealed[n] \cup {used[w]} \in SUBSET Dicts
      BY <3>1
    <3>3. sealed \in [Nodes -> SUBSET Dicts]
      BY DEF TypeInv, TypeOK
    <3> HIDE DEF n
    <3> QED
      BY <2>0, <3>2, <3>3
  <2>1. sealed' \in [Nodes -> SUBSET Dicts]
    BY <1>8, <2>0 DEF Seal, TypeInv, TypeOK
  <2> QED
    BY <1>8, <2>1, LeaveTypes DEF Seal, TypeInv, TypeOK, maps, disk, counts
<1> QED
  BY <1>1, <1>2, <1>3, <1>4, <1>5, <1>6, <1>7, <1>8 DEF Compress

\* The steps of write_file keep them.
LEMMA WriteFileTypes ==
    ASSUME TypeInv, NEW w \in Workers, WriteFile(w)
    PROVE  TypeInv'
<1> DEFINE n == NodeOf[w]
<1> DEFINE d == work[w]
<1>0. n \in Nodes /\ d \in Dicts
  BY DEF TypeInv, WorkOK, Working, WriteFile, Exists, Create, Write, Rename, RenameFails, DiskFault
<1>1. CASE Exists(w)
  <2>1. CASE Proceed(w, "publish") /\ Close(w)
    BY <1>1, <2>1, ProceedTypes DEF Exists, Close, TypeInv, TypeOK, Working, maps, disk, counts
  <2>2. CASE Goto(w, "create") /\ UNCHANGED own
    BY <1>1, <2>2 DEF Exists, Goto, TypeInv, TypeOK, WorkOK, Working, Labels, own, maps, disk, counts
  <2> QED
    BY <1>1, <2>1, <2>2 DEF Exists
<1>2. CASE Create(w)
  <2>1. raced' \in [Nodes -> SUBSET Dicts] /\ cut' \subseteq Workers
    BY <1>2, <1>0 DEF Create, Writers, TypeInv, TypeOK
  <2>2. /\ tmp' \in [Nodes -> [Dicts -> {"whole", "torn", Absent}]]
        /\ fd' \in [Workers -> {"none", "tmp", "final", "replaced"}]
    BY <1>2, <1>0 DEF Create, TypeInv, TypeOK
  <2> QED
    BY <1>2, <2>1, <2>2 DEF Create, Goto, TypeInv, TypeOK, WorkOK, Working, Labels, maps, counts
<1>3. CASE Write(w)
  <2>1. /\ tmp' \in [Nodes -> [Dicts -> {"whole", "torn", Absent}]]
        /\ final' \in [Nodes -> [Dicts -> {"whole", "torn", Absent}]]
    <3>1. tmp' = tmp \/ tmp' = [tmp EXCEPT ![n][d] = "whole"]
      BY <1>3 DEF Write
    <3>2. final' = final \/ final' = [final EXCEPT ![n][d] = "whole"]
      BY <1>3 DEF Write
    <3>3. /\ tmp \in [Nodes -> [Dicts -> Holds]] /\ final \in [Nodes -> [Dicts -> Holds]]
          /\ "whole" \in Holds
      BY DEF Holds, TypeInv, TypeOK
    <3>4. tmp' \in [Nodes -> [Dicts -> Holds]] /\ final' \in [Nodes -> [Dicts -> Holds]]
      <4> HIDE DEF n, d
      <4>1. [tmp EXCEPT ![n][d] = "whole"] \in [Nodes -> [Dicts -> Holds]]
        BY <3>3, <1>0, TableUpdate
      <4>2. [final EXCEPT ![n][d] = "whole"] \in [Nodes -> [Dicts -> Holds]]
        BY <3>3, <1>0, TableUpdate
      <4> QED
        BY <3>1, <3>2, <3>3, <4>1, <4>2
    <3> QED
      BY <3>4 DEF Holds
  <2> QED
    BY <1>3, <2>1 DEF Write, Goto, TypeInv, TypeOK, WorkOK, Working, Labels, maps, counts
<1>4. CASE Rename(w)
  <2>1. /\ tmp' \in [Nodes -> [Dicts -> {"whole", "torn", Absent}]]
        /\ final' \in [Nodes -> [Dicts -> {"whole", "torn", Absent}]]
    BY <1>4, <1>0 DEF Rename, TypeInv, TypeOK
  <2>2. Moved(n, d) \in [Workers -> {"none", "tmp", "final", "replaced"}]
    BY DEF Moved, TypeInv, TypeOK
  <2>3. fd' \in [Workers -> {"none", "tmp", "final", "replaced"}]
    BY <1>4, <2>2 DEF Rename
  <2>4. Proceed(w, "publish") /\ pc[w] \in Working
    BY <1>4 DEF Rename, Working
  <2> QED
    BY <1>4, <2>1, <2>3, <2>4, ProceedTypes DEF Rename, TypeInv, TypeOK, maps, counts
<1>5. CASE RenameFails(w)
  BY <1>5, ProceedTypes DEF RenameFails, Close, TypeInv, TypeOK, Working, maps, disk, counts
<1>6. CASE DiskFault(w)
  <2>1. faults' \in 0..MaxFaults
    BY <1>6 DEF DiskFault, Fail, TypeInv, TypeOK
  <2> QED
    BY <1>6, <2>1, ProceedTypes DEF DiskFault, Close, TypeInv, TypeOK, Working, maps, disk
<1> QED
  BY <1>1, <1>2, <1>3, <1>4, <1>5, <1>6 DEF WriteFile

\* The steps of a restore keep them.
LEMMA RestoreTypes ==
    ASSUME TypeInv, NEW w \in Workers, Restore(w)
    PROVE  TypeInv'
<1> DEFINE n == NodeOf[w]
<1> DEFINE d == work[w]
<1>1. CASE Resolve(w)
  <2>1. PICK m \in Nodes : \E e \in sealed[m] : work' = [work EXCEPT ![w] = e]
    BY <1>1 DEF Resolve
  <2>2. PICK e \in Dicts : work' = [work EXCEPT ![w] = e]
    BY <2>1 DEF TypeInv, TypeOK
  <2> QED
    BY <1>1, <2>2 DEF Resolve, Goto, TypeInv, TypeOK, WorkOK, Working, Labels, maps, disk, counts
<1>2. ASSUME d \in Dicts, Accept(n, d, "whole") \/ UNCHANGED by_id
      PROVE  by_id' \in [Nodes -> [Dicts -> Holds]]
  <2>1. by_id \in [Nodes -> [Dicts -> Holds]] /\ "whole" \in Holds /\ n \in Nodes
    BY DEF Holds, TypeInv, TypeOK
  <2>2. by_id' = by_id \/ by_id' = [by_id EXCEPT ![n][d] = "whole"]
    BY <1>2 DEF Accept
  <2> HIDE DEF n, d
  <2>3. [by_id EXCEPT ![n][d] = "whole"] \in [Nodes -> [Dicts -> Holds]]
    BY <2>1, <1>2, TableUpdate
  <2> QED
    BY <2>1, <2>2, <2>3
<1>3. CASE ReadFile(w)
  <2>1. by_id' \in [Nodes -> [Dicts -> {"whole", "torn", Absent}]]
    <3>1. d \in Dicts
      BY <1>3 DEF ReadFile, TypeInv, WorkOK, Working
    <3>2. Accept(n, d, "whole") \/ UNCHANGED by_id
      BY <1>3 DEF ReadFile, Accept
    <3> QED
      BY <1>2, <3>1, <3>2 DEF Holds
  <2>2. CASE Leave(w)
    BY <1>3, <2>1, <2>2, LeaveTypes DEF ReadFile, TypeInv, TypeOK, disk, counts
  <2>3. CASE Goto(w, "redisGet") /\ UNCHANGED own
    BY <1>3, <2>1, <2>3 DEF ReadFile, Goto, TypeInv, TypeOK, WorkOK, Working, Labels, own, disk, counts
  <2> QED
    BY <1>3, <2>2, <2>3 DEF ReadFile
<1>4. CASE RedisGet(w)
  <2>1. by_id' \in [Nodes -> [Dicts -> {"whole", "torn", Absent}]] /\ faults' \in 0..MaxFaults
    <3>1. d \in Dicts
      BY <1>4 DEF RedisGet, TypeInv, WorkOK, Working
    <3>2. Accept(n, d, "whole") \/ UNCHANGED by_id
      BY <1>4 DEF RedisGet
    <3>3. faults' \in 0..MaxFaults
      BY <1>4 DEF RedisGet, Fail, TypeInv, TypeOK
    <3> QED
      BY <1>2, <3>1, <3>2, <3>3 DEF Holds
  <2>2. CASE Leave(w)
    BY <1>4, <2>1, <2>2, LeaveTypes DEF RedisGet, TypeInv, TypeOK, disk
  <2>3. CASE Goto(w, "exists") /\ UNCHANGED own
    BY <1>4, <2>1, <2>3 DEF RedisGet, Goto, TypeInv, TypeOK, WorkOK, Working, Labels, own, disk
  <2> QED
    BY <1>4, <2>2, <2>3 DEF RedisGet
<1> QED
  BY <1>1, <1>3, <1>4 DEF Restore

\* So does a restart.
LEMMA RestartTypes ==
    ASSUME TypeInv, NEW n \in Nodes, Restart(n)
    PROVE  TypeInv'
<1>1. /\ pc' \in [Workers -> Labels]
      /\ used' \in [Workers -> Dicts \cup {NoDict}]
      /\ work' \in [Workers -> Dicts \cup {NoDict}]
      /\ fetching' \in [Workers -> BOOLEAN]
      /\ fd' \in [Workers -> {"none", "tmp", "final", "replaced"}]
      /\ cut' \subseteq Workers
      /\ WorkOK'
  BY DEF Restart, TypeInv, TypeOK, WorkOK, Working, Labels
<1>2. /\ samples' \in [Nodes -> [items : Nat, bytes : 0..SampleBudget]]
      /\ crashes' \in 0..MaxCrashes
  BY DEF Restart, Empty, TypeInv, TypeOK
<1>3. active' \in [Nodes -> Dicts \cup {NoDict}]
  <2>1. \E d \in Dicts \cup {NoDict} : active' = [active EXCEPT ![n] = d]
    BY DEF Restart
  <2> QED
    BY <2>1 DEF TypeInv, TypeOK
<1>4. by_id' \in [Nodes -> [Dicts -> {"whole", "torn", Absent}]]
  <2> DEFINE loaded == [d \in Dicts |-> IF d \in {e \in Dicts : Intact(n, e)} THEN "whole" ELSE Absent]
  <2>1. loaded \in [Dicts -> {"whole", "torn", Absent}]
    OBVIOUS
  <2>2. by_id' = [by_id EXCEPT ![n] = loaded]
    BY DEF Restart
  <2> QED
    BY <2>1, <2>2 DEF TypeInv, TypeOK
<1> QED
  BY <1>1, <1>2, <1>3, <1>4 DEF Restart, TypeInv, TypeOK, disk

\* Init has the types and every step keeps them.
LEMMA Types == (Init => TypeInv) /\ (TypeInv /\ [Next]_vars => TypeInv')
<1>1. Init => TypeInv
  BY DEF Init, TypeInv, TypeOK, WorkOK, Working, Labels, Empty
<1>2. ASSUME TypeInv, UNCHANGED vars
      PROVE  TypeInv'
  BY <1>2 DEF TypeInv, TypeOK, WorkOK, Working, Labels, vars, own, maps, disk, counts
<1> QED
  BY <1>1, <1>2, CompressTypes, WriteFileTypes, RestoreTypes, RestartTypes DEF Next

\* The variables keep their types (dict_store.rs:40-54), and the sample buffer its budget
\* (dict_store.rs:230), for any number of nodes, workers, kills and faults.
THEOREM TypeCorrect == Spec => []TypeOK
<1>1. TypeInv => TypeOK
  BY DEF TypeInv
<1> QED
  BY <1>1, Types, PTL DEF Spec

----------------------------------------------------------------------------
\* A worker that has no file open after a step, which leaves the disk and the others alone,
\* keeps FilesOK.
LEMMA AwayFromFiles ==
    ASSUME TypeInv, FilesOK, NEW w \in Workers, UNCHANGED disk,
           \A v \in Workers \ {w} : fd'[v] = fd[v] /\ pc'[v] = pc[v] /\ work'[v] = work[v],
           cut' = cut \ {w}, fd'[w] = "none", pc'[w] \notin {"write", "rename"}
    PROVE  FilesOK'
BY DEF FilesOK, disk

\* Opening the temporary file: who finds it open by another is one of two.
LEMMA CreateFiles ==
    ASSUME TypeInv, FilesOK, NEW w \in Workers, Create(w)
    PROVE  FilesOK' /\ \A n \in Nodes, d \in Dicts : Saved(n, d) => Saved(n, d)'
<1> DEFINE n == NodeOf[w]
<1> DEFINE d == work[w]
<1>1. /\ n \in Nodes /\ d \in Dicts
      /\ tmp' = [tmp EXCEPT ![n][d] = "torn"] /\ final' = final
      /\ fd' = [fd EXCEPT ![w] = "tmp"] /\ pc' = [pc EXCEPT ![w] = "write"] /\ work' = work
      /\ cut' = cut \cup {v \in Writers(n, d, "tmp") : pc[v] = "write"}
      /\ raced' = IF Writers(n, d, "tmp") = {} THEN raced ELSE [raced EXCEPT ![n] = @ \cup {d}]
      /\ fd[w] = "none" /\ w \notin cut
  BY DEF Create, Goto, TypeInv, TypeOK, WorkOK, Working, FilesOK
<1>2. \A m \in Nodes : raced[m] \subseteq raced'[m]
  BY <1>1 DEF TypeInv, TypeOK
<1>3. \A v \in Writers(n, d, "tmp") : work[v] \in raced'[NodeOf[v]]
  BY <1>1 DEF Writers, TypeInv, TypeOK
<1>4. \A m \in Nodes, e \in Dicts : Saved(m, e) => Saved(m, e)'
  BY <1>1, <1>2 DEF Saved
<1>5. \A m \in Nodes, e \in Dicts : final'[m][e] = "torn" => e \in raced'[m]
  BY <1>1, <1>2 DEF FilesOK
<1>6. \A v \in Workers :
        /\ fd'[v] # "none" <=> pc'[v] \in {"write", "rename"}
        /\ v \in cut' => pc'[v] = "write"
        /\ fd'[v] \in {"final", "replaced"} \/ v \in cut' => work'[v] \in raced'[NodeOf[v]]
  BY <1>1, <1>2, <1>3 DEF FilesOK, Writers, TypeInv, TypeOK
<1>7. ASSUME NEW v \in Workers, pc'[v] = "rename", fd'[v] = "tmp"
      PROVE  work'[v] \in raced'[NodeOf[v]] \/ tmp'[NodeOf[v]][work'[v]] = "whole"
  <2>1. v # w /\ pc[v] = "rename" /\ fd[v] = "tmp"
    BY <1>1, <1>7 DEF TypeInv, TypeOK
  <2>2. work[v] \in raced[NodeOf[v]] \/ tmp[NodeOf[v]][work[v]] = "whole"
    BY <2>1 DEF FilesOK
  <2>3. CASE NodeOf[v] = n /\ work[v] = d
    BY <1>1, <1>3, <2>1, <2>3 DEF Writers
  <2>4. CASE ~(NodeOf[v] = n /\ work[v] = d)
    <3>1. work[v] \in Dicts
      BY <2>1 DEF TypeInv, WorkOK, Working
    <3>2. tmp'[NodeOf[v]][work[v]] = tmp[NodeOf[v]][work[v]]
      BY <1>1, <2>4, <3>1 DEF TypeInv, TypeOK
    <3> QED
      BY <1>1, <1>2, <2>2, <3>2
  <2> QED
    BY <2>3, <2>4
<1>8. ASSUME NEW u \in Workers, NEW v \in Workers \ {u}, fd'[v] = "tmp", fd'[u] = "tmp",
             NodeOf[v] = NodeOf[u], work'[v] = work'[u]
      PROVE  work'[u] \in raced'[NodeOf[u]]
  <2>1. CASE u # w /\ v # w
    BY <1>1, <1>2, <1>8, <2>1 DEF FilesOK, TypeInv, TypeOK
  <2>2. CASE u = w
    <3>1. v \in Writers(n, d, "tmp")
      BY <1>1, <1>8, <2>2 DEF Writers, TypeInv, TypeOK
    <3> QED
      BY <1>1, <1>3, <1>8, <3>1
  <2>3. CASE v = w
    <3>1. u \in Writers(n, d, "tmp")
      BY <1>1, <1>8, <2>3 DEF Writers, TypeInv, TypeOK
    <3> QED
      BY <1>1, <1>3, <1>8, <3>1
  <2> QED
    BY <2>1, <2>2, <2>3
<1>9. FilesOK'
  <2> HIDE DEF n, d
  <2> QED
    BY <1>5, <1>6, <1>7, <1>8 DEF FilesOK
<1> QED
  BY <1>4, <1>9

\* Writing: only who has truncated after all others, or raced with one, may stop short.
LEMMA WriteFiles ==
    ASSUME TypeInv, FilesOK, NEW w \in Workers, Write(w)
    PROVE  FilesOK' /\ \A n \in Nodes, d \in Dicts : Saved(n, d) => Saved(n, d)'
<1> DEFINE n == NodeOf[w]
<1> DEFINE d == work[w]
<1>1. /\ n \in Nodes /\ d \in Dicts
      /\ fd' = fd /\ pc' = [pc EXCEPT ![w] = "rename"] /\ work' = work
      /\ cut' = cut \ {w} /\ raced' = raced /\ pc[w] = "write"
  BY DEF Write, Goto, TypeInv, TypeOK, WorkOK, Working
<1>2. final' = final \/ final' = [final EXCEPT ![n][d] = "whole"]
  BY DEF Write
<1>3. tmp' = tmp \/ tmp' = [tmp EXCEPT ![n][d] = "whole"]
  BY DEF Write
<1>4. \A m \in Nodes, e \in Dicts :
        /\ final'[m][e] = final[m][e] \/ final'[m][e] = "whole"
        /\ tmp'[m][e] = tmp[m][e] \/ tmp'[m][e] = "whole"
  <2>1. /\ final \in [Nodes -> [Dicts -> Holds]] /\ tmp \in [Nodes -> [Dicts -> Holds]]
        /\ n \in Nodes /\ d \in Dicts
    BY <1>1 DEF TypeInv, TypeOK, Holds
  <2> HIDE DEF n, d
  <2>2. \A m \in Nodes, e \in Dicts : final'[m][e] = final[m][e] \/ final'[m][e] = "whole"
    BY <1>2, <2>1
  <2>3. \A m \in Nodes, e \in Dicts : tmp'[m][e] = tmp[m][e] \/ tmp'[m][e] = "whole"
    BY <1>3, <2>1
  <2> QED
    BY <2>2, <2>3
<1>5. fd[w] = "tmp" => d \in raced[n] \/ tmp'[n][d] = "whole"
  BY <1>1 DEF Write, FilesOK, TypeInv, TypeOK
<1>6. \A m \in Nodes, e \in Dicts : Saved(m, e) => Saved(m, e)'
  BY <1>1, <1>4 DEF Saved
<1>7. \A m \in Nodes, e \in Dicts : final'[m][e] = "torn" => e \in raced'[m]
  BY <1>1, <1>4 DEF FilesOK
<1>8. \A v \in Workers :
        /\ fd'[v] # "none" <=> pc'[v] \in {"write", "rename"}
        /\ v \in cut' => pc'[v] = "write"
        /\ fd'[v] \in {"final", "replaced"} \/ v \in cut' => work'[v] \in raced'[NodeOf[v]]
        /\ \A u \in Workers \ {v} :
            fd'[u] = "tmp" /\ fd'[v] = "tmp" /\ NodeOf[u] = NodeOf[v] /\ work'[u] = work'[v]
                => work'[v] \in raced'[NodeOf[v]]
  BY <1>1 DEF FilesOK, TypeInv, TypeOK
<1>9. ASSUME NEW v \in Workers, pc'[v] = "rename", fd'[v] = "tmp"
      PROVE  work'[v] \in raced'[NodeOf[v]] \/ tmp'[NodeOf[v]][work'[v]] = "whole"
  <2>1. CASE v = w
    BY <1>1, <1>5, <1>9, <2>1
  <2>2. CASE v # w
    <3>1. pc[v] = "rename" /\ fd[v] = "tmp"
      BY <1>1, <1>9, <2>2 DEF TypeInv, TypeOK
    <3>2. work[v] \in Dicts /\ NodeOf[v] \in Nodes
      BY <3>1 DEF TypeInv, WorkOK, Working
    <3>3. work[v] \in raced[NodeOf[v]] \/ tmp[NodeOf[v]][work[v]] = "whole"
      BY <3>1 DEF FilesOK
    <3> QED
      BY <1>1, <1>4, <3>2, <3>3
  <2> QED
    BY <2>1, <2>2
<1>10. FilesOK'
  <2> HIDE DEF n, d
  <2> QED
    BY <1>7, <1>8, <1>9 DEF FilesOK
<1> QED
  BY <1>6, <1>10

\* Renaming: what two have had open may be published torn, what one has had open may not.
LEMMA RenameFiles ==
    ASSUME TypeInv, FilesOK, NEW w \in Workers, Rename(w)
    PROVE  /\ FilesOK'
           /\ work[w] \in raced'[NodeOf[w]] \/ final'[NodeOf[w]][work[w]] = "whole"
           /\ \A n \in Nodes, d \in Dicts : Saved(n, d) => Saved(n, d)'
<1> DEFINE n == NodeOf[w]
<1> DEFINE d == work[w]
<1>1. /\ n \in Nodes /\ d \in Dicts
      /\ final' = [final EXCEPT ![n][d] = tmp[n][d]]
      /\ tmp' = [tmp EXCEPT ![n][d] = Absent]
      /\ fd' = [Moved(n, d) EXCEPT ![w] = "none"]
      /\ raced' = raced /\ cut' = cut /\ pc[w] = "rename" /\ fd[w] # "none" /\ w \notin cut
  BY DEF Rename, TypeInv, TypeOK, WorkOK, Working, FilesOK
<1>2. \A v \in Workers \ {w} : pc'[v] = pc[v] /\ work'[v] = work[v]
  BY DEF Rename, Proceed, Goto, TypeInv, TypeOK
<1>3. pc'[w] \notin {"write", "rename"} /\ fd'[w] = "none"
  BY <1>1 DEF Rename, Proceed, Goto, Moved, TypeInv, TypeOK
<1>4. d \in raced[n] \/ tmp[n][d] = "whole"
  BY <1>1 DEF FilesOK, TypeInv, TypeOK
<1>5. /\ \A m \in Nodes, e \in Dicts :
            m # n \/ e # d => final'[m][e] = final[m][e] /\ tmp'[m][e] = tmp[m][e]
      /\ final'[n][d] = tmp[n][d]
  <2>1. /\ final \in [Nodes -> [Dicts -> Holds]] /\ tmp \in [Nodes -> [Dicts -> Holds]]
        /\ n \in Nodes /\ d \in Dicts
    BY <1>1 DEF TypeInv, TypeOK, Holds
  <2> HIDE DEF n, d
  <2> QED
    BY <1>1, <2>1
<1>6. /\ d \in raced'[n] \/ final'[n][d] = "whole"
      /\ \A m \in Nodes, e \in Dicts : Saved(m, e) => Saved(m, e)'
  BY <1>1, <1>4, <1>5 DEF Saved
<1>7. \A m \in Nodes, e \in Dicts : final'[m][e] = "torn" => e \in raced'[m]
  BY <1>1, <1>4, <1>5 DEF FilesOK
<1>8. ASSUME NEW v \in Workers \ {w}
      PROVE  /\ fd'[v] = "tmp" => fd[v] = "tmp" /\ (NodeOf[v] # n \/ work[v] # d)
             /\ fd'[v] \in {"final", "replaced"} =>
                    fd[v] \in {"final", "replaced"} \/ (fd[v] = "tmp" /\ NodeOf[v] = n /\ work[v] = d)
             /\ fd'[v] = "none" <=> fd[v] = "none"
  <2>1. fd'[v] = Moved(n, d)[v]
    BY <1>1, <1>8 DEF Moved
  <2> QED
    BY <2>1 DEF Moved, Writers, TypeInv, TypeOK
<1>9. ASSUME NEW v \in Workers \ {w}, fd[v] = "tmp", NodeOf[v] = n, work[v] = d
      PROVE  d \in raced[n]
  <2>1. fd[w] \in {"none", "tmp", "final", "replaced"} /\ fd[w] # "none"
    BY <1>1 DEF TypeInv, TypeOK
  <2>2. fd[w] \in {"final", "replaced"} => d \in raced[n]
    BY DEF FilesOK
  <2>3. fd[w] = "tmp" => d \in raced[n]
    BY <1>9 DEF FilesOK
  <2> QED
    BY <2>1, <2>2, <2>3
<1>10. \A v \in Workers :
        /\ fd'[v] # "none" <=> pc'[v] \in {"write", "rename"}
        /\ v \in cut' => pc'[v] = "write"
        /\ fd'[v] \in {"final", "replaced"} \/ v \in cut' => work'[v] \in raced'[NodeOf[v]]
        /\ \A u \in Workers \ {v} :
            fd'[u] = "tmp" /\ fd'[v] = "tmp" /\ NodeOf[u] = NodeOf[v] /\ work'[u] = work'[v]
                => work'[v] \in raced'[NodeOf[v]]
  BY <1>1, <1>2, <1>3, <1>8, <1>9 DEF FilesOK
<1>11. ASSUME NEW v \in Workers, pc'[v] = "rename", fd'[v] = "tmp"
       PROVE  work'[v] \in raced'[NodeOf[v]] \/ tmp'[NodeOf[v]][work'[v]] = "whole"
  <2>1. v \in Workers \ {w} /\ pc[v] = "rename" /\ work'[v] = work[v]
    BY <1>2, <1>3, <1>11
  <2>2. fd[v] = "tmp" /\ (NodeOf[v] # n \/ work[v] # d)
    BY <1>8, <1>11, <2>1
  <2>3. work[v] \in Dicts /\ NodeOf[v] \in Nodes
    BY <2>1 DEF TypeInv, WorkOK, Working
  <2>4. work[v] \in raced[NodeOf[v]] \/ tmp[NodeOf[v]][work[v]] = "whole"
    BY <2>1, <2>2 DEF FilesOK
  <2> QED
    BY <1>1, <1>5, <2>1, <2>2, <2>3, <2>4
<1>12. FilesOK'
  <2> HIDE DEF n, d
  <2> QED
    BY <1>7, <1>10, <1>11 DEF FilesOK
<1> QED
  BY <1>6, <1>12

\* A restart closes the files of its node.
LEMMA RestartFiles ==
    ASSUME TypeInv, FilesOK, NEW n \in Nodes, Restart(n)
    PROVE  FilesOK'
<1>1. \A w \in Workers :
        IF NodeOf[w] = n THEN fd'[w] = "none" /\ pc'[w] = "idle" /\ w \notin cut'
        ELSE /\ fd'[w] = fd[w] /\ pc'[w] = pc[w] /\ work'[w] = work[w]
             /\ w \in cut' <=> w \in cut
  BY DEF Restart
<1>2. final' = final /\ tmp' = tmp /\ raced' = raced
  BY DEF Restart, disk
<1> QED
  BY <1>1, <1>2 DEF FilesOK

\* Every step keeps FilesOK, and what is saved.
LEMMA StepFiles ==
    ASSUME TypeInv, FilesOK, [Next]_vars
    PROVE  FilesOK' /\ \A n \in Nodes, d \in Dicts : Saved(n, d) => Saved(n, d)'
<1>1. ASSUME UNCHANGED disk
      PROVE  \A n \in Nodes, d \in Dicts : Saved(n, d) => Saved(n, d)'
  BY <1>1 DEF disk, Saved
<1>2. ASSUME NEW w \in Workers, UNCHANGED <<disk, fd, cut>>,
             \A v \in Workers \ {w} : pc'[v] = pc[v] /\ work'[v] = work[v],
             pc[w] \notin {"write", "rename"}, pc'[w] \notin {"write", "rename"}
      PROVE  FilesOK'
  <2>1. fd'[w] = "none" /\ cut' = cut \ {w} /\ \A v \in Workers : fd'[v] = fd[v]
    BY <1>2 DEF FilesOK
  <2> QED
    BY <1>2, <2>1, AwayFromFiles
<1>3. ASSUME NEW w \in Workers, UNCHANGED disk, Leave(w)
      PROVE  FilesOK'
  BY <1>3, AwayFromFiles DEF Leave, Close, Goto, TypeInv, TypeOK
<1>4. ASSUME NEW w \in Workers, UNCHANGED disk, NEW label \in {"publish", "seal"},
             Proceed(w, label), Close(w)
      PROVE  FilesOK'
  BY <1>4, AwayFromFiles DEF Proceed, Close, Goto, TypeInv, TypeOK
<1>5. ASSUME NEW w \in Workers, Compress(w)
      PROVE  FilesOK' /\ UNCHANGED disk
  <2>1. UNCHANGED disk
    BY <1>5 DEF Compress, ActiveFor, Observe, Sample, Train, Publish, Activate, RedisPut, Seal
  <2>2. CASE Seal(w)
    BY <1>3, <2>1, <2>2 DEF Seal
  <2>3. CASE Train(w)
    <3>1. pc[w] = "train" /\ UNCHANGED <<fd, cut>>
      BY <2>3 DEF Train
    <3>2. Goto(w, "seal") \/ Goto(w, "exists")
      BY <2>3 DEF Train
    <3>3. UNCHANGED work \/ \E d \in Dicts : work' = [work EXCEPT ![w] = d]
      BY <2>3 DEF Train
    <3>4. /\ pc'[w] \notin {"write", "rename"}
          /\ \A v \in Workers \ {w} : pc'[v] = pc[v] /\ work'[v] = work[v]
      BY <3>2, <3>3 DEF Goto, TypeInv, TypeOK
    <3> QED
      BY <1>2, <2>1, <3>1, <3>4
  <2>4. CASE ~Seal(w) /\ ~Train(w)
    <3>1. UNCHANGED <<work, fd, cut>>
      BY <1>5, <2>4 DEF Compress, ActiveFor, Observe, Sample, Publish, Activate, RedisPut, own
    <3> QED
      BY <1>2, <1>5, <2>1, <2>4, <3>1
      DEF Compress, ActiveFor, Observe, Sample, Publish, Activate, RedisPut, Goto, TypeInv, TypeOK
  <2> QED
    BY <2>1, <2>2, <2>3, <2>4
<1>6. ASSUME NEW w \in Workers, WriteFile(w)
      PROVE  FilesOK' /\ \A n \in Nodes, d \in Dicts : Saved(n, d) => Saved(n, d)'
  <2>1. CASE Exists(w)
    <3>1. UNCHANGED disk
      BY <2>1 DEF Exists
    <3>2. CASE Proceed(w, "publish") /\ Close(w)
      BY <1>1, <1>4, <3>1, <3>2
    <3>3. CASE Goto(w, "create") /\ UNCHANGED own
      BY <1>1, <1>2, <2>1, <3>1, <3>3 DEF Exists, Goto, own, TypeInv, TypeOK
    <3> QED
      BY <2>1, <3>2, <3>3 DEF Exists
  <2>2. CASE RenameFails(w) \/ DiskFault(w)
    BY <1>1, <1>4, <2>2 DEF RenameFails, DiskFault
  <2> QED
    BY <1>6, <2>1, <2>2, CreateFiles, WriteFiles, RenameFiles DEF WriteFile
<1>7. ASSUME NEW w \in Workers, Restore(w)
      PROVE  FilesOK' /\ UNCHANGED disk
  <2>1. UNCHANGED disk
    BY <1>7 DEF Restore, Resolve, ReadFile, RedisGet
  <2>2. CASE Resolve(w)
    <3>1. /\ \A v \in Workers \ {w} : pc'[v] = pc[v] /\ work'[v] = work[v]
          /\ pc'[w] = "readFile" /\ pc[w] = "idle" /\ UNCHANGED <<fd, cut>>
      BY <2>2 DEF Resolve, Goto, TypeInv, TypeOK
    <3> QED
      BY <1>2, <2>1, <3>1
  <2>3. CASE Leave(w)
    BY <1>3, <2>1, <2>3
  <2>4. CASE ~Resolve(w) /\ ~Leave(w)
    BY <1>2, <1>7, <2>1, <2>4 DEF Restore, ReadFile, RedisGet, Goto, own, TypeInv, TypeOK
  <2> QED
    BY <2>1, <2>2, <2>3, <2>4
<1>8. ASSUME NEW n \in Nodes, Restart(n)
      PROVE  FilesOK' /\ UNCHANGED disk
  BY <1>8, RestartFiles DEF Restart
<1>9. ASSUME UNCHANGED vars
      PROVE  FilesOK' /\ UNCHANGED disk
  BY <1>9 DEF vars, own, disk, FilesOK
<1> QED
  BY <1>1, <1>5, <1>6, <1>7, <1>8, <1>9 DEF Next

----------------------------------------------------------------------------
\* Whoever offers, takes or has sealed with a dictionary does so after it was saved.
LEMMA StepKept ==
    ASSUME IInv, [Next]_vars
    PROVE  Kept'
<1>1. FilesOK' /\ \A n \in Nodes, d \in Dicts : Saved(n, d) => Saved(n, d)'
  BY StepFiles DEF IInv
<1>2. ASSUME NEW w \in Workers, pc[w] \in {"publish", "activate"}
      PROVE  work[w] \in Dicts /\ NodeOf[w] \in Nodes
  BY <1>2 DEF IInv, TypeInv, WorkOK, Working
<1>3. ASSUME UNCHANGED <<sealed, active>>
      PROVE  /\ \A n \in Nodes : \A d \in sealed'[n] : Saved(n, d)'
             /\ \A n \in Nodes : active'[n] \in Dicts => Saved(n, active[n])'
  BY <1>1, <1>3 DEF IInv, Kept, TypeInv, TypeOK
<1>4. ASSUME NEW w \in Workers, pc'[w] \notin {"publish", "activate"},
             \A v \in Workers \ {w} : pc'[v] = pc[v] /\ work'[v] = work[v]
      PROVE  \A v \in Workers : pc'[v] \in {"publish", "activate"} => Saved(NodeOf[v], work[v])'
  <2>1. ASSUME NEW v \in Workers, pc'[v] \in {"publish", "activate"}
        PROVE  Saved(NodeOf[v], work[v])'
    <3>1. v # w /\ pc[v] \in {"publish", "activate"} /\ work'[v] = work[v]
      BY <1>4, <2>1
    <3>2. Saved(NodeOf[v], work[v]) /\ work[v] \in Dicts /\ NodeOf[v] \in Nodes
      BY <1>2, <3>1 DEF IInv, Kept
    <3> QED
      BY <1>1, <3>1, <3>2 DEF Saved
  <2> QED
    BY <2>1
<1>5. ASSUME \A w \in Workers : used'[w] \in {used[w], NoDict}
      PROVE  \A w \in Workers : used'[w] \in Dicts => Saved(NodeOf[w], used[w])'
  <2>1. ASSUME NEW w \in Workers, used'[w] \in Dicts
        PROVE  Saved(NodeOf[w], used[w])'
    <3>1. used'[w] = used[w]
      BY <1>5, <2>1
    <3>2. Saved(NodeOf[w], used[w]) /\ NodeOf[w] \in Nodes
      BY <2>1, <3>1 DEF IInv, Kept
    <3> QED
      BY <1>1, <2>1, <3>1, <3>2 DEF Saved
  <2> QED
    BY <2>1
\* A step that publishes nothing keeps Kept.
<1>6. ASSUME UNCHANGED <<sealed, active>>,
             \A w \in Workers : used'[w] \in {used[w], NoDict},
             NEW w \in Workers, pc'[w] \notin {"publish", "activate"},
             \A v \in Workers \ {w} : pc'[v] = pc[v] /\ work'[v] = work[v]
      PROVE  Kept'
  BY <1>3, <1>4, <1>5, <1>6 DEF Kept
<1>7. ASSUME NEW w \in Workers, Compress(w)
      PROVE  Kept'
  <2> DEFINE n == NodeOf[w]
  <2>0. n \in Nodes
    OBVIOUS
  <2>1. CASE ActiveFor(w)
    <3>1. /\ used' = [used EXCEPT ![w] = IF n \in Enabled THEN active[n] ELSE NoDict]
          /\ UNCHANGED <<sealed, active>> /\ pc'[w] = "observe"
          /\ \A v \in Workers \ {w} : pc'[v] = pc[v] /\ work'[v] = work[v]
      BY <2>1 DEF ActiveFor, Goto, maps, IInv, TypeInv, TypeOK
    <3>2. ASSUME NEW v \in Workers, used'[v] \in Dicts
          PROVE  Saved(NodeOf[v], used[v])'
      <4>1. used'[v] = used[v] \/ (v = w /\ used'[v] = active[n])
        BY <3>1, <3>2 DEF IInv, TypeInv, TypeOK
      <4>2. Saved(NodeOf[v], used'[v])
        BY <2>0, <3>2, <4>1 DEF IInv, Kept
      <4> QED
        BY <1>1, <3>2, <4>2 DEF Saved
    <3> QED
      BY <1>3, <1>4, <3>1, <3>2 DEF Kept
  <2>2. CASE Observe(w) \/ Sample(w) \/ RedisPut(w)
    <3>1. UNCHANGED <<sealed, active, used, work>>
      BY <2>2 DEF Observe, Sample, RedisPut, own, maps
    <3>2. /\ pc'[w] \notin {"publish", "activate"}
          /\ \A v \in Workers \ {w} : pc'[v] = pc[v]
      BY <2>2 DEF Observe, Sample, RedisPut, Goto, IInv, TypeInv, TypeOK
    <3> QED
      BY <1>6, <3>1, <3>2
  <2>3. CASE Train(w)
    <3>1. UNCHANGED <<sealed, active, used>>
      BY <2>3 DEF Train
    <3>2. /\ Goto(w, "seal") \/ Goto(w, "exists")
          /\ UNCHANGED work \/ \E d \in Dicts : work' = [work EXCEPT ![w] = d]
      BY <2>3 DEF Train
    <3>3. /\ pc'[w] \notin {"publish", "activate"}
          /\ \A v \in Workers \ {w} : pc'[v] = pc[v] /\ work'[v] = work[v]
      BY <3>2 DEF Goto, IInv, TypeInv, TypeOK
    <3> QED
      BY <1>6, <3>1, <3>3
  <2>4. CASE Publish(w)
    <3>1. /\ UNCHANGED <<sealed, active, used, work>> /\ pc[w] = "publish"
          /\ pc'[w] = "activate" /\ \A v \in Workers \ {w} : pc'[v] = pc[v]
      BY <2>4 DEF Publish, Goto, own, IInv, TypeInv, TypeOK
    <3>2. ASSUME NEW v \in Workers, pc'[v] \in {"publish", "activate"}
          PROVE  Saved(NodeOf[v], work[v])'
      <4>1. pc[v] \in {"publish", "activate"}
        BY <3>1, <3>2
      <4>2. Saved(NodeOf[v], work[v])
        BY <4>1 DEF IInv, Kept
      <4> QED
        BY <1>1, <1>2, <3>1, <4>1, <4>2 DEF Saved
    <3> QED
      BY <1>3, <1>5, <3>1, <3>2 DEF Kept
  <2>5. CASE Activate(w)
    <3>1. /\ UNCHANGED <<sealed, used, work>> /\ pc[w] = "activate"
          /\ active' = [active EXCEPT ![n] = work[w]]
          /\ pc'[w] = "redisPut" /\ \A v \in Workers \ {w} : pc'[v] = pc[v]
      BY <2>5 DEF Activate, Goto, own, IInv, TypeInv, TypeOK
    <3>2. Saved(n, work[w]) /\ work[w] \in Dicts
      BY <1>2, <3>1 DEF IInv, Kept
    <3>3. ASSUME NEW m \in Nodes, active'[m] \in Dicts
          PROVE  Saved(m, active[m])'
      <4>1. Saved(m, active'[m])
        BY <3>1, <3>2, <3>3 DEF IInv, Kept, TypeInv, TypeOK
      <4> QED
        BY <1>1, <3>3, <4>1 DEF Saved
    <3>4. \A m \in Nodes : \A d \in sealed'[m] : Saved(m, d)'
      BY <1>1, <3>1 DEF IInv, Kept, TypeInv, TypeOK
    <3> QED
      BY <1>4, <1>5, <3>1, <3>3, <3>4 DEF Kept
  <2>6. CASE Seal(w)
    <3>1. /\ UNCHANGED active /\ pc'[w] = "idle"
          /\ \A v \in Workers \ {w} : pc'[v] = pc[v] /\ work'[v] = work[v]
          /\ \A v \in Workers : used'[v] \in {used[v], NoDict}
      BY <2>6 DEF Seal, Leave, Goto, maps, IInv, TypeInv, TypeOK
    <3>2. ASSUME NEW m \in Nodes, NEW d \in sealed'[m]
          PROVE  Saved(m, d)'
      <4>1. d \in sealed[m] \/ (m = n /\ d = used[w] /\ d # NoDict)
        BY <2>6 DEF Seal, IInv, TypeInv, TypeOK
      <4>2. d \in Dicts
        BY <4>1 DEF IInv, TypeInv, TypeOK
      <4>3. Saved(m, d)
        BY <4>1, <4>2 DEF IInv, Kept
      <4> QED
        BY <1>1, <4>2, <4>3
    <3>3. \A m \in Nodes : active'[m] \in Dicts => Saved(m, active[m])'
      BY <1>1, <3>1 DEF IInv, Kept, Saved
    <3> QED
      BY <1>4, <1>5, <3>1, <3>2, <3>3 DEF Kept
  <2> QED
    BY <1>7, <2>1, <2>2, <2>3, <2>4, <2>5, <2>6 DEF Compress
<1>8. ASSUME NEW w \in Workers, WriteFile(w)
      PROVE  Kept'
  <2>1. /\ UNCHANGED <<sealed, active, used>>
        /\ \A v \in Workers \ {w} : pc'[v] = pc[v] /\ work'[v] = work[v]
    BY <1>8 DEF WriteFile, Exists, Create, Write, Rename, RenameFails, DiskFault, Proceed, Goto,
        own, maps, IInv, TypeInv, TypeOK
  <2>2. CASE pc'[w] \notin {"publish", "activate"}
    BY <1>6, <2>1, <2>2
  <2>3. CASE pc'[w] \in {"publish", "activate"}
    <3>1. pc[w] \in Working /\ work[w] \in Dicts /\ NodeOf[w] \in Nodes
      BY <1>8 DEF WriteFile, Exists, Create, Write, Rename, RenameFails, DiskFault, Working,
          IInv, TypeInv, WorkOK
    <3>2. /\ pc'[w] = "publish" /\ work'[w] = work[w]
          /\ Rename(w) \/ (Exists(w) /\ final[NodeOf[w]][work[w]] # Absent)
      BY <1>8, <2>3 DEF WriteFile, Exists, Create, Write, Rename, RenameFails, DiskFault, Proceed,
          Goto, own, IInv, TypeInv, TypeOK
    <3>3. ASSUME Exists(w), final[NodeOf[w]][work[w]] # Absent
          PROVE  work[w] \in raced'[NodeOf[w]] \/ final'[NodeOf[w]][work[w]] = "whole"
      <4>1. Saved(NodeOf[w], work[w])
        BY <3>1, <3>3 DEF Saved, IInv, FilesOK, TypeInv, TypeOK
      <4> QED
        BY <1>1, <3>1, <4>1 DEF Saved
    <3>4. work'[w] \in raced'[NodeOf[w]] \/ final'[NodeOf[w]][work'[w]] = "whole"
      <4>1. work[w] \in raced'[NodeOf[w]] \/ final'[NodeOf[w]][work[w]] = "whole"
        BY <3>2, <3>3, RenameFiles DEF IInv
      <4> QED
        BY <3>2, <4>1
    <3>5. ASSUME NEW v \in Workers, pc'[v] \in {"publish", "activate"}
          PROVE  Saved(NodeOf[v], work[v])'
      <4>1. CASE v = w
        BY <3>4, <4>1 DEF Saved
      <4>2. CASE v # w
        <5>1. pc[v] \in {"publish", "activate"} /\ work'[v] = work[v]
          BY <2>1, <3>5, <4>2
        <5>2. Saved(NodeOf[v], work[v])
          BY <5>1 DEF IInv, Kept
        <5> QED
          BY <1>1, <1>2, <5>1, <5>2 DEF Saved
      <4> QED
        BY <4>1, <4>2
    <3> QED
      BY <1>3, <1>5, <2>1, <3>5 DEF Kept
  <2> QED
    BY <2>2, <2>3
<1>9. ASSUME NEW w \in Workers, Restore(w)
      PROVE  Kept'
  <2>1. UNCHANGED <<sealed, active>>
    BY <1>9 DEF Restore, Resolve, ReadFile, RedisGet, maps
  <2>2. \A v \in Workers : used'[v] \in {used[v], NoDict}
    BY <1>9 DEF Restore, Resolve, ReadFile, RedisGet, Leave, own, IInv, TypeInv, TypeOK
  <2>3. pc'[w] \notin {"publish", "activate"} /\ \A v \in Workers \ {w} : pc'[v] = pc[v]
    BY <1>9 DEF Restore, Resolve, ReadFile, RedisGet, Leave, Goto, IInv, TypeInv, TypeOK
  <2>4. \A v \in Workers \ {w} : work'[v] = work[v]
    BY <1>9 DEF Restore, Resolve, ReadFile, RedisGet, Leave, own, IInv, TypeInv, TypeOK
  <2> QED
    BY <1>6, <2>1, <2>2, <2>3, <2>4
<1>10. ASSUME NEW n \in Nodes, Restart(n)
       PROVE  Kept'
  <2>1. /\ \A w \in Workers : used'[w] \in {used[w], NoDict}
        /\ \A w \in Workers : pc'[w] = "idle" \/ (pc'[w] = pc[w] /\ work'[w] = work[w])
        /\ UNCHANGED <<sealed, disk>>
    BY <1>10 DEF Restart
  <2>2. PICK d \in Dicts \cup {NoDict} :
            active' = [active EXCEPT ![n] = d] /\ (d # NoDict => Intact(n, d))
    BY <1>10 DEF Restart
  <2>3. ASSUME NEW m \in Nodes, active'[m] \in Dicts
        PROVE  Saved(m, active[m])'
    <3>1. Saved(m, active'[m])
      BY <2>2, <2>3 DEF Saved, Intact, IInv, Kept, TypeInv, TypeOK
    <3> QED
      BY <1>1, <2>3, <3>1 DEF Saved
  <2>4. \A m \in Nodes : \A e \in sealed'[m] : Saved(m, e)'
    BY <1>1, <2>1 DEF IInv, Kept, TypeInv, TypeOK
  <2>5. ASSUME NEW v \in Workers, pc'[v] \in {"publish", "activate"}
        PROVE  Saved(NodeOf[v], work[v])'
    <3>1. pc[v] \in {"publish", "activate"} /\ work'[v] = work[v]
      BY <2>1, <2>5
    <3>2. Saved(NodeOf[v], work[v])
      BY <3>1 DEF IInv, Kept
    <3> QED
      BY <1>1, <1>2, <3>1, <3>2 DEF Saved
  <2> QED
    BY <1>5, <2>1, <2>3, <2>4, <2>5 DEF Kept
<1>11. CASE UNCHANGED vars
  BY <1>11 DEF vars, own, maps, disk, Kept, Saved, IInv
<1> QED
  BY <1>7, <1>8, <1>9, <1>10, <1>11 DEF Next

\* A dictionary with which a node has sealed resolves there for good (dict_store.rs:272-280
\* persists before it publishes), unless two workers have had its temporary file open.
THEOREM SealedDictionariesResolve == Spec => []SealedResolves
<1>1. Init => IInv
  <2>1. Init => FilesOK
    BY DEF Init, FilesOK, Absent
  <2>2. Init => Kept
    BY DEF Init, Kept
  <2> QED
    BY <2>1, <2>2, Types DEF IInv
<1>2. IInv /\ [Next]_vars => IInv'
  BY Types, StepFiles, StepKept DEF IInv
<1>3. IInv => SealedResolves
  BY DEF IInv, Kept, Saved, SealedResolves, Intact, TypeInv, TypeOK
<1> QED
  BY <1>1, <1>2, <1>3, PTL DEF Spec

\* No interleaving of torn files, fetches and restarts puts bytes in memory that are not the
\* dictionary of the id (dict_store.rs:103-111, 199-204).
THEOREM ResolvedAreGenuine == Spec => []ResolvedIsGenuine
<1> DEFINE Inv == TypeInv /\ ResolvedIsGenuine
<1>1. Init => Inv
  BY Types DEF Init, ResolvedIsGenuine, Absent
<1>2. ASSUME Inv, [Next]_vars
      PROVE  ResolvedIsGenuine'
  <2>1. CASE UNCHANGED by_id
    BY <1>2, <2>1 DEF ResolvedIsGenuine
  <2>2. ASSUME NEW n \in Nodes, NEW d, by_id' = [by_id EXCEPT ![n][d] = "whole"]
        PROVE  ResolvedIsGenuine'
    BY <1>2, <2>2 DEF ResolvedIsGenuine, TypeInv, TypeOK
  <2>3. ASSUME NEW w \in Workers, Compress(w) \/ WriteFile(w) \/ Restore(w)
        PROVE  ResolvedIsGenuine'
    <3>1. \/ UNCHANGED by_id
          \/ by_id' = [by_id EXCEPT ![NodeOf[w]][work[w]] = "whole"]
      BY <2>3 DEF Compress, ActiveFor, Observe, Sample, Train, Publish, Activate, RedisPut, Seal,
          WriteFile, Exists, Create, Write, Rename, RenameFails, DiskFault,
          Restore, Resolve, ReadFile, RedisGet, Accept, maps
    <3> QED
      BY <2>1, <2>2, <3>1
  <2>4. ASSUME NEW n \in Nodes, Restart(n)
        PROVE  ResolvedIsGenuine'
    BY <1>2, <2>4 DEF Restart, ResolvedIsGenuine, TypeInv, TypeOK, Absent
  <2> QED
    BY <1>2, <2>1, <2>3, <2>4 DEF Next, vars, maps
<1>3. Inv /\ [Next]_vars => Inv'
  BY <1>2, Types
<1>4. Inv => ResolvedIsGenuine
  OBVIOUS
<1> QED
  BY <1>1, <1>3, <1>4, PTL DEF Spec

----------------------------------------------------------------------------
\* Samples that suffice have a worker that is about to train them (dict_store.rs:224-254),
\* whoever else has seen them and whoever empties the buffer.
THEOREM ReadySamplesAreTrained == Spec => []ReadyIsTrained
<1> DEFINE Inv == TypeInv /\ ReadyIsTrained
<1>0. ~Ready(Empty)
  BY DEF Ready, Empty
<1>1. Init => Inv
  BY Types, <1>0 DEF Init, ReadyIsTrained
<1>2. ASSUME Inv, [Next]_vars
      PROVE  ReadyIsTrained'
  <2>1. ASSUME UNCHANGED samples, NEW w \in Workers, pc[w] # "train",
               \A v \in Workers \ {w} : pc'[v] = pc[v]
        PROVE  ReadyIsTrained'
    BY <1>2, <2>1 DEF ReadyIsTrained
  <2>2. ASSUME NEW w \in Workers, Sample(w)
        PROVE  ReadyIsTrained'
    <3>1. /\ \A n \in Nodes \ {NodeOf[w]} : samples'[n] = samples[n]
          /\ \A v \in Workers \ {w} : pc'[v] = pc[v]
          /\ pc[w] = "sample"
          /\ Ready(samples'[NodeOf[w]]) => pc'[w] = "train"
      BY <1>2, <2>2 DEF Sample, Goto, TypeInv, TypeOK
    <3> QED
      BY <1>2, <3>1 DEF ReadyIsTrained
  <2>3. ASSUME NEW w \in Workers, Train(w)
        PROVE  ReadyIsTrained'
    <3>1. /\ \A n \in Nodes \ {NodeOf[w]} : samples'[n] = samples[n]
          /\ \A v \in Workers \ {w} : pc'[v] = pc[v]
          /\ ~Ready(samples'[NodeOf[w]])
      BY <1>0, <1>2, <2>3 DEF Train, Goto, Ready, TypeInv, TypeOK
    <3> QED
      BY <1>2, <3>1 DEF ReadyIsTrained
  <2>4. ASSUME NEW w \in Workers, ~Sample(w), ~Train(w), Compress(w) \/ WriteFile(w) \/ Restore(w)
        PROVE  ReadyIsTrained'
    <3>1. UNCHANGED samples
      BY <2>4 DEF Compress, ActiveFor, Observe, Publish, Activate, RedisPut, Seal,
          WriteFile, Exists, Create, Write, Rename, RenameFails, DiskFault,
          Restore, Resolve, ReadFile, RedisGet, maps
    <3>2. pc[w] # "train" /\ \A v \in Workers \ {w} : pc'[v] = pc[v]
      BY <1>2, <2>4 DEF Compress, ActiveFor, Observe, Publish, Activate, RedisPut, Seal,
          WriteFile, Exists, Create, Write, Rename, RenameFails, DiskFault,
          Restore, Resolve, ReadFile, RedisGet, Goto, Leave, Proceed, TypeInv, TypeOK
    <3> QED
      BY <2>1, <3>1, <3>2
  <2>5. ASSUME NEW n \in Nodes, Restart(n)
        PROVE  ReadyIsTrained'
    <3>1. /\ samples' = [samples EXCEPT ![n] = Empty]
          /\ \A w \in Workers : NodeOf[w] # n => pc'[w] = pc[w]
      BY <2>5 DEF Restart
    <3>2. ASSUME NEW m \in Nodes, Ready(samples'[m])
          PROVE  \E w \in Workers : NodeOf[w] = m /\ pc'[w] = "train"
      <4>1. m # n /\ samples'[m] = samples[m]
        BY <1>0, <1>2, <3>1, <3>2 DEF TypeInv, TypeOK
      <4>2. PICK w \in Workers : NodeOf[w] = m /\ pc[w] = "train"
        BY <1>2, <3>2, <4>1 DEF ReadyIsTrained
      <4> QED
        BY <3>1, <4>1, <4>2
    <3> QED
      BY <3>2 DEF ReadyIsTrained, Ready
  <2>6. CASE UNCHANGED vars
    BY <1>2, <2>6 DEF ReadyIsTrained, vars, maps
  <2> QED
    BY <1>2, <2>2, <2>3, <2>4, <2>5, <2>6 DEF Next
<1>3. Inv /\ [Next]_vars => Inv'
  BY <1>2, Types
<1>4. Inv => ReadyIsTrained
  OBVIOUS
<1> QED
  BY <1>1, <1>3, <1>4, PTL DEF Spec
=============================================================================
