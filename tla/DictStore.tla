------------------------------ MODULE DictStore ------------------------------
(***************************************************************************)
(* The dictionaries that the engine trains from what it compresses          *)
(* (dict_store.rs), on nodes that share a redis: the samples, the maps      *)
(* active and by_id, and the files of each node.  One action per lock, map  *)
(* operation, system call or redis command.  One class of content: the      *)
(* classes share nothing.                                                  *)
(*                                                                         *)
(* A worker is a thread of the pool of its node, which runs one compress or *)
(* one restore after another.  A dictionary is named by the digest of its   *)
(* bytes: all who write the file of one id write the same bytes.            *)
(***************************************************************************)
EXTENDS Naturals

CONSTANTS
    Nodes,
    Enabled,        \* the nodes that train and use dictionaries (SYNTRA_DICTIONARIES)
    Workers,
    NodeOf,         \* the node of each worker
    Dicts,          \* the ids a training may yield
    NoDict,
    Sizes,          \* the sizes of a sample, cut at SAMPLE_MAX
    MinSamples,     \* MIN_SAMPLES
    MinBytes,       \* MIN_SAMPLE_BYTES
    SampleBudget,   \* SAMPLE_BUDGET
    MaxCrashes,     \* how often a node is killed and restarted
    MaxFaults       \* how many writes or redis commands fail

ASSUME NodesAssumption == NodeOf \in [Workers -> Nodes] /\ Enabled \subseteq Nodes
ASSUME NamesAssumption == NoDict \notin Dicts
ASSUME SizesAssumption == Sizes \subseteq Nat \ {0}
ASSUME NumbersAssumption ==
    /\ MinSamples \in Nat \ {0} /\ MinBytes \in Nat
    /\ SampleBudget \in Nat /\ MinBytes <= SampleBudget
    /\ MaxCrashes \in Nat /\ MaxFaults \in Nat

VARIABLES
    pc,         \* what each worker does next
    used,       \* the dictionary its compress took from active_for
    work,       \* the dictionary it trains or resolves
    fetching,   \* whether it is in resolve
    fd,         \* the name under which the file it has opened for writing is found now
    cut,        \* the workers that write a file another has truncated since they opened it
    samples,    \* the number and the bytes of the samples of each node
    active,     \* the dictionary new compresses take
    by_id,      \* the ids each node holds in memory, genuine or not
    final, tmp, \* what the files <id>.dict and <id>.dict.tmp hold
    redis,      \* the ids published
    sealed,     \* history: the dictionaries of the essences each node has sealed
    raced,      \* history: the ids whose temporary file two workers of a node had open
    crashes, faults

own == <<used, work, fetching, fd, cut>>
maps == <<samples, active, by_id>>
disk == <<final, tmp, raced>>
counts == <<crashes, faults>>
vars == <<pc, own, maps, disk, redis, sealed, counts>>

Goto(w, label) == pc' = [pc EXCEPT ![w] = label]

Close(w) ==
    /\ fd' = [fd EXCEPT ![w] = "none"]
    /\ cut' = cut \ {w}

\* The request of w is over.
Leave(w) ==
    /\ Goto(w, "idle")
    /\ used' = [used EXCEPT ![w] = NoDict]
    /\ work' = [work EXCEPT ![w] = NoDict]
    /\ fetching' = [fetching EXCEPT ![w] = FALSE]
    /\ Close(w)

Fail == faults < MaxFaults /\ faults' = faults + 1

Absent == "absent"
Intact(n, d) == final[n][d] = "whole"

Empty == [items |-> 0, bytes |-> 0]
Ready(buf) == buf.items >= MinSamples /\ buf.bytes >= MinBytes

Init ==
    /\ pc = [w \in Workers |-> "idle"]
    /\ used = [w \in Workers |-> NoDict]
    /\ work = [w \in Workers |-> NoDict]
    /\ fetching = [w \in Workers |-> FALSE]
    /\ fd = [w \in Workers |-> "none"]
    /\ cut = {}
    /\ samples = [n \in Nodes |-> Empty]
    /\ active = [n \in Nodes |-> NoDict]
    /\ by_id = [n \in Nodes |-> [d \in Dicts |-> Absent]]
    /\ final = [n \in Nodes |-> [d \in Dicts |-> Absent]]
    /\ tmp = [n \in Nodes |-> [d \in Dicts |-> Absent]]
    /\ redis = {}
    /\ sealed = [n \in Nodes |-> {}]
    /\ raced = [n \in Nodes |-> {}]
    /\ crashes = 0
    /\ faults = 0

----------------------------------------------------------------------------
(***************************************************************************)
(* compress_blocking: active_for, the compression, observe and the training *)
(* it may start, the seal.                                                 *)
(***************************************************************************)
ActiveFor(w) ==
    /\ pc[w] = "idle"
    /\ used' = [used EXCEPT ![w] = IF NodeOf[w] \in Enabled THEN active[NodeOf[w]] ELSE NoDict]
    /\ Goto(w, "observe")
    /\ UNCHANGED <<work, fetching, fd, cut, maps, disk, redis, sealed, counts>>

\* A sample is kept while the budget lasts; observe trains whenever the buffer suffices.
Add(buf, size) ==
    IF buf.bytes + size <= SampleBudget
    THEN [items |-> buf.items + 1, bytes |-> buf.bytes + size]
    ELSE buf

\* No samples are kept of a class that has a dictionary when observe looks.
Observe(w) ==
    /\ pc[w] = "observe"
    /\ Goto(w, IF NodeOf[w] \in Enabled /\ active[NodeOf[w]] = NoDict THEN "sample" ELSE "seal")
    /\ UNCHANGED <<own, maps, disk, redis, sealed, counts>>

\* Bug: the training starts only when the buffer reaches the number of samples.
SampleOnce(w) ==
    /\ pc[w] = "sample"
    /\ LET n == NodeOf[w]
       IN  /\ \E size \in Sizes : samples' = [samples EXCEPT ![n] = Add(@, size)]
           /\ Goto(w, IF Ready(samples'[n]) /\ samples'[n].items = MinSamples
                      THEN "train" ELSE "seal")
    /\ UNCHANGED <<own, active, by_id, disk, redis, sealed, counts>>

Sample(w) ==
    /\ pc[w] = "sample"
    /\ LET n == NodeOf[w]
       IN  /\ \E size \in Sizes : samples' = [samples EXCEPT ![n] = Add(@, size)]
           /\ Goto(w, IF Ready(samples'[n]) THEN "train" ELSE "seal")
    /\ UNCHANGED <<own, active, by_id, disk, redis, sealed, counts>>

\* train: the buffer is taken whole, unless another worker has just done so.  zstd may
\* find nothing in the samples, or yield one of Dicts.
Train(w) ==
    /\ pc[w] = "train"
    /\ LET n == NodeOf[w]
       IN  \/ /\ samples[n].items < MinSamples
              /\ Goto(w, "seal")
              /\ UNCHANGED <<work, samples>>
           \/ /\ samples[n].items >= MinSamples
              /\ samples' = [samples EXCEPT ![n] = Empty]
              /\ \/ Goto(w, "seal") /\ UNCHANGED work
                 \/ Goto(w, "exists") /\ \E d \in Dicts : work' = [work EXCEPT ![w] = d]
    /\ UNCHANGED <<used, fetching, fd, cut, active, by_id, disk, redis, sealed, counts>>

Publish(w) ==
    /\ pc[w] = "publish"
    /\ by_id' = [by_id EXCEPT ![NodeOf[w]][work[w]] = "whole"]
    /\ Goto(w, "activate")
    /\ UNCHANGED <<own, samples, active, disk, redis, sealed, counts>>

Activate(w) ==
    /\ pc[w] = "activate"
    /\ active' = [active EXCEPT ![NodeOf[w]] = work[w]]
    /\ Goto(w, "redisPut")
    /\ UNCHANGED <<own, samples, by_id, disk, redis, sealed, counts>>

\* redis_put, whose error is logged or dropped.
RedisPut(w) ==
    /\ pc[w] = "redisPut"
    /\ \/ redis' = redis \cup {work[w]} /\ UNCHANGED faults
       \/ Fail /\ UNCHANGED redis
    /\ Goto(w, "seal")
    /\ UNCHANGED <<own, maps, disk, sealed, crashes>>

\* The planner may have chosen a plan without the dictionary.
Seal(w) ==
    /\ pc[w] = "seal"
    /\ \/ UNCHANGED sealed
       \/ /\ used[w] # NoDict
          /\ sealed' = [sealed EXCEPT ![NodeOf[w]] = @ \cup {used[w]}]
    /\ Leave(w)
    /\ UNCHANGED <<maps, disk, redis, counts>>

----------------------------------------------------------------------------
(***************************************************************************)
(* write_file, of a training and of a dictionary fetched from redis, whose  *)
(* error only the training looks at.                                       *)
(***************************************************************************)
\* A training goes on with label, a fetch is over.
Proceed(w, label) ==
    /\ Goto(w, IF fetching[w] THEN "idle" ELSE label)
    /\ work' = [work EXCEPT ![w] = IF fetching[w] THEN NoDict ELSE @]
    /\ fetching' = [fetching EXCEPT ![w] = FALSE]
    /\ UNCHANGED used

Exists(w) ==
    /\ pc[w] = "exists"
    /\ \/ final[NodeOf[w]][work[w]] # Absent /\ Proceed(w, "publish") /\ Close(w)
       \/ final[NodeOf[w]][work[w]] = Absent /\ Goto(w, "create") /\ UNCHANGED own
    /\ UNCHANGED <<maps, disk, redis, sealed, counts>>

\* The workers that have the file open that is now found under name.
Writers(n, d, name) == {w \in Workers : NodeOf[w] = n /\ work[w] = d /\ fd[w] = name}

\* std::fs::write opens the temporary file and truncates it, whoever else has it open.
Create(w) ==
    /\ pc[w] = "create"
    /\ LET n == NodeOf[w]
           d == work[w]
           others == Writers(n, d, "tmp")
       IN  /\ tmp' = [tmp EXCEPT ![n][d] = "torn"]
           /\ cut' = cut \cup {v \in others : pc[v] = "write"}
           /\ raced' = IF others = {} THEN raced ELSE [raced EXCEPT ![n] = @ \cup {d}]
    /\ fd' = [fd EXCEPT ![w] = "tmp"]
    /\ Goto(w, "write")
    /\ UNCHANGED <<used, work, fetching, maps, final, redis, sealed, counts>>

\* The bytes are complete at the end, unless another writer has truncated what was written
\* before; that writer completes them, if it gets there.
Write(w) ==
    /\ pc[w] = "write"
    /\ LET n == NodeOf[w]
           d == work[w]
       IN  \/ fd[w] = "tmp" /\ tmp' = [tmp EXCEPT ![n][d] = "whole"] /\ UNCHANGED final
           \/ fd[w] = "final" /\ final' = [final EXCEPT ![n][d] = "whole"] /\ UNCHANGED tmp
           \/ (w \in cut \/ fd[w] = "replaced") /\ UNCHANGED <<final, tmp>>
    /\ cut' = cut \ {w}
    /\ Goto(w, "rename")
    /\ UNCHANGED <<used, work, fetching, fd, maps, raced, redis, sealed, counts>>

\* Where the files that are open are found after the rename.
Moved(n, d) ==
    [v \in Workers |-> CASE v \in Writers(n, d, "tmp") -> "final"
                         [] v \in Writers(n, d, "final") -> "replaced"
                         [] OTHER -> fd[v]]

Rename(w) ==
    /\ pc[w] = "rename"
    /\ LET n == NodeOf[w]
           d == work[w]
       IN  /\ tmp[n][d] # Absent
           /\ final' = [final EXCEPT ![n][d] = tmp[n][d]]
           /\ tmp' = [tmp EXCEPT ![n][d] = Absent]
           /\ fd' = [Moved(n, d) EXCEPT ![w] = "none"]
    /\ Proceed(w, "publish")
    /\ UNCHANGED <<cut, maps, raced, redis, sealed, counts>>

\* Another writer has renamed the file.
RenameFails(w) ==
    /\ pc[w] = "rename"
    /\ tmp[NodeOf[w]][work[w]] = Absent
    /\ Proceed(w, "seal") /\ Close(w)
    /\ UNCHANGED <<maps, disk, redis, sealed, counts>>

\* Bug: a training goes on to publish what it could not write.
DiskFaultUnseen(w) ==
    /\ pc[w] \in {"create", "write", "rename"}
    /\ Fail
    /\ Proceed(w, "publish") /\ Close(w)
    /\ UNCHANGED <<maps, disk, redis, sealed, crashes>>

\* What is left is a temporary file, whole or not.
DiskFault(w) ==
    /\ pc[w] \in {"create", "write", "rename"}
    /\ Fail
    /\ Proceed(w, "seal") /\ Close(w)
    /\ UNCHANGED <<maps, disk, redis, sealed, crashes>>

----------------------------------------------------------------------------
(***************************************************************************)
(* resolve, for the restore of an essence that any of the nodes has sealed: *)
(* the map (a hit changes nothing), the file, redis.                       *)
(***************************************************************************)
Resolve(w) ==
    /\ pc[w] = "idle"
    /\ \E n \in Nodes : \E d \in sealed[n] :
        /\ by_id[NodeOf[w]][d] = Absent
        /\ work' = [work EXCEPT ![w] = d]
    /\ fetching' = [fetching EXCEPT ![w] = TRUE]
    /\ Goto(w, "readFile")
    /\ UNCHANGED <<used, fd, cut, maps, disk, redis, sealed, counts>>

\* Bug: whatever the file holds is taken.
AcceptAny(n, d, bytes) ==
    /\ bytes # Absent
    /\ by_id' = [by_id EXCEPT ![n][d] = bytes]

\* accept: bytes that do not have the digest of the id are refused.
Accept(n, d, bytes) ==
    /\ bytes = "whole"
    /\ by_id' = [by_id EXCEPT ![n][d] = "whole"]

ReadFile(w) ==
    /\ pc[w] = "readFile"
    /\ LET n == NodeOf[w]
           d == work[w]
       IN  \/ Accept(n, d, final[n][d]) /\ Leave(w)
           \/ ~Intact(n, d) /\ Goto(w, "redisGet") /\ UNCHANGED <<own, by_id>>
    /\ UNCHANGED <<samples, active, disk, redis, sealed, counts>>

\* redis_get; what it returns is written to the disk as well.
RedisGet(w) ==
    /\ pc[w] = "redisGet"
    /\ \/ /\ work[w] \in redis
          /\ Accept(NodeOf[w], work[w], "whole")
          /\ Goto(w, "exists")
          /\ UNCHANGED <<own, faults>>
       \/ work[w] \notin redis /\ Leave(w) /\ UNCHANGED <<by_id, faults>>
       \/ Fail /\ Leave(w) /\ UNCHANGED by_id
    /\ UNCHANGED <<samples, active, disk, redis, sealed, crashes>>

----------------------------------------------------------------------------
(***************************************************************************)
(* A node is killed and load_from_disk runs: the intact files come back,    *)
(* the newest of them as the active dictionary.  Which one that is is left  *)
(* open: modification times may be equal.                                   *)
(***************************************************************************)
Restart(n) ==
    /\ crashes < MaxCrashes
    /\ crashes' = crashes + 1
    /\ LET Dies(w) == NodeOf[w] = n
           intact == {d \in Dicts : Intact(n, d)}
       IN  /\ pc' = [w \in Workers |-> IF Dies(w) THEN "idle" ELSE pc[w]]
           /\ used' = [w \in Workers |-> IF Dies(w) THEN NoDict ELSE used[w]]
           /\ work' = [w \in Workers |-> IF Dies(w) THEN NoDict ELSE work[w]]
           /\ fetching' = [w \in Workers |-> IF Dies(w) THEN FALSE ELSE fetching[w]]
           /\ fd' = [w \in Workers |-> IF Dies(w) THEN "none" ELSE fd[w]]
           /\ cut' = {w \in cut : ~Dies(w)}
           /\ by_id' = [by_id EXCEPT ![n] = [d \in Dicts |->
                            IF d \in intact THEN "whole" ELSE Absent]]
           /\ \E d \in IF intact = {} THEN {NoDict} ELSE intact :
                active' = [active EXCEPT ![n] = d]
    /\ samples' = [samples EXCEPT ![n] = Empty]
    /\ UNCHANGED <<disk, redis, sealed, faults>>

Compress(w) ==
    \/ ActiveFor(w) \/ Observe(w) \/ Sample(w) \/ Train(w)
    \/ Publish(w) \/ Activate(w) \/ RedisPut(w) \/ Seal(w)

WriteFile(w) ==
    \/ Exists(w) \/ Create(w) \/ Write(w)
    \/ Rename(w) \/ RenameFails(w) \/ DiskFault(w)

Restore(w) == Resolve(w) \/ ReadFile(w) \/ RedisGet(w)

Next ==
    \/ \E w \in Workers : Compress(w) \/ WriteFile(w) \/ Restore(w)
    \/ \E n \in Nodes : Restart(n)

Spec == Init /\ [][Next]_vars

----------------------------------------------------------------------------
Labels == {"idle", "observe", "sample", "train", "exists", "create", "write", "rename",
           "publish", "activate", "redisPut", "seal", "readFile", "redisGet"}

\* The variables have the types of what they model, and no buffer exceeds its budget.
TypeOK ==
    /\ pc \in [Workers -> Labels]
    /\ used \in [Workers -> Dicts \cup {NoDict}]
    /\ work \in [Workers -> Dicts \cup {NoDict}]
    /\ fetching \in [Workers -> BOOLEAN]
    /\ fd \in [Workers -> {"none", "tmp", "final", "replaced"}]
    /\ cut \subseteq Workers
    /\ samples \in [Nodes -> [items : Nat, bytes : 0..SampleBudget]]
    /\ active \in [Nodes -> Dicts \cup {NoDict}]
    /\ by_id \in [Nodes -> [Dicts -> {"whole", "torn", Absent}]]
    /\ final \in [Nodes -> [Dicts -> {"whole", "torn", Absent}]]
    /\ tmp \in [Nodes -> [Dicts -> {"whole", "torn", Absent}]]
    /\ redis \subseteq Dicts
    /\ sealed \in [Nodes -> SUBSET Dicts]
    /\ raced \in [Nodes -> SUBSET Dicts]
    /\ crashes \in 0..MaxCrashes
    /\ faults \in 0..MaxFaults

\* A dictionary with which a node has sealed an essence resolves on that node from then on,
\* through retrainings, kills and failed writes (README.md:51), unless two workers wrote its
\* temporary file at once: the file that one of them renames may be what the other has
\* just truncated, and stays so if the node is killed then.
SealedResolves ==
    \A n \in Nodes : \A d \in sealed[n] \ raced[n] : by_id[n][d] = "whole" \/ Intact(n, d)

\* No node decodes with bytes that are not the dictionary of the id, although a file may
\* hold some (dict_store.rs:199-203, and load_from_disk).
ResolvedIsGenuine == \A n \in Nodes, d \in Dicts : by_id[n][d] # "torn"

\* Samples that suffice are on their way to a training: workers that find the buffer ready
\* race for it (dict_store.rs:224-254), and none may leave it full for good.
ReadyIsTrained ==
    \A n \in Nodes : Ready(samples[n]) => \E w \in Workers : NodeOf[w] = n /\ pc[w] = "train"

\* A dictionary of sealed essences is in redis, or on its way there: "Em cluster, aponte
\* SYNTRA_REDIS_URL para que os dicionários sejam replicados" (README.md:711-712).
SealedIsReplicated ==
    \A n \in Nodes : \A d \in sealed[n] :
        d \in redis \/ \E w \in Workers : work[w] = d /\ pc[w] \in {"publish", "activate", "redisPut"}
============================================================================
