--------------------------- MODULE Watcher_proofs ---------------------------
(***************************************************************************)
(* Theorems about Watcher, for any names, contents, numbers of edits, kills *)
(* and faults, and any setting of delete_source.                            *)
(*                                                                         *)
(* That a skipped file is archived is not inductive: a stamp is recorded    *)
(* long after it was taken, of a file that may have been rewritten or       *)
(* replaced since.  What lasts is that a stamp is of one version of one     *)
(* inode (StampsOK), so that whoever still has the recorded stamp has the   *)
(* bytes that were sent with it (TasksOK, RegistryOK).                      *)
(***************************************************************************)
EXTENDS Watcher, TLAPS

\* A stamp was given once, and an inode without one has no bytes.
StampsOK ==
    /\ \A i \in Inodes :
        /\ data[i].stamp <= edits
        /\ data[i].content # Outside
        /\ data[i].stamp = 0 => data[i].content = Empty
    /\ \A i, j \in Inodes : data[i].stamp = data[j].stamp /\ data[i].stamp # 0 => i = j

\* The version with a stamp, if some inode still holds it, is in the archive.
Kept(s) == \A i \in Inodes : data[i].stamp = s => data[i].content \in archived \cup {Empty}

KnownHash(h) == h \in archived \cup {NoHash}

RegistryOK ==
    \A p \in Paths :
        /\ cache[p].stamp <= edits /\ Kept(cache[p].stamp) /\ KnownHash(cache[p].hash)
        /\ rows[p].stamp <= edits /\ Kept(rows[p].stamp) /\ KnownHash(rows[p].hash)

\* What a task of a name knows of the version whose stamp it has taken.
TaskOK(j) ==
    /\ j.at \in {"open", "read"} => j.before \in Inodes
    /\ j.at \in {"read", "send", "remove", "put", "upsert"} => j.stamp <= edits
    /\ j.at = "read" =>
        /\ KnownHash(j.known)
        /\ \A i \in Inodes : data[i].stamp = j.stamp => i = j.before \/ data[i].content = Empty
    /\ j.at = "send" =>
        /\ j.read # Outside
        /\ \A i \in Inodes : data[i].stamp = j.stamp => data[i].content \in {j.read, Empty}
    /\ j.at \in {"remove", "put", "upsert"} => Kept(j.stamp) /\ KnownHash(j.known)

TasksOK == \A p \in Paths : TaskOK(job[p])

IInv == TypeOK /\ StampsOK /\ RegistryOK /\ TasksOK /\ LinksNotFollowed

USE ContentsAssumption, NumbersAssumption, DeleteSourceAssumption

----------------------------------------------------------------------------
LEMMA NoneTypes == NoRecord \in Records /\ NoJob \in Jobs /\ TaskOK(NoJob)
BY DEF NoRecord, NoJob, Records, Jobs, Absent, TaskOK

\* The initial state has the invariant.
LEMMA InitIInv == Init => IInv
<1> SUFFICES ASSUME Init PROVE IInv
  OBVIOUS
<1>1. TypeOK
  <2>1. /\ dir \in [Paths -> 0..(MaxEdits + 1)] /\ edits \in 0..MaxEdits
        /\ data \in [Inodes \cup {Linked} -> [content : Contents, stamp : 0..MaxEdits]]
        /\ crashes \in 0..MaxCrashes /\ faults \in 0..MaxFaults
    BY DEF Init, Absent
  <2>2. job \in [Paths -> Jobs] /\ cache \in [Paths -> Records] /\ rows \in [Paths -> Records]
    BY NoneTypes DEF Init
  <2> QED
    BY <2>1, <2>2 DEF Init, TypeOK, NoScan
<1>2. \A i \in Inodes : data[i] = [content |-> Empty, stamp |-> 0]
  BY DEF Init, Inodes, Linked
<1>3. StampsOK /\ \A s : Kept(s)
  BY <1>2 DEF Init, StampsOK, Kept
<1>4. RegistryOK
  BY <1>3 DEF Init, RegistryOK, NoRecord, KnownHash
<1>5. TasksOK
  BY NoneTypes DEF Init, TasksOK
<1> QED
  BY <1>1, <1>3, <1>4, <1>5 DEF IInv, Init, LinksNotFollowed

\* Another program's edit gives a stamp that nothing has yet, so what is known of the
\* stamps taken before stays true.
LEMMA EditKeeps ==
    ASSUME IInv, Edit, dir' \in [Paths -> 0..(MaxEdits + 1)],
           data' = data \/ \E i \in Inodes, c \in Contents \ {Outside} :
               data' = [data EXCEPT ![i] = [content |-> c, stamp |-> edits']]
    PROVE  IInv'
<1>0. UNCHANGED <<pending, job, scan, cache, rows, archived, sent, resent, delete_source,
                  crashes, faults>> /\ edits' = edits + 1 /\ edits' \in 1..MaxEdits
  BY DEF Edit, history, IInv, TypeOK
<1>1. CASE data' = data
  BY <1>0, <1>1 DEF IInv, TypeOK, StampsOK, RegistryOK, TasksOK, TaskOK, LinksNotFollowed,
                    Kept, KnownHash, Jobs, Records
<1>2. CASE data' # data
  <2>1. PICK i \in Inodes, c \in Contents \ {Outside} :
            data' = [data EXCEPT ![i] = [content |-> c, stamp |-> edits']]
    BY <1>2
  <2>2. TypeOK'
    BY <1>0, <2>1 DEF IInv, TypeOK
  <2>3. /\ data'[i] = [content |-> c, stamp |-> edits + 1]
        /\ \A k \in Inodes \ {i} : data'[k] = data[k]
    BY <1>0, <2>1 DEF IInv, TypeOK, Inodes
  <2>4. edits \in Nat /\ \A k \in Inodes : data[k].stamp \in Nat /\ data[k].stamp <= edits
    BY DEF IInv, TypeOK, StampsOK, Inodes
  <2>5. StampsOK'
    BY <1>0, <2>3, <2>4 DEF IInv, StampsOK
  <2>6. ASSUME NEW s \in Nat, s <= edits, NEW k \in Inodes, data'[k].stamp = s
        PROVE  data'[k] = data[k]
    BY <2>3, <2>4, <2>6
  <2>7. \A s \in Nat : s <= edits /\ Kept(s) => Kept(s)'
    BY <1>0, <2>6 DEF Kept
  <2>8. RegistryOK'
    <3>1. \A p \in Paths : cache[p].stamp \in Nat /\ rows[p].stamp \in Nat
      BY DEF IInv, TypeOK, Records
    <3> QED
      BY <1>0, <2>4, <2>7, <3>1 DEF IInv, RegistryOK, KnownHash
  <2>9. TasksOK'
    <3>1. SUFFICES ASSUME NEW p \in Paths PROVE TaskOK(job[p])'
      BY <1>0 DEF TasksOK
    <3>2. TaskOK(job[p]) /\ job[p].stamp \in Nat
      BY DEF IInv, TypeOK, TasksOK, Jobs
    <3> QED
      BY <1>0, <2>4, <2>6, <2>7, <3>2 DEF TaskOK, KnownHash
  <2> QED
    BY <1>0, <2>2, <2>5, <2>8, <2>9 DEF IInv, LinksNotFollowed
<1> QED
  BY <1>1, <1>2

\* So do the four things another program can do.
LEMMA EditsKeep ==
    ASSUME IInv, NEW p \in Paths,
           \/ \E c \in Contents \ {Outside} : Place(p, c) \/ Rewrite(p, c)
           \/ Link(p) \/ Unlink(p)
    PROVE  IInv'
<1>0. edits \in 0..MaxEdits /\ dir \in [Paths -> 0..(MaxEdits + 1)]
  BY DEF IInv, TypeOK
<1>1. Edit /\ edits' \in Inodes
  BY <1>0 DEF Place, Rewrite, Link, Unlink, Edit, Inodes
<1>2. dir' \in [Paths -> 0..(MaxEdits + 1)]
  BY <1>0, <1>1 DEF Place, Rewrite, Link, Unlink, Inodes, Linked, Absent
<1>3. data' = data \/ \E i \in Inodes, c \in Contents \ {Outside} :
          data' = [data EXCEPT ![i] = [content |-> c, stamp |-> edits']]
  <2>1. ASSUME NEW c \in Contents \ {Outside}, Place(p, c) PROVE <1>3
    BY <1>1, <2>1 DEF Place
  <2>2. ASSUME NEW c \in Contents \ {Outside}, Rewrite(p, c) PROVE <1>3
    BY <2>2 DEF Rewrite, Regular
  <2> QED
    BY <2>1, <2>2 DEF Link, Unlink
<1> QED
  BY <1>1, <1>2, <1>3, EditKeeps

----------------------------------------------------------------------------
\* A step that leaves the files, the registry, the archive and the tasks alone.
LEMMA QuietKeeps ==
    ASSUME IInv, UNCHANGED <<fsVars, job, cache, rows, archived>>, TypeOK'
    PROVE  IInv'
BY DEF IInv, fsVars, StampsOK, RegistryOK, TasksOK, TaskOK, LinksNotFollowed, Kept, KnownHash

\* The scanner forgets, and forgetting is safe.
LEMMA ScanKeeps ==
    ASSUME IInv, Scan
    PROVE  IInv'
<1> USE DEF fsVars, history
<1>1. CASE ScanStart
  BY <1>1, QuietKeeps DEF ScanStart, NoScan, IInv, TypeOK
<1>2. CASE ScanCollect
  BY <1>2, QuietKeeps DEF ScanCollect, IInv, TypeOK
<1>3. CASE ScanQueue
  BY <1>3, QuietKeeps DEF ScanQueue, NoScan, IInv, TypeOK
<1>4. ASSUME NEW p \in Paths, ScanEntry(p) PROVE IInv'
  BY <1>4, QuietKeeps DEF ScanEntry, IInv, TypeOK
<1>5. ASSUME NEW p \in Paths, ForgetCache(p) PROVE IInv'
  <2>0. NoRecord \in Records
    BY NoneTypes
  <2>1. TypeOK'
    BY <1>5, <2>0 DEF ForgetCache, IInv, TypeOK
  <2>2. RegistryOK'
    BY <1>5 DEF ForgetCache, NoRecord, IInv, TypeOK, StampsOK, RegistryOK, Kept, KnownHash
  <2> QED
    BY <1>5, <2>1, <2>2 DEF ForgetCache, IInv, StampsOK, TasksOK, TaskOK, LinksNotFollowed,
                            Kept, KnownHash
<1>6. ASSUME NEW p \in Paths, ForgetRow(p) PROVE IInv'
  <2>0. NoRecord \in Records
    BY NoneTypes
  <2>1. TypeOK'
    BY <1>6, <2>0 DEF ForgetRow, IInv, TypeOK
  <2>2. RegistryOK'
    BY <1>6 DEF ForgetRow, NoRecord, IInv, TypeOK, StampsOK, RegistryOK, Kept, KnownHash
  <2> QED
    BY <1>6, <2>1, <2>2 DEF ForgetRow, IInv, StampsOK, TasksOK, TaskOK, LinksNotFollowed,
                            Kept, KnownHash
<1> QED
  BY <1>1, <1>2, <1>3, <1>4, <1>5, <1>6 DEF Scan

\* The drainer gives every new task the empty record; a restart ends them all.
LEMMA DrainRestartKeep ==
    ASSUME IInv, Drain \/ Restart
    PROVE  IInv'
<1> USE DEF fsVars, history
<1>1. CASE Drain
  <2>1. [NoJob EXCEPT !.at = "spawned"] \in Jobs /\ TaskOK([NoJob EXCEPT !.at = "spawned"])
    BY DEF NoJob, Jobs, Absent, TaskOK
  <2>2. TypeOK'
    BY <1>1, <2>1 DEF Drain, IInv, TypeOK
  <2>3. \A j : TaskOK(j) => TaskOK(j)'
    BY <1>1 DEF Drain, TaskOK, Kept, KnownHash
  <2>4. TasksOK'
    BY <1>1, <2>1, <2>3 DEF Drain, IInv, TasksOK
  <2> QED
    BY <1>1, <2>2, <2>4 DEF Drain, IInv, StampsOK, RegistryOK, LinksNotFollowed, Kept, KnownHash
<1>2. CASE Restart
  <2>1. TypeOK'
    BY <1>2, NoneTypes DEF Restart, NoScan, IInv, TypeOK
  <2>2. TasksOK'
    BY <1>2, NoneTypes DEF Restart, TasksOK, TaskOK, NoJob
  <2> QED
    BY <1>2, <2>1, <2>2 DEF Restart, IInv, StampsOK, RegistryOK, LinksNotFollowed, Kept, KnownHash
<1> QED
  BY <1>1, <1>2

\* A task that goes on with a right record, while the registry and the archive stay.
LEMMA StepKeeps ==
    ASSUME IInv, NEW p \in Paths, NEW next \in Jobs, TaskOK(next), Step(p, next),
           UNCHANGED <<data, edits, cache, rows, archived>>, TypeOK'
    PROVE  IInv'
<1>1. \A j : TaskOK(j) => TaskOK(j)'
  BY DEF TaskOK, Kept, KnownHash
<1>2. TasksOK'
  BY <1>1 DEF IInv, TypeOK, TasksOK, Step
<1> QED
  BY <1>2 DEF IInv, StampsOK, RegistryOK, LinksNotFollowed, Kept, KnownHash

LEMMA ScreensKeep ==
    ASSUME IInv, NEW p \in Paths, Begin(p) \/ Settle(p) \/ Unreadable(p)
    PROVE  IInv'
<1> USE DEF fsVars, history
<1>0. job[p] \in Jobs /\ TaskOK(job[p]) /\ dir[p] \in 0..(MaxEdits + 1)
  BY DEF IInv, TypeOK, TasksOK
<1>1. CASE End(p) /\ (Begin(p) \/ Settle(p) \/ Unreadable(p))
  <2>1. TypeOK'
    BY <1>1, NoneTypes DEF Begin, Settle, Unreadable, End, Step, IInv, TypeOK
  <2> QED
    BY <1>1, <2>1, NoneTypes, StepKeeps DEF Begin, Settle, Unreadable, End
<1>2. CASE Begin(p) /\ Regular(p)
  <2> DEFINE next == [job[p] EXCEPT !.at = "settle", !.stamp = StampOf(p)]
  <2>1. Step(p, next)
    BY <1>2 DEF Begin
  <2>2. StampOf(p) \in 0..MaxEdits
    BY <1>2 DEF Regular, StampOf, IInv, TypeOK
  <2>3. next \in Jobs /\ TaskOK(next)
    BY <1>0, <2>2 DEF Jobs, TaskOK
  <2>4. TypeOK'
    BY <1>2, <2>1, <2>3 DEF Begin, Step, IInv, TypeOK
  <2> QED
    BY <1>2, <2>1, <2>3, <2>4, StepKeeps DEF Begin
<1>3. CASE Settle(p) /\ Regular(p) /\ ~End(p)
  <2> DEFINE next == [job[p] EXCEPT !.at = "open", !.before = dir[p]]
  <2>1. Step(p, next)
    BY <1>3 DEF Settle
  <2>2. dir[p] \in Inodes /\ dir[p] \in 0..MaxEdits
    BY <1>3 DEF Regular, Inodes
  <2>3. next \in Jobs /\ TaskOK(next)
    BY <1>0, <2>2 DEF Jobs, TaskOK
  <2>4. TypeOK'
    BY <1>3, <2>1, <2>3 DEF Settle, Step, IInv, TypeOK
  <2> QED
    BY <1>3, <2>1, <2>3, <2>4, StepKeeps DEF Settle
<1> QED
  BY <1>1, <1>2, <1>3 DEF Begin, Settle, Unreadable

\* The stamp of the open file is of this inode alone.
LEMMA OpenKeeps ==
    ASSUME IInv, NEW p \in Paths, Open(p)
    PROVE  IInv'
<1> USE DEF fsVars, history
<1> DEFINE empty == data[dir[p]].content = Empty
           next == [job[p] EXCEPT !.at = IF empty THEN "put" ELSE "read",
                                  !.stamp = StampOf(p),
                                  !.known = IF empty THEN NoHash ELSE cache[p].hash]
<1>0. /\ job[p] \in Jobs /\ TaskOK(job[p]) /\ job[p].at = "open"
      /\ job[p].before \in Inodes
  BY DEF Open, IInv, TypeOK, TasksOK, TaskOK
<1>1. CASE End(p)
  <2>1. TypeOK'
    BY <1>1, NoneTypes DEF Open, End, Step, IInv, TypeOK
  <2> QED
    BY <1>1, <2>1, NoneTypes, StepKeeps DEF Open, End
<1>2. CASE ~End(p)
  <2>1. Step(p, next) /\ dir[p] = job[p].before
    BY <1>2 DEF Open
  <2>2. /\ dir[p] \in Inodes /\ StampOf(p) \in 0..MaxEdits /\ StampOf(p) <= edits
        /\ data[dir[p]].stamp = StampOf(p)
        /\ cache[p].hash \in Contents \cup {NoHash} /\ KnownHash(cache[p].hash)
    BY <1>0, <2>1 DEF StampOf, IInv, TypeOK, StampsOK, RegistryOK, Records
  <2>3. next \in Jobs
    BY <1>0, <2>2 DEF Jobs
  <2>4. \A i \in Inodes : data[i].stamp = StampOf(p) => i = dir[p] \/ data[i].content = Empty
    BY <2>2 DEF IInv, StampsOK
  <2>5. TaskOK(next)
    <3>1. CASE empty
      <4>1. Kept(StampOf(p))
        BY <2>4, <3>1 DEF Kept
      <4>2. /\ next.at = "put" /\ next.stamp = StampOf(p) /\ next.known = NoHash
        BY <1>0, <3>1 DEF Jobs
      <4> QED
        BY <4>1, <4>2, <2>2 DEF TaskOK, KnownHash
    <3>2. CASE ~empty
      <4>1. /\ next.at = "read" /\ next.stamp = StampOf(p) /\ next.known = cache[p].hash
            /\ next.before = dir[p]
        BY <1>0, <2>1, <3>2 DEF Jobs
      <4> QED
        BY <4>1, <2>2, <2>4 DEF TaskOK
    <3> QED
      BY <3>1, <3>2
  <2>6. TypeOK'
    BY <1>2, <2>1, <2>3 DEF Open, Step, IInv, TypeOK
  <2> QED
    BY <2>1, <2>3, <2>5, <2>6, StepKeeps DEF Open
<1> QED
  BY <1>1, <1>2

\* The bytes of the open file are those of the stamp, if any file still has it.
LEMMA ReadKeeps ==
    ASSUME IInv, NEW p \in Paths, Read(p)
    PROVE  IInv'
<1> USE DEF fsVars, history
<1> DEFINE read == data[job[p].before].content
           next == [job[p] EXCEPT !.at = IF read = job[p].known THEN "put" ELSE "send",
                                  !.read = read]
<1>1. /\ job[p] \in Jobs /\ TaskOK(job[p]) /\ job[p].at = "read"
      /\ job[p].before \in Inodes /\ job[p].stamp <= edits /\ KnownHash(job[p].known)
  BY DEF Read, IInv, TypeOK, TasksOK, TaskOK
<1>2. read \in Contents /\ read # Outside
  BY <1>1 DEF IInv, TypeOK, StampsOK
<1>3. Step(p, next) /\ next \in Jobs
  BY <1>1, <1>2 DEF Read, Jobs
<1>4. \A i \in Inodes : data[i].stamp = job[p].stamp => data[i].content \in {read, Empty}
  BY <1>1 DEF TaskOK
<1>5. TaskOK(next)
  <2>1. next.stamp = job[p].stamp /\ next.known = job[p].known /\ next.read = read
    BY <1>1 DEF Jobs
  <2>2. CASE read = job[p].known
    <3>1. next.at = "put" /\ Kept(next.stamp)
      BY <1>1, <1>2, <1>4, <2>1, <2>2 DEF Jobs, Kept, KnownHash
    <3> QED
      BY <3>1, <2>1, <1>1 DEF TaskOK
  <2>3. CASE read # job[p].known
    <3>1. next.at = "send"
      BY <1>1, <2>3 DEF Jobs
    <3> QED
      BY <3>1, <2>1, <1>1, <1>2, <1>4 DEF TaskOK
  <2> QED
    BY <2>2, <2>3
<1>6. TypeOK'
  BY <1>3 DEF Read, Step, IInv, TypeOK
<1> QED
  BY <1>3, <1>5, <1>6, StepKeeps DEF Read

\* The archive only grows, and what is sent was read from a file of the directory.
LEMMA SendKeeps ==
    ASSUME IInv, NEW p \in Paths, Send(p)
    PROVE  IInv'
<1> USE DEF fsVars
<1> DEFINE c == job[p].read
           next == [job[p] EXCEPT !.at = IF delete_source THEN "remove" ELSE "put", !.known = c]
<1>1. /\ job[p] \in Jobs /\ TaskOK(job[p]) /\ job[p].at = "send" /\ c \in Contents
      /\ c # Outside /\ job[p].stamp \in 0..MaxEdits /\ job[p].stamp <= edits
      /\ \A i \in Inodes : data[i].stamp = job[p].stamp => data[i].content \in {c, Empty}
  BY DEF Send, IInv, TypeOK, TasksOK, TaskOK, Jobs
<1>2. archived \subseteq archived' /\ archived' \subseteq archived \cup {c}
  BY DEF Send
<1>3. UNCHANGED <<dir, data, edits, pending, scan, cache, rows, delete_source, crashes>>
  BY DEF Send
<1>4. /\ \A s : Kept(s) => Kept(s)'
      /\ \A h : KnownHash(h) => KnownHash(h)'
      /\ \A j : TaskOK(j) => TaskOK(j)'
  BY <1>2, <1>3 DEF Kept, KnownHash, TaskOK
<1>5. StampsOK' /\ RegistryOK' /\ LinksNotFollowed'
  BY <1>1, <1>2, <1>3, <1>4 DEF IInv, StampsOK, RegistryOK, LinksNotFollowed
<1>6. CASE Step(p, next) /\ archived' = archived \cup {c} /\ faults' = faults
           /\ sent' = [sent EXCEPT ![p] = @ \cup {job[p].stamp}]
           /\ resent' = (resent \/ job[p].stamp \in sent[p])
  <2>1. next \in Jobs /\ next.stamp = job[p].stamp /\ next.known = c
        /\ next.at \in {"remove", "put"}
    BY <1>1 DEF Jobs
  <2>2. TaskOK(job[p])'
    <3>1. job'[p] = next
      BY <1>6 DEF IInv, TypeOK, Step
    <3> QED
      BY <1>1, <1>3, <1>6, <2>1, <3>1 DEF TaskOK, Kept, KnownHash
  <2>3. TasksOK'
    <3>1. \A q \in Paths \ {p} : job'[q] = job[q]
      BY <1>6 DEF IInv, TypeOK, Step
    <3> QED
      BY <1>4, <2>2, <3>1 DEF IInv, TasksOK
  <2>4. job' \in [Paths -> Jobs] /\ archived' \subseteq Contents
        /\ sent' \in [Paths -> SUBSET (0..MaxEdits)]
    BY <1>1, <1>6, <2>1 DEF IInv, TypeOK, Step
  <2>5. resent' \in BOOLEAN
    BY <1>6
  <2>6. TypeOK'
    BY <1>3, <1>6, <2>4, <2>5 DEF IInv, TypeOK
  <2> QED
    BY <1>5, <2>3, <2>6 DEF IInv
<1>7. CASE End(p) /\ faults < MaxFaults /\ faults' = faults + 1 /\ UNCHANGED <<sent, resent>>
  <2>1. TasksOK'
    BY <1>4, <1>7, NoneTypes DEF IInv, TypeOK, TasksOK, Step, End
  <2>2. TypeOK'
    BY <1>1, <1>2, <1>3, <1>7, NoneTypes DEF IInv, TypeOK, Step, End
  <2> QED
    BY <1>5, <2>1, <2>2 DEF IInv
<1> QED
  BY <1>6, <1>7 DEF Send

\* The last steps record what was sent, or forget what was removed.
LEMMA SettleKeeps ==
    ASSUME IInv, NEW p \in Paths, Remove(p) \/ Put(p) \/ Forget(p) \/ WriteRow(p)
    PROVE  IInv'
<1> USE DEF fsVars, history
<1>0. /\ job[p] \in Jobs /\ TaskOK(job[p])
      /\ \A next \in Jobs : Step(p, next) => job' \in [Paths -> Jobs]
  BY DEF IInv, TypeOK, TasksOK, Step
<1>1. ASSUME NEW next \in Jobs, TaskOK(next), Step(p, next),
             UNCHANGED <<data, edits, archived>>
      PROVE  TasksOK'
  <2>1. \A j : TaskOK(j) => TaskOK(j)'
    BY <1>1 DEF TaskOK, Kept, KnownHash
  <2> QED
    BY <1>1, <2>1 DEF IInv, TypeOK, TasksOK, Step
<1>2. CASE Remove(p)
  <2>1. PICK at \in {"forget", "put"} : Step(p, [job[p] EXCEPT !.at = at])
    BY <1>2 DEF Remove
  <2>2. [job[p] EXCEPT !.at = at] \in Jobs /\ TaskOK([job[p] EXCEPT !.at = at])
    BY <1>0, <1>2 DEF Remove, Jobs, TaskOK
  <2>3. dir' \in [Paths -> 0..(MaxEdits + 1)] /\ faults' \in 0..MaxFaults
    BY <1>2 DEF Remove, IInv, TypeOK, Absent
  <2>4. TypeOK'
    BY <1>0, <1>2, <2>1, <2>2, <2>3 DEF Remove, IInv, TypeOK
  <2> QED
    BY <1>2, <2>1, <2>2, <2>4, StepKeeps DEF Remove
<1>3. CASE Put(p)
  <2> DEFINE next == [job[p] EXCEPT !.at = "upsert"]
  <2>1. next \in Jobs /\ TaskOK(next) /\ Record(p) \in Records
    BY <1>0, <1>3 DEF Put, Jobs, TaskOK, Record, Records
  <2>2. TypeOK'
    BY <1>0, <1>3, <2>1 DEF Put, IInv, TypeOK
  <2>3. /\ Record(p).stamp <= edits /\ Kept(Record(p).stamp) /\ KnownHash(Record(p).hash)
    BY <1>0, <1>3 DEF Put, TaskOK, Record
  <2>4. RegistryOK'
    BY <1>3, <2>3 DEF Put, IInv, TypeOK, RegistryOK, Kept, KnownHash
  <2> QED
    BY <1>1, <1>3, <2>1, <2>2, <2>4 DEF Put, IInv, StampsOK, LinksNotFollowed
<1>4. CASE Forget(p)
  <2> DEFINE next == [job[p] EXCEPT !.at = "delete"]
  <2>1. next \in Jobs /\ TaskOK(next)
    BY <1>0, <1>4 DEF Forget, Jobs, TaskOK
  <2>2. TypeOK'
    BY <1>0, <1>4, <2>1, NoneTypes DEF Forget, IInv, TypeOK
  <2>3. RegistryOK'
    BY <1>4 DEF Forget, NoRecord, IInv, TypeOK, StampsOK, RegistryOK, Kept, KnownHash
  <2> QED
    BY <1>1, <1>4, <2>1, <2>2, <2>3 DEF Forget, IInv, StampsOK, LinksNotFollowed
<1>5. CASE WriteRow(p)
  <2>0. job[p].at = "upsert" => Record(p) \in Records /\ Record(p).stamp <= edits
                               /\ Kept(Record(p).stamp) /\ KnownHash(Record(p).hash)
    BY <1>0 DEF Jobs, TaskOK, Record, Records
  <2>1. rows' \in [Paths -> Records] /\ faults' \in 0..MaxFaults
    BY <1>5, <2>0, NoneTypes DEF WriteRow, IInv, TypeOK
  <2>2. TypeOK'
    BY <1>0, <1>5, <2>1, NoneTypes DEF WriteRow, End, IInv, TypeOK
  <2>3. RegistryOK'
    BY <1>5, <2>0 DEF WriteRow, NoRecord, IInv, TypeOK, StampsOK, RegistryOK, Kept, KnownHash
  <2> QED
    BY <1>1, <1>5, <2>2, <2>3, NoneTypes DEF WriteRow, End, IInv, StampsOK, LinksNotFollowed
<1> QED
  BY <1>2, <1>3, <1>4, <1>5

----------------------------------------------------------------------------
LEMMA StepIInv == IInv /\ [Next]_vars => IInv'
<1> SUFFICES ASSUME IInv, [Next]_vars PROVE IInv'
  OBVIOUS
<1>1. CASE UNCHANGED vars
  BY <1>1 DEF vars, fsVars, history, IInv, TypeOK, StampsOK, RegistryOK, TasksOK, TaskOK,
              LinksNotFollowed, Kept, KnownHash
<1>2. ASSUME NEW p \in Paths, Notify(p) PROVE IInv'
  BY <1>2, QuietKeeps DEF Notify, fsVars, history, IInv, TypeOK
<1>3. ASSUME NEW p \in Paths, Ingest(p) PROVE IInv'
  BY <1>3, ScreensKeep, OpenKeeps, ReadKeeps, SendKeeps, SettleKeeps DEF Ingest
<1> QED
  BY <1>1, <1>2, <1>3, EditsKeep, ScanKeeps, DrainRestartKeep DEF Next

LEMMA Invariant == Spec => []IInv
BY InitIInv, StepIInv, PTL DEF Spec

\* The variables of the ingestion keep their types.
THEOREM TypeCorrect == Spec => []TypeOK
<1>1. IInv => TypeOK
  BY DEF IInv
<1> QED
  BY <1>1, Invariant, PTL

\* A file with the recorded stamp is archived (watcher.rs: ingest skips it).
THEOREM SkippedAreArchived == Spec => []SkippedIsArchived
<1>1. IInv => SkippedIsArchived
  BY DEF IInv, RegistryOK, Kept, SkippedIsArchived, Regular, StampOf
<1> QED
  BY <1>1, Invariant, PTL

\* No file outside the directory is archived (watcher.rs: open_verified).
THEOREM LinksAreNotFollowed == Spec => []LinksNotFollowed
<1>1. IInv => LinksNotFollowed
  BY DEF IInv
<1> QED
  BY <1>1, Invariant, PTL

\* The registry never runs ahead of the archive (watcher.rs: put comes after compress).
THEOREM RecordedAreArchived == Spec => []RecordedIsArchived
<1>1. IInv => RecordedIsArchived
  BY DEF IInv, RegistryOK, KnownHash, RecordedIsArchived
<1> QED
  BY <1>1, Invariant, PTL

=============================================================================
