------------------------------- MODULE Watcher -------------------------------
(***************************************************************************)
(* Ingestion by directory: the notify thread, the scanner, the drainer and  *)
(* the ingest tasks of src/src/watcher.rs, with the registry of what was    *)
(* already seen (a cache, and the table watch_seen behind it), beside the   *)
(* programs that write the watched directory and a process that may be      *)
(* killed.  One action per system call, statement or step between awaits.   *)
(*                                                                         *)
(* A stamp (size and mtime) is the number of the edit that gave the file    *)
(* its bytes: two edits never share one (a limit docs/uso.md states).       *)
(* Sending the content to the archive is one step here; ObjectStore has it. *)
(***************************************************************************)
EXTENDS Naturals, FiniteSets

CONSTANTS
    Paths,              \* the allowed names of the directory
    Contents,
    Empty,              \* the content of a file of no bytes
    Outside,            \* the content of a file a symbolic link leads to
    NoHash,             \* a record of an empty file, or no record
    DeleteSource,       \* the values SYNTRA_WATCH_DELETE_SOURCE may have at a start
    IngestConcurrency,
    MaxEdits,           \* how often other programs touch the directory
    MaxCrashes,         \* how often the process is killed and restarted
    MaxFaults           \* how many statements or archivings fail

ASSUME ContentsAssumption ==
    /\ Empty \in Contents /\ Outside \in Contents
    /\ NoHash \notin Contents /\ Empty # Outside
ASSUME NumbersAssumption ==
    /\ IngestConcurrency \in Nat \ {0} /\ MaxEdits \in Nat
    /\ MaxCrashes \in Nat /\ MaxFaults \in Nat
ASSUME DeleteSourceAssumption == DeleteSource \subseteq BOOLEAN

Absent == 0                  \* no entry under a name
Inodes == 1..MaxEdits
Linked == MaxEdits + 1       \* a symbolic link, by the inode it leads to

VARIABLES
    dir,        \* what each name of the directory leads to
    data,       \* the content and the stamp of each inode
    edits,      \* the edits made so far
    pending,    \* Pending: the names to look at
    job,        \* the ingest task of each name; its name is in inflight until it ends
    scan,       \* the scanner's local variables
    cache,      \* SeenStore.cache
    rows,       \* the table watch_seen
    archived,   \* the contents in the archive
    sent,       \* history: the versions of each file sent to the archive
    resent,     \* history: a version was sent again
    delete_source,   \* watch_delete_source of the running process
    crashes, faults

fsVars == <<dir, data, edits>>
history == <<archived, sent, resent>>
vars == <<fsVars, pending, job, scan, cache, rows, history, delete_source, crashes, faults>>

Regular(p) == dir[p] \in Inodes
StampOf(p) == data[dir[p]].stamp

NoRecord == [stamp |-> 0, hash |-> NoHash]
NoJob == [at |-> "none", before |-> Absent, stamp |-> 0, known |-> NoHash, read |-> Empty]
NoScan == [at |-> "idle", todo |-> {}, present |-> {}, found |-> {}, gone |-> {}, row |-> {}]

Inflight == {p \in Paths : job[p].at # "none"}
Ingesting == {p \in Inflight : job[p].at # "spawned"}

Init ==
    /\ dir = [p \in Paths |-> Absent]
    /\ data = [i \in Inodes \cup {Linked} |->
                  [content |-> IF i = Linked THEN Outside ELSE Empty, stamp |-> 0]]
    /\ edits = 0
    /\ pending = {}
    /\ job = [p \in Paths |-> NoJob]
    /\ scan = NoScan
    /\ cache = [p \in Paths |-> NoRecord]
    /\ rows = [p \in Paths |-> NoRecord]
    /\ archived = {}
    /\ sent = [p \in Paths |-> {}]
    /\ resent = FALSE
    /\ delete_source \in DeleteSource
    /\ crashes = 0
    /\ faults = 0

----------------------------------------------------------------------------
(***************************************************************************)
(* Other programs: a new file under a name (or over an old one), new bytes  *)
(* or a new mtime in place, a symbolic link, a removal.                     *)
(***************************************************************************)
Edit ==
    /\ edits < MaxEdits
    /\ edits' = edits + 1
    /\ UNCHANGED <<pending, job, scan, cache, rows, history, delete_source, crashes, faults>>

Place(p, c) ==
    /\ Edit
    /\ dir' = [dir EXCEPT ![p] = edits']
    /\ data' = [data EXCEPT ![edits'] = [content |-> c, stamp |-> edits']]

Rewrite(p, c) ==
    /\ Regular(p)
    /\ Edit
    /\ data' = [data EXCEPT ![dir[p]] = [content |-> c, stamp |-> edits']]
    /\ UNCHANGED dir

Link(p) == Edit /\ dir' = [dir EXCEPT ![p] = Linked] /\ UNCHANGED data

Unlink(p) ==
    /\ dir[p] # Absent
    /\ Edit
    /\ dir' = [dir EXCEPT ![p] = Absent]
    /\ UNCHANGED data

----------------------------------------------------------------------------
(***************************************************************************)
(* The notify thread, whose events come early, late, more than once (the    *)
(* engine's own opening of a file is one) or not at all.                    *)
(***************************************************************************)
Notify(p) ==
    /\ Regular(p)
    /\ pending' = pending \cup {p}
    /\ UNCHANGED <<fsVars, job, scan, cache, rows, history, delete_source, crashes, faults>>

(***************************************************************************)
(* The scanner: it lists the directory, forgets the names it did not meet,  *)
(* and queues those whose stamp is not the recorded one.                    *)
(***************************************************************************)
ScanStart ==
    /\ scan.at = "idle"
    /\ scan' = [NoScan EXCEPT !.at = "listing", !.todo = Paths]
    /\ UNCHANGED <<fsVars, pending, job, cache, rows, history, delete_source, crashes, faults>>

\* Bug: a recorded name is skipped whatever its stamp.
ScanByName(p) ==
    /\ scan.at = "listing" /\ p \in scan.todo
    /\ LET isNew == p \notin Inflight /\ cache[p] = NoRecord
       IN  scan' = [scan EXCEPT
              !.todo = @ \ {p},
              !.present = IF Regular(p) THEN @ \cup {p} ELSE @,
              !.found = IF Regular(p) /\ isNew THEN @ \cup {p} ELSE @]
    /\ UNCHANGED <<fsVars, pending, job, cache, rows, history, delete_source, crashes, faults>>

ScanEntry(p) ==
    /\ scan.at = "listing" /\ p \in scan.todo
    /\ LET isNew == p \notin Inflight /\ cache[p].stamp # StampOf(p)
       IN  scan' = [scan EXCEPT
              !.todo = @ \ {p},
              !.present = IF Regular(p) THEN @ \cup {p} ELSE @,
              !.found = IF Regular(p) /\ isNew THEN @ \cup {p} ELSE @]
    /\ UNCHANGED <<fsVars, pending, job, cache, rows, history, delete_source, crashes, faults>>

\* retain_present collects the names to forget before it forgets any.
ScanCollect ==
    /\ scan.at = "listing" /\ scan.todo = {}
    /\ scan' = [scan EXCEPT !.at = "forgetting",
                            !.gone = {p \in Paths \ scan.present : cache[p] # NoRecord}]
    /\ UNCHANGED <<fsVars, pending, job, cache, rows, history, delete_source, crashes, faults>>

ForgetCache(p) ==
    /\ scan.at = "forgetting" /\ scan.row = {} /\ p \in scan.gone
    /\ scan' = [scan EXCEPT !.gone = @ \ {p}, !.row = {p}]
    /\ cache' = [cache EXCEPT ![p] = NoRecord]
    /\ UNCHANGED <<fsVars, pending, job, rows, history, delete_source, crashes, faults>>

ForgetRow(p) ==
    /\ p \in scan.row
    /\ scan' = [scan EXCEPT !.row = {}]
    /\ \/ rows' = [rows EXCEPT ![p] = NoRecord] /\ UNCHANGED faults
       \/ faults < MaxFaults /\ faults' = faults + 1 /\ UNCHANGED rows
    /\ UNCHANGED <<fsVars, pending, job, cache, history, delete_source, crashes>>

ScanQueue ==
    /\ scan.at = "forgetting" /\ scan.gone = {} /\ scan.row = {}
    /\ pending' = pending \cup scan.found
    /\ scan' = NoScan
    /\ UNCHANGED <<fsVars, job, cache, rows, history, delete_source, crashes, faults>>

(***************************************************************************)
(* The drainer: every pending name gets a task, unless it has one.          *)
(***************************************************************************)
Drain ==
    /\ pending # {}
    /\ pending' = {}
    /\ job' = [p \in Paths |-> IF p \in pending \ Inflight
                               THEN [NoJob EXCEPT !.at = "spawned"] ELSE job[p]]
    /\ UNCHANGED <<fsVars, scan, cache, rows, history, delete_source, crashes, faults>>

----------------------------------------------------------------------------
(***************************************************************************)
(* ingest.                                                                 *)
(***************************************************************************)
Step(p, next) == job' = [job EXCEPT ![p] = next]
End(p) == Step(p, NoJob)

\* A permit of the gate, and the first screen.
Begin(p) ==
    /\ job[p].at = "spawned"
    /\ Cardinality(Ingesting) < IngestConcurrency
    /\ IF Regular(p)
       THEN Step(p, [job[p] EXCEPT !.at = "settle", !.stamp = StampOf(p)])
       ELSE End(p)
    /\ UNCHANGED <<fsVars, pending, scan, cache, rows, history, delete_source, crashes, faults>>

\* wait_until_stable, which gives up only on a file that changed meanwhile; then the
\* second screen.
Settle(p) ==
    /\ job[p].at = "settle"
    /\ \/ Regular(p) /\ Step(p, [job[p] EXCEPT !.at = "open", !.before = dir[p]])
       \/ (Regular(p) => StampOf(p) # job[p].stamp) /\ End(p)
    /\ UNCHANGED <<fsVars, pending, scan, cache, rows, history, delete_source, crashes, faults>>

\* Bug: the file opened is not compared with the one screened.
OpenUnverified(p) ==
    /\ job[p].at = "open"
    /\ IF dir[p] = Absent
       THEN End(p)
       ELSE Step(p, [job[p] EXCEPT !.at = "read", !.before = dir[p], !.stamp = StampOf(p),
                                   !.known = cache[p].hash])
    /\ UNCHANGED <<fsVars, pending, scan, cache, rows, history, delete_source, crashes, faults>>

\* open_verified, the stamp of the open file, and what the registry says of it.
Open(p) ==
    /\ job[p].at = "open"
    /\ IF dir[p] # job[p].before \/ cache[p].stamp = StampOf(p)
       THEN End(p)
       ELSE Step(p, [job[p] EXCEPT
                        !.at = IF data[dir[p]].content = Empty THEN "put" ELSE "read",
                        !.stamp = StampOf(p),
                        !.known = IF data[dir[p]].content = Empty THEN NoHash
                                                                  ELSE cache[p].hash])
    /\ UNCHANGED <<fsVars, pending, scan, cache, rows, history, delete_source, crashes, faults>>

\* The bytes of the open file, and their hash against the recorded one.
Read(p) ==
    /\ job[p].at = "read"
    /\ LET read == data[job[p].before].content
       IN  Step(p, [job[p] EXCEPT !.at = IF read = job[p].known THEN "put" ELSE "send",
                                  !.read = read])
    /\ UNCHANGED <<fsVars, pending, scan, cache, rows, history, delete_source, crashes, faults>>

\* An open or a read that fails: the task ends, and the next scan queues the name again.
Unreadable(p) ==
    /\ job[p].at \in {"open", "read"}
    /\ faults < MaxFaults
    /\ faults' = faults + 1
    /\ End(p)
    /\ UNCHANGED <<fsVars, pending, scan, cache, rows, history, delete_source, crashes>>

\* Bug: the file is recorded although its archiving failed.
SendUnconfirmed(p) ==
    /\ job[p].at = "send"
    /\ \/ archived' = archived \cup {job[p].read} /\ UNCHANGED faults
       \/ faults < MaxFaults /\ faults' = faults + 1 /\ UNCHANGED archived
    /\ Step(p, [job[p] EXCEPT !.at = "put", !.known = job[p].read])
    /\ UNCHANGED <<fsVars, pending, scan, cache, rows, sent, resent, delete_source, crashes>>

\* service::compress in the default tenant.  It may fail, with the content archived or not.
Send(p) ==
    /\ job[p].at = "send"
    /\ \/ /\ archived' = archived \cup {job[p].read}
          /\ sent' = [sent EXCEPT ![p] = @ \cup {job[p].stamp}]
          /\ resent' = (resent \/ job[p].stamp \in sent[p])
          /\ Step(p, [job[p] EXCEPT !.at = IF delete_source THEN "remove" ELSE "put",
                                    !.known = job[p].read])
          /\ UNCHANGED faults
       \/ /\ faults < MaxFaults
          /\ faults' = faults + 1
          /\ archived' \in {archived, archived \cup {job[p].read}}
          /\ End(p)
          /\ UNCHANGED <<sent, resent>>
    /\ UNCHANGED <<fsVars, pending, scan, cache, rows, delete_source, crashes>>

\* remove_file, by name; a name that is gone and any other error leave a record instead.
Remove(p) ==
    /\ job[p].at = "remove"
    /\ \/ /\ dir[p] # Absent
          /\ dir' = [dir EXCEPT ![p] = Absent]
          /\ Step(p, [job[p] EXCEPT !.at = "forget"])
          /\ UNCHANGED faults
       \/ /\ faults' = IF dir[p] = Absent THEN faults ELSE faults + 1
          /\ faults' <= MaxFaults
          /\ Step(p, [job[p] EXCEPT !.at = "put"])
          /\ UNCHANGED dir
    /\ UNCHANGED <<data, edits, pending, scan, cache, rows, history, delete_source, crashes>>

\* Bug: the recorded stamp is the one the file has by now.
RecordCurrent(p) ==
    [stamp |-> IF Regular(p) THEN StampOf(p) ELSE job[p].stamp, hash |-> job[p].known]

Record(p) == [stamp |-> job[p].stamp, hash |-> job[p].known]

\* SeenStore::put and forget: the cache first, then the table, whose error is logged.
Put(p) ==
    /\ job[p].at = "put"
    /\ cache' = [cache EXCEPT ![p] = Record(p)]
    /\ Step(p, [job[p] EXCEPT !.at = "upsert"])
    /\ UNCHANGED <<fsVars, pending, scan, rows, history, delete_source, crashes, faults>>

Forget(p) ==
    /\ job[p].at = "forget"
    /\ cache' = [cache EXCEPT ![p] = NoRecord]
    /\ Step(p, [job[p] EXCEPT !.at = "delete"])
    /\ UNCHANGED <<fsVars, pending, scan, rows, history, delete_source, crashes, faults>>

WriteRow(p) ==
    /\ job[p].at \in {"upsert", "delete"}
    /\ \/ /\ rows' = [rows EXCEPT ![p] = IF job[p].at = "upsert" THEN Record(p) ELSE NoRecord]
          /\ UNCHANGED faults
       \/ faults < MaxFaults /\ faults' = faults + 1 /\ UNCHANGED rows
    /\ End(p)
    /\ UNCHANGED <<fsVars, pending, scan, cache, history, delete_source, crashes>>

----------------------------------------------------------------------------
\* The process is killed and started again: SeenStore::load fills the cache from the table.
Restart ==
    /\ crashes < MaxCrashes
    /\ crashes' = crashes + 1
    /\ pending' = {}
    /\ job' = [p \in Paths |-> NoJob]
    /\ scan' = NoScan
    /\ cache' = rows
    /\ delete_source' \in DeleteSource
    /\ UNCHANGED <<fsVars, rows, history, faults>>

Ingest(p) ==
    \/ Begin(p) \/ Settle(p) \/ Open(p) \/ Read(p) \/ Unreadable(p) \/ Send(p)
    \/ Remove(p) \/ Put(p) \/ Forget(p) \/ WriteRow(p)

Scan ==
    \/ ScanStart \/ ScanCollect \/ ScanQueue
    \/ \E p \in Paths : ScanEntry(p) \/ ForgetCache(p) \/ ForgetRow(p)

Next ==
    \/ \E p \in Paths :
          \/ \E c \in Contents \ {Outside} : Place(p, c) \/ Rewrite(p, c)
          \/ Link(p) \/ Unlink(p) \/ Notify(p) \/ Ingest(p)
    \/ Scan \/ Drain \/ Restart

Spec == Init /\ [][Next]_vars

(***************************************************************************)
(* Fairness: the tickers of the scanner and of the drainer keep ticking and *)
(* tokio polls every task.  Nothing is asked of the notify thread, of the   *)
(* other programs or of the crashes.                                       *)
(***************************************************************************)
Fairness ==
    /\ WF_vars(Scan) /\ WF_vars(Drain)
    /\ \A p \in Paths : SF_vars(Begin(p)) /\ WF_vars(Ingest(p))

FairSpec == Spec /\ Fairness

----------------------------------------------------------------------------
Records == [stamp : 0..MaxEdits, hash : Contents \cup {NoHash}]

Jobs == [at : {"none", "spawned", "settle", "open", "read", "send", "remove", "put",
               "forget", "upsert", "delete"},
         before : 0..MaxEdits, stamp : 0..MaxEdits,
         known : Contents \cup {NoHash}, read : Contents]

\* Every variable keeps its type.
TypeOK ==
    /\ dir \in [Paths -> 0..(MaxEdits + 1)]
    /\ data \in [Inodes \cup {Linked} -> [content : Contents, stamp : 0..MaxEdits]]
    /\ edits \in 0..MaxEdits
    /\ pending \subseteq Paths
    /\ job \in [Paths -> Jobs]
    /\ scan \in [at : {"idle", "listing", "forgetting"}, todo : SUBSET Paths,
                 present : SUBSET Paths, found : SUBSET Paths, gone : SUBSET Paths,
                 row : SUBSET Paths]
    /\ cache \in [Paths -> Records]
    /\ rows \in [Paths -> Records]
    /\ archived \subseteq Contents
    /\ sent \in [Paths -> SUBSET (0..MaxEdits)]
    /\ resent \in BOOLEAN
    /\ delete_source \in DeleteSource
    /\ crashes \in 0..MaxCrashes
    /\ faults \in 0..MaxFaults

\* A file whose stamp is the recorded one, in the cache or in the table, is skipped: its
\* bytes are in the archive then, although they are read after the stamp is taken and may
\* be rewritten meanwhile.
SkippedIsArchived ==
    \A p \in Paths :
        Regular(p) /\ StampOf(p) \in {cache[p].stamp, rows[p].stamp}
            => data[dir[p]].content \in archived \cup {Empty}

\* Nothing but files of the directory itself reaches the archive: a name that becomes a
\* symbolic link after it was screened is not followed.
LinksNotFollowed == Outside \notin archived

\* A hash in the registry is that of an archived content.
RecordedIsArchived ==
    \A p \in Paths : {cache[p].hash, rows[p].hash} \subseteq archived \cup {NoHash}

\* Every file that is left alone is archived in the end, whatever was edited, failed or
\* crashed before, and however many events were lost.
QuietFilesArchived ==
    <>[](\A p \in Paths : Regular(p) => data[dir[p]].content \in archived \cup {Empty})

----------------------------------------------------------------------------
(***************************************************************************)
(* What the documents say and the code does not guarantee.                 *)
(***************************************************************************)
\* README.md:742: a file that has not changed is not read again once it was archived.  The
\* scanner forgets, after its awaits, names it did not meet in a listing made before them.
SentOnce == ~resent

\* README.md:730: the original is removed only if its archiving was confirmed.  It is removed
\* by name, whatever was written under the name since it was read.
RemovedIsArchived ==
    [][\A p \in Paths : job[p].at = "remove" /\ job'[p].at = "forget"
           => data[dir[p]].content \in archived]_vars

============================================================================
