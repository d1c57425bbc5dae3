---------------------------- MODULE ObjectStore ----------------------------
(***************************************************************************)
(* The archive of the engine: what POST /compress, DELETE /objects/:id and  *)
(* the two reads do to the four places that hold the state of an object -   *)
(* the SQL tables object_grants and usage_events, the essence file of the   *)
(* vault and the sled index - one action per SQL statement, system call or  *)
(* sled operation, because the code takes no lock and opens no transaction  *)
(* across them (src/src/service.rs, tenancy.rs, usage.rs, vault.rs).        *)
(*                                                                         *)
(* A request is identified with what it asks for (call), chosen at the      *)
(* start.  Every request persists; one with persist = FALSE writes nothing. *)
(***************************************************************************)
EXTENDS Naturals, FiniteSets

CONSTANTS
    Requests,    \* the requests the engine receives
    Tenants,
    Hashes,      \* the contents, each named by its BLAKE3 hash
    Keys,        \* the values of the header Idempotency-Key
    NoKey,       \* a request without that header
    NoFile,      \* no file under a path of the vault
    Ops,         \* the operations the requests may ask for
    MaxActive,   \* how many requests are in progress at once
    MaxCrashes,  \* how often the process is killed and restarted
    MaxFaults    \* how many statements fail or clients go away

ASSUME KeysAssumption == NoKey \notin Keys
ASSUME FilesAssumption == NoFile \notin Requests
ASSUME OpsAssumption == Ops \subseteq {"compress", "delete", "read", "essence"}
ASSUME BoundsAssumption == MaxActive \in Nat /\ MaxCrashes \in Nat /\ MaxFaults \in Nat

Calls ==
    {c \in [op : Ops, tenant : Tenants, hash : Hashes, key : Keys \cup {NoKey},
            allow_dedup : BOOLEAN, purge : BOOLEAN] :
        /\ c.op # "compress" => c.key = NoKey /\ c.allow_dedup
        /\ c.op # "delete" => ~c.purge}

VARIABLES
    call,        \* what each request asks for
    pc,          \* the statement each request executes next
    target,      \* the object it works on (a replay takes it from the ledger)
    seen,        \* the refs it read from its grant row
    blob_existed,\* compress found a readable essence
    had_grant,   \* compress found a grant of its own tenant
    fd,          \* the file it holds open for writing
    got,         \* the bytes it read from the vault
    detached,    \* requests whose client left while their blocking task runs
    grants,      \* object_grants: refs of (tenant, hash), 0 when there is no row
    ledger,      \* usage_events
    final, tmp,  \* the files under <hash>.syntra and <hash>.syntra.tmp
    body,        \* what each file holds
    index,       \* the hashes with a record in sled
    linked,      \* history: requests that wrote their grant
    unrecorded,  \* history: contents of which the index, or the look at the file that
                 \* comes before it, gave an error since the last start
    crashes, faults

localVars == <<target, seen, blob_existed, had_grant, fd, got, detached>>
storeVars == <<grants, ledger, final, tmp, body, index, linked>>
faultVars == <<unrecorded, crashes, faults>>
vars == <<call, pc, localVars, storeVars, faultVars>>

Waiting   == {"findEvent", "hadGrant", "addFind", "addWrite", "findCharge", "charge",
              "relFind", "relWrite", "count", "loadGrant", "loadBlob",
              "bytesGrant", "bytesBlob"}
Blocking  == {"dedup", "create", "write", "rename", "record",
              "exists", "unlink", "unindex"}
Finished  == {"ok", "missing", "failed", "gone", "lost"}
Contents  == {"empty", "whole", "mixed"}

Active == {r \in Requests : pc[r] \in Waiting \cup Blocking}
Goto(r, label) == pc' = [pc EXCEPT ![r] = label]

\* container::parse: protobuf bytes cut to nothing decode to the default envelope,
\* whose checksum 0 is not compared; two essences overlaid, or a part of one, may decode
\* or not ("mixed").
MayParse(b) == b \in Contents
MayNotParse(b) == b = "mixed"

Published(h) == IF final[h] = NoFile THEN {} ELSE {body[final[h]]}

----------------------------------------------------------------------------
Init ==
    /\ call \in [Requests -> Calls]
    /\ pc = [r \in Requests |-> "new"]
    /\ target = [r \in Requests |-> call[r].hash]
    /\ seen = [r \in Requests |-> 0]
    /\ blob_existed = [r \in Requests |-> FALSE]
    /\ had_grant = [r \in Requests |-> FALSE]
    /\ fd = [r \in Requests |-> NoFile]
    /\ got = [r \in Requests |-> {}]
    /\ detached = {}
    /\ grants = [t \in Tenants |-> [h \in Hashes |-> 0]]
    /\ ledger = {}
    /\ final = [h \in Hashes |-> NoFile]
    /\ tmp = [h \in Hashes |-> NoFile]
    /\ body = [r \in Requests |-> "empty"]
    /\ index = {}
    /\ linked = {}
    /\ unrecorded = {}
    /\ crashes = 0
    /\ faults = 0

(***************************************************************************)
(* A request arrives, at most MaxActive at once.                           *)
(***************************************************************************)
FirstStep(c) ==
    CASE c.op = "compress" -> IF c.key = NoKey THEN "dedup" ELSE "findEvent"
      [] c.op = "delete"   -> "relFind"
      [] c.op = "read"     -> "loadGrant"
      [] c.op = "essence"  -> "bytesGrant"

Submit(r) ==
    /\ pc[r] = "new"
    /\ Cardinality(Active) < MaxActive
    /\ Goto(r, FirstStep(call[r]))
    /\ UNCHANGED <<call, localVars, storeVars, faultVars>>

(***************************************************************************)
(* usage::find_by_idempotency, the first thing a keyed compress does.      *)
(***************************************************************************)
EventsOf(t, k) == {e \in ledger : e.tenant = t /\ e.key = k}

FindEvent(r) ==
    /\ pc[r] = "findEvent"
    /\ \/ /\ EventsOf(call[r].tenant, call[r].key) = {}
          /\ Goto(r, "dedup")
          /\ UNCHANGED target
       \/ \E e \in EventsOf(call[r].tenant, call[r].key) :
             /\ target' = [target EXCEPT ![r] = e.hash]
             /\ Goto(r, "loadGrant")
    /\ UNCHANGED <<call, seen, blob_existed, had_grant, fd, got, detached,
                   storeVars, faultVars>>

----------------------------------------------------------------------------
(***************************************************************************)
(* compress_blocking.  A client that leaves does not stop it: the task      *)
(* runs to its end and only then is the request gone.                       *)
(***************************************************************************)
AfterBlocking(r, label) == IF r \in detached THEN "gone" ELSE label

\* The essence exists and parses: it is returned and nothing is written.
DedupHit(r) ==
    /\ pc[r] = "dedup"
    /\ call[r].allow_dedup
    /\ \E b \in Published(target[r]) :
          /\ MayParse(b)
          /\ got' = [got EXCEPT ![r] = {b}]
    /\ blob_existed' = [blob_existed EXCEPT ![r] = TRUE]
    /\ Goto(r, AfterBlocking(r, "hadGrant"))
    /\ UNCHANGED <<call, target, seen, had_grant, fd, detached, storeVars, faultVars>>

\* No essence, or one that does not parse, or dedup refused: the content is
\* compressed and verified, which may fail before anything is written.
DedupMiss(r) ==
    /\ pc[r] = "dedup"
    /\ \/ ~call[r].allow_dedup
       \/ Published(target[r]) = {}
       \/ \E b \in Published(target[r]) : MayNotParse(b)
    /\ \/ Goto(r, "create")
       \/ Goto(r, AfterBlocking(r, "failed"))
    /\ UNCHANGED <<call, localVars, storeVars, faultVars>>

\* Bug: the essence is written in place, under its published name.
CreateInPlace(r) ==
    /\ pc[r] = "create"
    /\ final' = [final EXCEPT ![target[r]] = r]
    /\ tmp' = [tmp EXCEPT ![target[r]] = r]
    /\ body' = [body EXCEPT ![r] = "empty"]
    /\ fd' = [fd EXCEPT ![r] = r]
    /\ Goto(r, "write")
    /\ UNCHANGED <<call, target, seen, blob_existed, had_grant, got, detached,
                   grants, ledger, index, linked, faultVars>>

\* write_atomic, first half of std::fs::write: open the temporary file, whose name
\* depends on the hash alone, creating it or truncating the one another request made.
CreateTmp(r) ==
    /\ pc[r] = "create"
    /\ LET h == target[r]
           file == IF tmp[h] = NoFile THEN r ELSE tmp[h]
       IN  /\ tmp' = [tmp EXCEPT ![h] = file]
           /\ body' = [body EXCEPT ![file] = "empty"]
           /\ fd' = [fd EXCEPT ![r] = file]
    /\ Goto(r, "write")
    /\ UNCHANGED <<call, target, seen, blob_existed, had_grant, got, detached,
                   grants, ledger, final, index, linked, faultVars>>

\* Second half: the bytes go to the open file from offset 0.  Over another
\* request's bytes the result is whole only if the old ones were not longer.
Written(b) == IF b = "empty" THEN {"whole"} ELSE {"whole", "mixed"}

WriteTmp(r) ==
    /\ pc[r] = "write"
    /\ \E b \in Written(body[fd[r]]) : body' = [body EXCEPT ![fd[r]] = b]
    /\ Goto(r, "rename")
    /\ UNCHANGED <<call, localVars, grants, ledger, final, tmp, index, linked, faultVars>>

\* Bug: the published essence is removed to make room before the rename.
RenameRemovesFirst(r) ==
    /\ pc[r] = "rename"
    /\ LET h == target[r]
       IN  \/ /\ final[h] # NoFile
              /\ final' = [final EXCEPT ![h] = NoFile]
              /\ UNCHANGED <<pc, tmp>>
           \/ /\ final[h] = NoFile
              /\ final' = [final EXCEPT ![h] = tmp[h]]
              /\ tmp' = [tmp EXCEPT ![h] = NoFile]
              /\ Goto(r, "record")
    /\ UNCHANGED <<call, localVars, grants, ledger, body, index, linked, faultVars>>

Rename(r) ==
    /\ pc[r] = "rename"
    /\ LET h == target[r]
       IN  IF tmp[h] = NoFile
           THEN Goto(r, AfterBlocking(r, "failed")) /\ UNCHANGED <<final, tmp>>
           ELSE /\ final' = [final EXCEPT ![h] = tmp[h]]
                /\ tmp' = [tmp EXCEPT ![h] = NoFile]
                /\ Goto(r, "record")
    /\ UNCHANGED <<call, localVars, grants, ledger, body, index, linked, faultVars>>

\* VaultManager::record
Record(r) ==
    /\ pc[r] = "record"
    /\ index' = index \cup {target[r]}
    /\ unrecorded' = unrecorded \ {target[r]}
    /\ Goto(r, AfterBlocking(r, "hadGrant"))
    /\ UNCHANGED <<call, localVars, grants, ledger, final, tmp, body, linked, crashes, faults>>

----------------------------------------------------------------------------
(***************************************************************************)
(* The rest of compress: find_grant for had_grant, then add_grant, a read   *)
(* followed by an INSERT or by an UPDATE to the value read plus one.        *)
(***************************************************************************)
\* Bug: a tenant that holds the object already is charged without a new reference.
HadGrantSkipsAdd(r) ==
    /\ pc[r] = "hadGrant"
    /\ had_grant' = [had_grant EXCEPT ![r] = grants[call[r].tenant][target[r]] > 0]
    /\ Goto(r, IF had_grant'[r] THEN "charge" ELSE "addFind")
    /\ UNCHANGED <<call, target, seen, blob_existed, fd, got, detached, storeVars, faultVars>>

\* Bug: the event is recorded before the reference.
HadGrantChargesFirst(r) ==
    /\ pc[r] = "hadGrant"
    /\ had_grant' = [had_grant EXCEPT ![r] = FALSE]
    /\ ledger' = ledger \cup
          {[req |-> r, op |-> "compress", tenant |-> call[r].tenant, key |-> NoKey,
            hash |-> target[r], dedup_scope |-> "none"]}
    /\ Goto(r, "addFind")
    /\ UNCHANGED <<call, target, seen, blob_existed, fd, got, detached,
                   grants, final, tmp, body, index, linked, faultVars>>

HadGrant(r) ==
    /\ pc[r] = "hadGrant"
    /\ had_grant' = [had_grant EXCEPT ![r] = grants[call[r].tenant][target[r]] > 0]
    /\ Goto(r, "addFind")
    /\ UNCHANGED <<call, target, seen, blob_existed, fd, got, detached, storeVars, faultVars>>

AddFind(r) ==
    /\ pc[r] = "addFind"
    /\ seen' = [seen EXCEPT ![r] = grants[call[r].tenant][target[r]]]
    /\ Goto(r, "addWrite")
    /\ UNCHANGED <<call, target, blob_existed, had_grant, fd, got, detached,
                   storeVars, faultVars>>

SetRefs(r, n) == grants' = [grants EXCEPT ![call[r].tenant][target[r]] = n]
RowExists(r) == grants[call[r].tenant][target[r]] > 0

\* The primary key refuses a second INSERT; an UPDATE of a deleted row changes nothing.
AddWrite(r) ==
    /\ pc[r] = "addWrite"
    /\ IF seen[r] = 0 /\ RowExists(r)
       THEN Goto(r, "failed") /\ UNCHANGED <<grants, linked>>
       ELSE /\ IF seen[r] = 0 \/ RowExists(r)
               THEN SetRefs(r, seen[r] + 1)
               ELSE UNCHANGED grants
            /\ linked' = linked \cup {r}
            /\ Goto(r, IF call[r].key = NoKey THEN "charge" ELSE "findCharge")
    /\ UNCHANGED <<call, localVars, ledger, final, tmp, body, index, faultVars>>

(***************************************************************************)
(* usage::record.  The unique index on (tenant, idempotency_key) refuses a  *)
(* second event, which the code answers like a key found before.            *)
(***************************************************************************)
\* Bug: the essence found in the vault is reported as the tenant's own.
DedupScopeLeaks(r) == IF blob_existed[r] \/ had_grant[r] THEN "tenant" ELSE "none"

DedupScope(r) ==
    IF had_grant[r] THEN "tenant" ELSE IF blob_existed[r] THEN "global" ELSE "none"

Event(r) == [req |-> r, op |-> call[r].op, tenant |-> call[r].tenant,
             key |-> call[r].key, hash |-> target[r], dedup_scope |-> DedupScope(r)]

KeyTaken(r) == call[r].key # NoKey /\ EventsOf(call[r].tenant, call[r].key) # {}

\* Bug: the key is looked up without the tenant.
FindChargeAnyTenant(r) ==
    /\ pc[r] = "findCharge"
    /\ Goto(r, IF \E e \in ledger : e.key = call[r].key THEN "ok" ELSE "charge")
    /\ UNCHANGED <<call, localVars, storeVars, faultVars>>

\* Bug: no unique index: the event goes in whatever the look-up found before.
ChargeUnchecked(r) ==
    /\ pc[r] = "charge"
    /\ ledger' = ledger \cup {Event(r)}
    /\ Goto(r, "ok")
    /\ UNCHANGED <<call, localVars, grants, final, tmp, body, index, linked, faultVars>>

FindCharge(r) ==
    /\ pc[r] = "findCharge"
    /\ Goto(r, IF KeyTaken(r) THEN "ok" ELSE "charge")
    /\ UNCHANGED <<call, localVars, storeVars, faultVars>>

Charge(r) ==
    /\ pc[r] = "charge"
    /\ ledger' = IF KeyTaken(r) THEN ledger ELSE ledger \cup {Event(r)}
    /\ Goto(r, "ok")
    /\ UNCHANGED <<call, localVars, grants, final, tmp, body, index, linked, faultVars>>

----------------------------------------------------------------------------
(***************************************************************************)
(* load_object (a read, and the first half of a replay) and load_container *)
(* (the download of an essence, and the second half of a replay).          *)
(***************************************************************************)
RequireGrant(r, label) == Goto(r, IF RowExists(r) THEN label ELSE "missing")

\* Bug: load_object trusts the hash and requires no grant.
LoadGrantOpen(r) ==
    /\ pc[r] = "loadGrant"
    /\ Goto(r, "loadBlob")
    /\ UNCHANGED <<call, localVars, storeVars, faultVars>>

LoadGrant(r) ==
    /\ pc[r] = "loadGrant"
    /\ RequireGrant(r, "loadBlob")
    /\ UNCHANGED <<call, localVars, storeVars, faultVars>>

\* A content read is then restored; bytes that are not a whole essence may still
\* restore, when the fields that would betray them are the ones that are missing.
LoadBlob(r) ==
    /\ pc[r] = "loadBlob"
    /\ got' = [got EXCEPT ![r] = Published(target[r])]
    /\ LET next == IF call[r].op = "compress" THEN "bytesGrant" ELSE "charge"
       IN  \/ Published(target[r]) = {} /\ Goto(r, "missing")
           \/ Published(target[r]) # {} /\ Goto(r, next)
           \/ Published(target[r]) \cap {"empty", "mixed"} # {} /\ Goto(r, "failed")
    /\ UNCHANGED <<call, target, seen, blob_existed, had_grant, fd, detached,
                   storeVars, faultVars>>

BytesGrant(r) ==
    /\ pc[r] = "bytesGrant"
    /\ RequireGrant(r, "bytesBlob")
    /\ UNCHANGED <<call, localVars, storeVars, faultVars>>

BytesBlob(r) ==
    /\ pc[r] = "bytesBlob"
    /\ got' = [got EXCEPT ![r] = Published(target[r])]
    /\ Goto(r, IF Published(target[r]) = {} THEN "missing"
               ELSE IF call[r].op = "compress" THEN "ok" ELSE "charge")
    /\ UNCHANGED <<call, target, seen, blob_existed, had_grant, fd, detached,
                   storeVars, faultVars>>

----------------------------------------------------------------------------
(***************************************************************************)
(* delete_object: release_grant (a read, then an UPDATE or a DELETE), the   *)
(* count of the grants left, and VaultManager::purge.                       *)
(***************************************************************************)
RelFind(r) ==
    /\ pc[r] = "relFind"
    /\ seen' = [seen EXCEPT ![r] = grants[call[r].tenant][target[r]]]
    /\ Goto(r, IF RowExists(r) THEN "relWrite" ELSE "missing")
    /\ UNCHANGED <<call, target, blob_existed, had_grant, fd, got, detached,
                   storeVars, faultVars>>

RelWrite(r) ==
    /\ pc[r] = "relWrite"
    /\ IF ~call[r].purge /\ seen[r] > 1
       THEN /\ IF RowExists(r) THEN SetRefs(r, seen[r] - 1) ELSE UNCHANGED grants
            /\ Goto(r, "charge")
       ELSE SetRefs(r, 0) /\ Goto(r, "count")
    /\ UNCHANGED <<call, localVars, ledger, final, tmp, body, index, linked, faultVars>>

\* Bug: only the grants of the caller's tenant are counted.
CountOwnOnly(r) ==
    /\ pc[r] = "count"
    /\ Goto(r, IF grants[call[r].tenant][target[r]] = 0 THEN "exists" ELSE "charge")
    /\ UNCHANGED <<call, localVars, storeVars, faultVars>>

Count(r) ==
    /\ pc[r] = "count"
    /\ Goto(r, IF \A t \in Tenants : grants[t][target[r]] = 0 THEN "exists" ELSE "charge")
    /\ UNCHANGED <<call, localVars, storeVars, faultVars>>

Exists(r) ==
    /\ pc[r] = "exists"
    /\ Goto(r, IF final[target[r]] = NoFile THEN "unindex" ELSE "unlink")
    /\ UNCHANGED <<call, localVars, storeVars, faultVars>>

Unlink(r) ==
    /\ pc[r] = "unlink"
    /\ Goto(r, IF final[target[r]] = NoFile THEN AfterBlocking(r, "failed") ELSE "unindex")
    /\ final' = [final EXCEPT ![target[r]] = NoFile]
    /\ UNCHANGED <<call, localVars, grants, ledger, tmp, body, index, linked, faultVars>>

Unindex(r) ==
    /\ pc[r] = "unindex"
    /\ index' = index \ {target[r]}
    /\ Goto(r, AfterBlocking(r, "charge"))
    /\ UNCHANGED <<call, localVars, grants, ledger, final, tmp, body, linked, faultVars>>

----------------------------------------------------------------------------
(***************************************************************************)
(* What goes wrong around the requests.                                    *)
(***************************************************************************)
\* A statement returns an error: the request answers 500, but for five of them.  The
\* error of usage::record is logged and the request answered as if it had been charged;
\* a file that cannot be read is one that is not there; an essence that dedup cannot
\* read is compressed again; and path.exists() is false when it cannot tell, so that
\* purge takes the row of the index away and leaves the file.
AfterError(r) ==
    CASE pc[r] \in {"findCharge", "charge"}  -> "ok"
      [] pc[r] \in {"loadBlob", "bytesBlob"} -> "missing"
      [] pc[r] = "dedup"                     -> "create"
      [] pc[r] = "exists"                    -> "unindex"
      [] OTHER                               -> AfterBlocking(r, "failed")

\* A write that fails leaves a part of its bytes; a record that fails comes after the
\* rename and leaves the essence without its row.
StatementFails(r) ==
    /\ pc[r] \in Waiting \cup Blocking
    /\ faults < MaxFaults
    /\ faults' = faults + 1
    /\ Goto(r, AfterError(r))
    /\ body' \in IF pc[r] = "write" THEN {body, [body EXCEPT ![fd[r]] = "mixed"]} ELSE {body}
    /\ unrecorded' = IF pc[r] \in {"record", "exists"} THEN unrecorded \cup {target[r]}
                     ELSE unrecorded
    /\ UNCHANGED <<call, localVars, grants, ledger, final, tmp, index, linked, crashes>>

\* The client disconnects and the handler's future is dropped at its await.
Disconnect(r) ==
    /\ faults < MaxFaults
    /\ faults' = faults + 1
    /\ \/ pc[r] \in Waiting /\ Goto(r, "gone") /\ UNCHANGED detached
       \/ /\ pc[r] \in Blocking
          /\ r \notin detached
          /\ detached' = detached \cup {r}
          /\ UNCHANGED pc
    /\ UNCHANGED <<call, target, seen, blob_existed, had_grant, fd, got,
                   storeVars, unrecorded, crashes>>

\* Bug: no reconciliation at start.
RestartUnreconciled ==
    /\ crashes < MaxCrashes
    /\ crashes' = crashes + 1
    /\ pc' = [r \in Requests |-> IF r \in Active THEN "lost" ELSE pc[r]]
    /\ detached' = {}
    /\ index' \in SUBSET index
    /\ unrecorded' = {}
    /\ UNCHANGED <<call, target, seen, blob_existed, had_grant, fd, got,
                   grants, ledger, final, tmp, body, linked, faults>>

\* The process is killed and started again: the requests are lost, sled may have
\* lost what it had not flushed, and reconcile_vault_index adds a record for every
\* essence in the vault that decodes, but for those it cannot read or record.
Restart ==
    /\ crashes < MaxCrashes
    /\ crashes' = crashes + 1
    /\ pc' = [r \in Requests |-> IF r \in Active THEN "lost" ELSE pc[r]]
    /\ detached' = {}
    /\ LET decodable == {h \in Hashes : Published(h) \in {{"empty"}, {"whole"}}}
           doubtful  == {h \in Hashes : Published(h) = {"mixed"}}
       IN  \E kept \in SUBSET (index \cup doubtful) :
           \E skipped \in SUBSET (decodable \ kept) :
              /\ index' = kept \cup (decodable \ skipped)
              /\ unrecorded' = skipped
              /\ IF skipped = {} THEN UNCHANGED faults
                 ELSE faults < MaxFaults /\ faults' = faults + 1
    /\ UNCHANGED <<call, target, seen, blob_existed, had_grant, fd, got,
                   grants, ledger, final, tmp, body, linked>>

----------------------------------------------------------------------------
CompressStep(r) ==
    \/ FindEvent(r) \/ DedupHit(r) \/ DedupMiss(r)
    \/ CreateTmp(r) \/ WriteTmp(r) \/ Rename(r) \/ Record(r)
    \/ HadGrant(r) \/ AddFind(r) \/ AddWrite(r) \/ FindCharge(r)

DeleteStep(r) ==
    \/ RelFind(r) \/ RelWrite(r) \/ Count(r)
    \/ Exists(r) \/ Unlink(r) \/ Unindex(r)

LoadStep(r) == LoadGrant(r) \/ LoadBlob(r) \/ BytesGrant(r) \/ BytesBlob(r)

Next ==
    \/ \E r \in Requests :
          \/ Submit(r) \/ CompressStep(r) \/ DeleteStep(r) \/ LoadStep(r) \/ Charge(r)
          \/ StatementFails(r) \/ Disconnect(r)
    \/ Restart

Spec == Init /\ [][Next]_vars

----------------------------------------------------------------------------
(***************************************************************************)
(* Types.                                                                  *)
(***************************************************************************)
Labels == {"new"} \cup Waiting \cup Blocking \cup Finished
Files == Requests \cup {NoFile}

Events == [req : Requests, op : Ops, tenant : Tenants, key : Keys \cup {NoKey},
           hash : Hashes, dedup_scope : {"tenant", "global", "none"}]

\* Every variable keeps the type its column, file or local variable has.
TypeOK ==
    /\ call \in [Requests -> Calls]
    /\ pc \in [Requests -> Labels]
    /\ target \in [Requests -> Hashes]
    /\ seen \in [Requests -> Nat]
    /\ blob_existed \in [Requests -> BOOLEAN]
    /\ had_grant \in [Requests -> BOOLEAN]
    /\ fd \in [Requests -> Files]
    /\ got \in [Requests -> SUBSET Contents]
    /\ detached \subseteq Requests
    /\ grants \in [Tenants -> [Hashes -> Nat]]
    /\ ledger \subseteq Events
    /\ final \in [Hashes -> Files]
    /\ tmp \in [Hashes -> Files]
    /\ body \in [Requests -> Contents]
    /\ index \subseteq Hashes
    /\ linked \subseteq Requests
    /\ unrecorded \subseteq Hashes
    /\ crashes \in Nat
    /\ faults \in Nat

(***************************************************************************)
(* What holds however the requests interleave.                             *)
(***************************************************************************)
\* The requests that wrote a reference of tenant t to content h.
Sends(t, h) == {q \in linked : call[q].tenant = t /\ target[q] = h}

\* The ledger never holds two events with one Idempotency-Key of one tenant, although
\* usage::record reads before it inserts and two retries may both read nothing.
OneChargePerKey ==
    \A e1, e2 \in ledger :
        e1.key # NoKey /\ e1.key = e2.key /\ e1.tenant = e2.tenant => e1 = e2

\* The ledger is append-only (README.md:515).
LedgerAppendOnly == [][ledger \subseteq ledger']_ledger

\* A read, a download or a replay gives a tenant bytes of an essence only if a send of
\* that same tenant referenced it: knowing the hash, or holding a key, is not enough.
TenantIsolation ==
    \A r \in Requests :
        got[r] # {} /\ (call[r].op # "compress" \/ pc[r] \in {"bytesGrant", "bytesBlob"})
            => Sends(call[r].tenant, target[r]) # {}

\* An event says that content was deduplicated inside the tenant only if another send of
\* this tenant came before: the answer does not betray what other tenants archived.
DedupOnlyOwn ==
    \A e \in ledger :
        e.op = "compress" /\ e.dedup_scope = "tenant"
            => Sends(e.tenant, e.hash) \ {e.req} # {}

\* A compress that answered success is in the ledger, under its own event or, for a
\* replay or a race of retries, under the event of its key.
AckedIsBilled ==
    \A r \in Requests :
        pc[r] = "ok" /\ call[r].op = "compress"
            => \E e \in ledger :
                  /\ e.tenant = call[r].tenant
                  /\ e.op = "compress"
                  /\ \/ e.req = r
                     \/ call[r].key # NoKey /\ e.key = call[r].key

\* Nothing is billed that was not archived first: a compress event belongs to a request
\* that wrote its reference and returned from the vault.
BilledWasArchived ==
    \A e \in ledger : e.op = "compress" => e.req \in linked /\ target[e.req] = e.hash

\* A reference has its file, however sends, failures and crashes interleave, until a
\* delete of that content finds a row to release.
Released(h) ==
    \E d \in Requests : /\ call[d].op = "delete" /\ target[d] = h
                        /\ pc[d] \notin {"new", "relFind", "missing"}

GrantHasFile ==
    \A t \in Tenants, h \in Hashes :
        grants[t][h] > 0 => final[h] # NoFile \/ Released(h)

(***************************************************************************)
(* What holds when requests come one at a time, whatever crashes, failing  *)
(* statements and clients that leave.                                      *)
(***************************************************************************)
\* Every reference is backed by an essence that can be read back whole.
GrantHasBlob ==
    \A t \in Tenants, h \in Hashes : grants[t][h] > 0 => Published(h) = {"whole"}

\* What stands under <hash>.syntra is a whole essence, at every moment (write_atomic).
PublishedWhole == \A h \in Hashes : Published(h) \in {{}, {"whole"}}

\* Once nothing is in progress a published essence has its record in the index, however
\* requests were killed, failed or left, unless the index itself or the look at the file
\* gave an error of that content; and the next start repairs that.
IndexCoversVault ==
    Active = {} => \A h \in Hashes : final[h] # NoFile => h \in index \cup unrecorded

\* The store implements the archive the README promises.
Promise == INSTANCE Archive WITH
    stored <- {h \in Hashes : Published(h) = {"whole"}},
    refs <- grants,
    charged <- ledger

ImplementsArchive == Promise!Spec

(***************************************************************************)
(* What the documents say and the code does not guarantee.                 *)
(***************************************************************************)
\* README.md:834: the blob leaves the disk only with the last global reference.
BlobLeavesWithLastReference ==
    [][\A h \in Hashes : final[h] # NoFile /\ final'[h] = NoFile
           => \A t \in Tenants : grants[t][h] = 0]_vars

\* README.md:430: a repeated key does not process the content again: at most one of the
\* requests with one key adds a reference.
KeyReferencesOnce ==
    \A q, r \in linked :
        /\ call[q].key # NoKey
        /\ call[q].key = call[r].key
        /\ call[q].tenant = call[r].tenant
        => q = r

============================================================================
