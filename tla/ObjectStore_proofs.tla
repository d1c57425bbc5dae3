------------------------- MODULE ObjectStore_proofs -------------------------
(***************************************************************************)
(* Proofs about ObjectStore, for any number of requests, tenants, contents  *)
(* and keys, any number of them in progress at once, and any number of      *)
(* crashes, failing statements and clients that leave.                      *)
(***************************************************************************)
EXTENDS ObjectStore, FiniteSetTheorems, TLAPS

USE KeysAssumption, FilesAssumption, OpsAssumption, BoundsAssumption

----------------------------------------------------------------------------
(***************************************************************************)
(* Types.                                                                  *)
(***************************************************************************)
LEMMA LabelTypes ==
    /\ Waiting \subseteq Labels
    /\ Blocking \subseteq Labels
    /\ Finished \subseteq Labels
BY DEF Labels

LEMMA InitTypes == Init => TypeOK
<1> SUFFICES ASSUME Init PROVE TypeOK
  OBVIOUS
<1>1. \A r \in Requests : call[r].hash \in Hashes
  BY DEF Init, Calls
<1> QED
  BY <1>1 DEF Init, TypeOK, Labels, Files, Contents

\* What a request finds under its path is the body of a file.
LEMMA PublishedType ==
    ASSUME TypeOK, NEW h \in Hashes
    PROVE  Published(h) \subseteq Contents
BY DEF TypeOK, Published, Files

\* The statement on one row of object_grants writes that row alone.
LEMMA SetRefsRow ==
    ASSUME TypeOK, NEW r \in Requests, NEW n \in Nat, SetRefs(r, n)
    PROVE  /\ grants' \in [Tenants -> [Hashes -> Nat]]
           /\ \A t \in Tenants, h \in Hashes :
                 grants'[t][h] = IF t = call[r].tenant /\ h = target[r] THEN n ELSE grants[t][h]
<1> DEFINE u == call[r].tenant
<1>1. u \in Tenants /\ target[r] \in Hashes /\ grants[u] \in [Hashes -> Nat]
  BY DEF TypeOK, Calls
<1>2. [grants[u] EXCEPT ![target[r]] = n] \in [Hashes -> Nat]
  BY <1>1
<1>3. grants' = [grants EXCEPT ![u] = [grants[u] EXCEPT ![target[r]] = n]]
  BY DEF SetRefs
<1>4. grants' \in [Tenants -> [Hashes -> Nat]]
  BY <1>1, <1>2, <1>3 DEF TypeOK
<1> QED
  BY <1>1, <1>3, <1>4 DEF TypeOK

LEMMA StepTypes == TypeOK /\ [Next]_vars => TypeOK'
<1> SUFFICES ASSUME TypeOK, [Next]_vars PROVE TypeOK'
  OBVIOUS
<1> USE DEF Goto, AfterBlocking
<1>0. /\ call \in [Requests -> Calls]
      /\ \A r \in Requests :
            /\ call[r].op \in Ops
            /\ call[r].tenant \in Tenants
            /\ call[r].hash \in Hashes
            /\ call[r].key \in Keys \cup {NoKey}
            /\ target[r] \in Hashes
            /\ Published(target[r]) \subseteq Contents
  BY PublishedType DEF TypeOK, Calls
<1>1. ASSUME NEW r \in Requests, Submit(r) PROVE TypeOK'
  <2>1. FirstStep(call[r]) \in Labels
    BY <1>0 DEF FirstStep, Labels, Waiting, Blocking, Finished
  <2> QED
    BY <1>1, <2>1 DEF Submit, TypeOK, localVars, storeVars, faultVars
<1>2. ASSUME NEW r \in Requests, FindEvent(r) PROVE TypeOK'
  <2>1. \A e \in EventsOf(call[r].tenant, call[r].key) : e.hash \in Hashes
    BY DEF EventsOf, TypeOK, Events
  <2>2. target' \in [Requests -> Hashes] /\ pc' \in [Requests -> Labels]
    BY <1>2, <2>1 DEF FindEvent, TypeOK, Labels, Waiting, Blocking
  <2> QED
    BY <1>2, <2>2 DEF FindEvent, TypeOK, storeVars, faultVars
<1>3. ASSUME NEW r \in Requests, DedupHit(r) PROVE TypeOK'
  BY <1>0, <1>3
  DEF DedupHit, TypeOK, Labels, Waiting, Blocking, Finished, localVars, storeVars, faultVars
<1>4. ASSUME NEW r \in Requests, DedupMiss(r) PROVE TypeOK'
  BY <1>0, <1>4
  DEF DedupMiss, TypeOK, Labels, Waiting, Blocking, Finished, localVars, storeVars, faultVars
<1>5. ASSUME NEW r \in Requests, CreateTmp(r) PROVE TypeOK'
  <2> DEFINE file == IF tmp[target[r]] = NoFile THEN r ELSE tmp[target[r]]
  <2>1. file \in Requests
    BY <1>0 DEF TypeOK, Files
  <2>2. /\ tmp' = [tmp EXCEPT ![target[r]] = file]
        /\ body' = [body EXCEPT ![file] = "empty"]
        /\ fd' = [fd EXCEPT ![r] = file]
        /\ pc' = [pc EXCEPT ![r] = "write"]
        /\ UNCHANGED <<call, target, seen, blob_existed, had_grant, got, detached,
                       grants, ledger, final, index, linked, faultVars>>
    BY <1>5 DEF CreateTmp
  <2> HIDE DEF file
  <2>3. pc' \in [Requests -> Labels]
    BY <2>2 DEF TypeOK, Labels, Blocking
  <2>4. /\ tmp' \in [Hashes -> Files] /\ fd' \in [Requests -> Files]
        /\ body' \in [Requests -> Contents]
    BY <2>1, <2>2 DEF TypeOK, Files, Contents
  <2> QED
    BY <2>2, <2>3, <2>4 DEF TypeOK, faultVars
<1>6. ASSUME NEW r \in Requests, WriteTmp(r) PROVE TypeOK'
  <2>1. PICK b \in Written(body[fd[r]]) : body' = [body EXCEPT ![fd[r]] = b]
    BY <1>6 DEF WriteTmp
  <2>3. b \in Contents
    BY DEF Written, Contents
  <2>4. body' \in [Requests -> Contents]
    BY <2>1, <2>3 DEF TypeOK
  <2>2. pc' \in [Requests -> Labels]
    BY <1>6 DEF WriteTmp, TypeOK, Labels, Blocking
  <2> QED
    BY <1>6, <2>2, <2>4 DEF WriteTmp, TypeOK, localVars, faultVars
<1>7. ASSUME NEW r \in Requests, Rename(r) PROVE TypeOK'
  <2>1. pc' \in [Requests -> Labels]
    BY <1>7 DEF Rename, TypeOK, Labels, Blocking, Finished
  <2>2. final' \in [Hashes -> Files] /\ tmp' \in [Hashes -> Files]
    BY <1>0, <1>7 DEF Rename, TypeOK, Files
  <2> QED
    BY <1>7, <2>1, <2>2 DEF Rename, TypeOK, localVars, faultVars
<1>8. ASSUME NEW r \in Requests, Record(r) PROVE TypeOK'
  BY <1>0, <1>8
  DEF Record, TypeOK, Labels, Waiting, Blocking, Finished, localVars, storeVars, faultVars
<1>9. ASSUME NEW r \in Requests, HadGrant(r) PROVE TypeOK'
  BY <1>0, <1>9
  DEF HadGrant, TypeOK, Labels, Waiting, Blocking, Finished, localVars, storeVars, faultVars
<1>10. ASSUME NEW r \in Requests, AddFind(r) PROVE TypeOK'
  BY <1>0, <1>10
  DEF AddFind, TypeOK, Labels, Waiting, Blocking, Finished, localVars, storeVars, faultVars
<1>11. ASSUME NEW r \in Requests, AddWrite(r) PROVE TypeOK'
  <2>1. pc' \in [Requests -> Labels]
    BY <1>11 DEF AddWrite, TypeOK, Labels, Waiting, Finished
  <2>2. grants' \in [Tenants -> [Hashes -> Nat]]
    <3>1. seen[r] + 1 \in Nat
      BY DEF TypeOK
    <3>2. CASE grants' = grants
      BY <3>2 DEF TypeOK
    <3>3. CASE SetRefs(r, seen[r] + 1)
      BY <3>1, <3>3, SetRefsRow
    <3> QED
      BY <1>11, <3>2, <3>3 DEF AddWrite
  <2>3. linked' \subseteq Requests
    BY <1>11 DEF AddWrite, TypeOK
  <2> QED
    BY <1>11, <2>1, <2>2, <2>3 DEF AddWrite, TypeOK, localVars, faultVars
<1>12. ASSUME NEW r \in Requests, FindCharge(r) PROVE TypeOK'
  BY <1>0, <1>12
  DEF FindCharge, TypeOK, Labels, Waiting, Blocking, Finished, localVars, storeVars, faultVars
<1>13. ASSUME NEW r \in Requests, Charge(r) PROVE TypeOK'
  <2>1. Event(r) \in Events
    BY <1>0 DEF Event, Events, DedupScope
  <2>2. ledger' \subseteq Events /\ pc' \in [Requests -> Labels]
    BY <1>13, <2>1 DEF Charge, TypeOK, Labels, Finished
  <2> QED
    BY <1>13, <2>2 DEF Charge, TypeOK, localVars, faultVars
<1>14. ASSUME NEW r \in Requests, RelFind(r) PROVE TypeOK'
  BY <1>0, <1>14
  DEF RelFind, TypeOK, Labels, Waiting, Blocking, Finished, localVars, storeVars, faultVars
<1>15. ASSUME NEW r \in Requests, RelWrite(r) PROVE TypeOK'
  <2>1. pc' \in [Requests -> Labels]
    BY <1>15 DEF RelWrite, TypeOK, Labels, Waiting
  <2>2. seen[r] \in Nat
    BY DEF TypeOK
  <2>3. grants' \in [Tenants -> [Hashes -> Nat]]
    <3>1. CASE seen[r] > 1 /\ SetRefs(r, seen[r] - 1)
      <4>1. seen[r] - 1 \in Nat
        BY <2>2, <3>1
      <4> QED
        BY <3>1, <4>1, SetRefsRow
    <3>2. CASE SetRefs(r, 0)
      BY <3>2, SetRefsRow
    <3>3. CASE grants' = grants
      BY <3>3 DEF TypeOK
    <3> QED
      BY <1>15, <3>1, <3>2, <3>3 DEF RelWrite
  <2> QED
    BY <1>15, <2>1, <2>3 DEF RelWrite, TypeOK, localVars, faultVars
<1>16. ASSUME NEW r \in Requests, Count(r) PROVE TypeOK'
  BY <1>0, <1>16
  DEF Count, TypeOK, Labels, Waiting, Blocking, Finished, localVars, storeVars, faultVars
<1>17. ASSUME NEW r \in Requests, Exists(r) PROVE TypeOK'
  BY <1>0, <1>17
  DEF Exists, TypeOK, Labels, Waiting, Blocking, Finished, localVars, storeVars, faultVars
<1>18. ASSUME NEW r \in Requests, Unlink(r) PROVE TypeOK'
  <2>1. pc' \in [Requests -> Labels]
    BY <1>18 DEF Unlink, TypeOK, Labels, Blocking, Finished
  <2>2. final' \in [Hashes -> Files]
    BY <1>0, <1>18 DEF Unlink, TypeOK, Files
  <2> QED
    BY <1>18, <2>1, <2>2 DEF Unlink, TypeOK, localVars, faultVars
<1>19. ASSUME NEW r \in Requests, Unindex(r) PROVE TypeOK'
  BY <1>0, <1>19
  DEF Unindex, TypeOK, Labels, Waiting, Blocking, Finished, localVars, storeVars, faultVars
<1>20. ASSUME NEW r \in Requests, LoadGrant(r) PROVE TypeOK'
  BY <1>0, <1>20
  DEF LoadGrant, RequireGrant, TypeOK, Labels, Waiting, Blocking, Finished,
      localVars, storeVars, faultVars
<1>21. ASSUME NEW r \in Requests, LoadBlob(r) PROVE TypeOK'
  BY <1>0, <1>21
  DEF LoadBlob, TypeOK, Labels, Waiting, Blocking, Finished, localVars, storeVars, faultVars
<1>22. ASSUME NEW r \in Requests, BytesGrant(r) PROVE TypeOK'
  BY <1>0, <1>22
  DEF BytesGrant, RequireGrant, TypeOK, Labels, Waiting, Blocking, Finished,
      localVars, storeVars, faultVars
<1>23. ASSUME NEW r \in Requests, BytesBlob(r) PROVE TypeOK'
  BY <1>0, <1>23
  DEF BytesBlob, TypeOK, Labels, Waiting, Blocking, Finished, localVars, storeVars, faultVars
<1>24. ASSUME NEW r \in Requests, StatementFails(r) PROVE TypeOK'
  <2>1. AfterError(r) \in Labels
    BY DEF AfterError, Labels, Blocking, Finished
  <2>2. pc' \in [Requests -> Labels]
    BY <1>24, <2>1 DEF StatementFails, TypeOK
  <2>3. body' \in [Requests -> Contents]
    BY <1>24 DEF StatementFails, TypeOK, Contents
  <2>4. unrecorded' \subseteq Hashes /\ faults' \in Nat
    BY <1>0, <1>24 DEF StatementFails, TypeOK
  <2> QED
    BY <1>24, <2>2, <2>3, <2>4 DEF StatementFails, TypeOK, localVars
<1>25. ASSUME NEW r \in Requests, Disconnect(r) PROVE TypeOK'
  BY <1>0, <1>25
  DEF Disconnect, TypeOK, Labels, Waiting, Blocking, Finished, localVars, storeVars, faultVars
<1>26. CASE Restart
  BY <1>0, <1>26 DEF Restart, TypeOK, Labels, Finished, localVars, storeVars, faultVars
<1>27. CASE UNCHANGED vars
  BY <1>27 DEF vars, TypeOK, localVars, storeVars, faultVars
<1> QED
  BY <1>1, <1>2, <1>3, <1>4, <1>5, <1>6, <1>7, <1>8, <1>9, <1>10, <1>11, <1>12, <1>13, <1>14, <1>15, <1>16, <1>17, <1>18, <1>19, <1>20, <1>21, <1>22, <1>23, <1>24, <1>25, <1>26, <1>27
  DEF Next, CompressStep, DeleteStep, LoadStep

\* Every variable keeps its type, for every value of the constants.
THEOREM TypeCorrect == Spec => []TypeOK
  BY InitTypes, StepTypes, PTL DEF Spec

----------------------------------------------------------------------------
(***************************************************************************)
(* Which action writes which variable: a variable no action below names is  *)
(* left alone by every other.                                              *)
(***************************************************************************)
LEMMA Writers ==
    ASSUME [Next]_vars
    PROVE  /\ call' = call
           /\ ledger' = ledger \/ \E r \in Requests : Charge(r)
           /\ grants' = grants \/ \E r \in Requests : AddWrite(r) \/ RelWrite(r)
           /\ linked' = linked \/ \E r \in Requests : AddWrite(r)
           /\ target' = target \/ \E r \in Requests : FindEvent(r)
           /\ had_grant' = had_grant \/ \E r \in Requests : HadGrant(r)
           /\ got' = got \/ \E r \in Requests : DedupHit(r) \/ LoadBlob(r) \/ BytesBlob(r)
<1> USE DEF localVars, storeVars, faultVars
<1>1. CASE UNCHANGED vars
  BY <1>1 DEF vars
<1>2. CASE Restart
  BY <1>2 DEF Restart
<1>3. CASE \E r \in Requests : CompressStep(r)
  BY <1>3 DEF CompressStep, FindEvent, DedupHit, DedupMiss, CreateTmp, WriteTmp, Rename,
              Record, HadGrant, AddFind, AddWrite, FindCharge
<1>4. CASE \E r \in Requests : DeleteStep(r)
  BY <1>4 DEF DeleteStep, RelFind, RelWrite, Count, Exists, Unlink, Unindex
<1>5. CASE \E r \in Requests : LoadStep(r)
  BY <1>5 DEF LoadStep, LoadGrant, LoadBlob, BytesGrant, BytesBlob
<1>6. CASE \E r \in Requests : Submit(r) \/ Charge(r) \/ StatementFails(r) \/ Disconnect(r)
  BY <1>6 DEF Submit, Charge, StatementFails, Disconnect
<1> QED
  BY <1>1, <1>2, <1>3, <1>4, <1>5, <1>6 DEF Next

\* The ledger only grows (README.md:515), whatever fails or crashes.
THEOREM LedgerOnlyGrows == Spec => LedgerAppendOnly
<1>1. [Next]_vars => [ledger \subseteq ledger']_ledger
  BY Writers DEF Charge
<1> QED
  BY <1>1, PTL DEF Spec, LedgerAppendOnly

\* No Idempotency-Key of a tenant is charged twice, whatever the retries race with.
THEOREM KeysAreChargedOnce == Spec => []OneChargePerKey
<1>1. Init => OneChargePerKey
  BY DEF Init, OneChargePerKey
<1>2. OneChargePerKey /\ [Next]_vars => OneChargePerKey'
  <2> SUFFICES ASSUME OneChargePerKey, [Next]_vars PROVE OneChargePerKey'
    OBVIOUS
  <2>1. CASE ledger' = ledger
    BY <2>1 DEF OneChargePerKey
  <2>2. ASSUME NEW r \in Requests, Charge(r) PROVE OneChargePerKey'
    <3>1. CASE KeyTaken(r)
      BY <2>2, <3>1 DEF Charge, OneChargePerKey
    <3>2. CASE ~KeyTaken(r)
      <4>1. ledger' = ledger \cup {Event(r)}
        BY <2>2, <3>2 DEF Charge
      <4>2. \A e \in ledger : Event(r).key # NoKey /\ e.key = Event(r).key
                                 => e.tenant # Event(r).tenant
        BY <3>2 DEF KeyTaken, EventsOf, Event
      <4> QED
        BY <4>1, <4>2 DEF OneChargePerKey
    <3> QED
      BY <3>1, <3>2
  <2> QED
    BY <2>1, <2>2, Writers
<1> QED
  BY <1>1, <1>2, PTL DEF Spec

----------------------------------------------------------------------------
(***************************************************************************)
(* The inductive invariant.  What a request may do next tells what it has   *)
(* done (ControlOK); with that, every reference, every essence about to be  *)
(* read and every "already yours" goes back to a send of the same tenant.   *)
(***************************************************************************)
CompressLabels == {"findEvent", "dedup", "create", "write", "rename", "record",
                   "hadGrant", "addFind", "addWrite", "findCharge"}
DeleteLabels == {"relFind", "relWrite", "count", "exists", "unlink", "unindex"}
AfterHadGrant == {"addFind", "addWrite", "findCharge", "charge"} \cup Finished
AfterLink == {"findCharge", "charge"} \cup Finished

ControlOK == \A r \in Requests :
    /\ pc[r] \in CompressLabels => call[r].op = "compress"
    /\ pc[r] \in DeleteLabels => call[r].op = "delete"
    /\ pc[r] = "findCharge" => r \in linked
    /\ pc[r] = "charge" => call[r].op # "compress" \/ r \in linked
    /\ r \in linked => call[r].op = "compress" /\ pc[r] \in AfterLink
    /\ had_grant[r] => pc[r] \in AfterHadGrant
    /\ call[r].op = "delete" => pc[r] \in DeleteLabels \cup {"new", "charge"} \cup Finished

GrantsLinked ==
    \A t \in Tenants, h \in Hashes : grants[t][h] > 0 => Sends(t, h) # {}

\* A request that has passed require_grant, or holds what it read after it.
Reads(r) ==
    \/ pc[r] \in {"loadBlob", "bytesBlob"}
    \/ pc[r] = "bytesGrant" /\ call[r].op = "compress"
    \/ got[r] # {} /\ call[r].op # "compress"

ReadersLinked ==
    \A r \in Requests : Reads(r) => Sends(call[r].tenant, target[r]) # {}

HadPrior ==
    \A r \in Requests : had_grant[r] => Sends(call[r].tenant, target[r]) \ {r} # {}

IInv == TypeOK /\ ControlOK /\ GrantsLinked /\ ReadersLinked /\ HadPrior

LEMMA InitInv == Init => IInv
<1> SUFFICES ASSUME Init PROVE IInv
  OBVIOUS
<1>1. ControlOK
  BY DEF Init, ControlOK, CompressLabels, DeleteLabels
<1>2. GrantsLinked
  BY DEF Init, GrantsLinked
<1>3. ReadersLinked /\ HadPrior
  BY DEF Init, ReadersLinked, Reads, HadPrior
<1> QED
  BY <1>1, <1>2, <1>3, InitTypes DEF IInv

LEMMA StepControl == TypeOK /\ ControlOK /\ [Next]_vars => ControlOK'
<1> SUFFICES ASSUME TypeOK, ControlOK, [Next]_vars PROVE ControlOK'
  OBVIOUS
<1> USE DEF Goto, AfterBlocking, ControlOK, CompressLabels, DeleteLabels, AfterHadGrant,
            AfterLink, Finished, localVars, storeVars, faultVars
<1>0. /\ pc \in [Requests -> Labels] /\ had_grant \in [Requests -> BOOLEAN]
      /\ linked \subseteq Requests
  BY DEF TypeOK
<1>1. ASSUME NEW r \in Requests, Submit(r) PROVE ControlOK'
  <2>1. call[r].op \in {"compress", "delete", "read", "essence"}
    BY DEF TypeOK, Calls
  <2>2. CASE call[r].op = "compress"
    BY <1>0, <1>1, <2>2 DEF Submit, FirstStep
  <2>3. CASE call[r].op = "delete"
    BY <1>0, <1>1, <2>3 DEF Submit, FirstStep
  <2>4. CASE call[r].op \in {"read", "essence"}
    <3>1. FirstStep(call[r]) \in {"loadGrant", "bytesGrant"}
      BY <2>4 DEF FirstStep
    <3> QED
      BY <1>0, <1>1, <2>4, <3>1 DEF Submit
  <2> QED
    BY <2>1, <2>2, <2>3, <2>4
<1>2. ASSUME NEW r \in Requests, FindEvent(r) PROVE ControlOK'
  BY <1>0, <1>2 DEF FindEvent
<1>3. ASSUME NEW r \in Requests, DedupHit(r) PROVE ControlOK'
  BY <1>0, <1>3 DEF DedupHit
<1>4. ASSUME NEW r \in Requests, DedupMiss(r) PROVE ControlOK'
  BY <1>0, <1>4 DEF DedupMiss
<1>5. ASSUME NEW r \in Requests, CreateTmp(r) PROVE ControlOK'
  BY <1>0, <1>5 DEF CreateTmp
<1>6. ASSUME NEW r \in Requests, WriteTmp(r) PROVE ControlOK'
  BY <1>0, <1>6 DEF WriteTmp
<1>7. ASSUME NEW r \in Requests, Rename(r) PROVE ControlOK'
  BY <1>0, <1>7 DEF Rename
<1>8. ASSUME NEW r \in Requests, Record(r) PROVE ControlOK'
  BY <1>0, <1>8 DEF Record
<1>9. ASSUME NEW r \in Requests, HadGrant(r) PROVE ControlOK'
  BY <1>0, <1>9 DEF HadGrant
<1>10. ASSUME NEW r \in Requests, AddFind(r) PROVE ControlOK'
  BY <1>0, <1>10 DEF AddFind
<1>11. ASSUME NEW r \in Requests, AddWrite(r) PROVE ControlOK'
  BY <1>0, <1>11 DEF AddWrite
<1>12. ASSUME NEW r \in Requests, FindCharge(r) PROVE ControlOK'
  BY <1>0, <1>12 DEF FindCharge
<1>13. ASSUME NEW r \in Requests, Charge(r) PROVE ControlOK'
  BY <1>0, <1>13 DEF Charge
<1>14. ASSUME NEW r \in Requests, RelFind(r) PROVE ControlOK'
  BY <1>0, <1>14 DEF RelFind
<1>15. ASSUME NEW r \in Requests, RelWrite(r) PROVE ControlOK'
  BY <1>0, <1>15 DEF RelWrite
<1>16. ASSUME NEW r \in Requests, Count(r) PROVE ControlOK'
  BY <1>0, <1>16 DEF Count
<1>17. ASSUME NEW r \in Requests, Exists(r) PROVE ControlOK'
  BY <1>0, <1>17 DEF Exists
<1>18. ASSUME NEW r \in Requests, Unlink(r) PROVE ControlOK'
  BY <1>0, <1>18 DEF Unlink
<1>19. ASSUME NEW r \in Requests, Unindex(r) PROVE ControlOK'
  BY <1>0, <1>19 DEF Unindex
<1>20. ASSUME NEW r \in Requests, LoadGrant(r) PROVE ControlOK'
  BY <1>0, <1>20 DEF LoadGrant, RequireGrant
<1>21. ASSUME NEW r \in Requests, LoadBlob(r) PROVE ControlOK'
  BY <1>0, <1>21 DEF LoadBlob
<1>22. ASSUME NEW r \in Requests, BytesGrant(r) PROVE ControlOK'
  BY <1>0, <1>22 DEF BytesGrant, RequireGrant
<1>23. ASSUME NEW r \in Requests, BytesBlob(r) PROVE ControlOK'
  BY <1>0, <1>23 DEF BytesBlob
<1>24. ASSUME NEW r \in Requests, StatementFails(r) PROVE ControlOK'
  BY <1>0, <1>24 DEF StatementFails, AfterError, Waiting, Blocking
<1>25. ASSUME NEW r \in Requests, Disconnect(r) PROVE ControlOK'
  BY <1>0, <1>25 DEF Disconnect, Waiting, Blocking
<1>26. CASE Restart
  BY <1>0, <1>26 DEF Restart, Active, Waiting, Blocking
<1>27. CASE UNCHANGED vars
  BY <1>27 DEF vars
<1> QED
  BY <1>1, <1>2, <1>3, <1>4, <1>5, <1>6, <1>7, <1>8, <1>9, <1>10, <1>11, <1>12, <1>13,
     <1>14, <1>15, <1>16, <1>17, <1>18, <1>19, <1>20, <1>21, <1>22, <1>23, <1>24, <1>25, <1>26, <1>27
  DEF Next, CompressStep, DeleteStep, LoadStep

\* Sends are never taken back: whoever wrote a reference keeps its target.
LEMMA SendsStay ==
    ASSUME TypeOK, ControlOK, [Next]_vars
    PROVE  /\ call' = call
           /\ \A q \in linked : q \in linked' /\ target'[q] = target[q]
           /\ \A t \in Tenants, h \in Hashes : Sends(t, h) \subseteq Sends(t, h)'
<1>1. linked \subseteq linked' /\ call' = call
  BY Writers DEF AddWrite
<1>2. \A q \in linked : target'[q] = target[q]
  <2>1. ASSUME NEW r \in Requests, FindEvent(r), NEW q \in linked
        PROVE  target'[q] = target[q]
    <3>1. q # r
      BY <2>1 DEF ControlOK, FindEvent, AfterLink, Finished
    <3>2. target' = target \/ \E x \in Hashes : target' = [target EXCEPT ![r] = x]
      BY <2>1 DEF FindEvent, EventsOf, TypeOK, Events
    <3> QED
      BY <2>1, <3>1, <3>2 DEF TypeOK
  <2> QED
    BY <2>1, Writers
<1> QED
  BY <1>1, <1>2 DEF Sends

LEMMA StepGrants == TypeOK /\ ControlOK /\ GrantsLinked /\ [Next]_vars => GrantsLinked'
<1> SUFFICES ASSUME TypeOK, ControlOK, GrantsLinked, [Next]_vars,
                    NEW t \in Tenants, NEW h \in Hashes, grants'[t][h] > 0
             PROVE  Sends(t, h)' # {}
  BY DEF GrantsLinked
<1>1. CASE grants[t][h] > 0
  BY <1>1, SendsStay DEF GrantsLinked
<1>2. CASE ~(grants[t][h] > 0)
  <2>1. ASSUME NEW r \in Requests, AddWrite(r) PROVE Sends(t, h)' # {}
    <3>1. SetRefs(r, seen[r] + 1) /\ seen[r] + 1 \in Nat
      BY <1>2, <2>1 DEF AddWrite, TypeOK
    <3>2. t = call[r].tenant /\ h = target[r]
      BY <1>2, <3>1, SetRefsRow
    <3>3. r \in linked' /\ call' = call /\ target' = target
      BY <1>2, <2>1 DEF AddWrite, localVars
    <3> QED
      BY <3>2, <3>3 DEF Sends
  <2>2. ASSUME NEW r \in Requests, RelWrite(r) PROVE FALSE
    <3>1. seen[r] \in Nat
      BY DEF TypeOK
    <3>2. CASE RowExists(r) /\ SetRefs(r, seen[r] - 1) /\ seen[r] > 1
      BY <1>2, <3>1, <3>2, SetRefsRow DEF RowExists
    <3>3. CASE SetRefs(r, 0)
      BY <1>2, <3>3, SetRefsRow
    <3>4. CASE grants' = grants
      BY <1>2, <3>4
    <3> QED
      BY <2>2, <3>2, <3>3, <3>4 DEF RelWrite
  <2> QED
    BY <1>2, <2>1, <2>2, Writers
<1> QED
  BY <1>1, <1>2

\* A request starts to read only through require_grant.
LEMMA WhoReads ==
    ASSUME TypeOK, ControlOK, [Next]_vars, NEW r \in Requests, Reads(r)', ~Reads(r)
    PROVE  target'[r] = target[r] /\ grants[call[r].tenant][target[r]] > 0
<1> USE DEF Goto, AfterBlocking, localVars, storeVars, faultVars, Reads
<1>0. /\ pc \in [Requests -> Labels] /\ got \in [Requests -> SUBSET Contents]
      /\ target \in [Requests -> Hashes]
  BY DEF TypeOK
<1>1. CASE UNCHANGED vars
  BY <1>1 DEF vars
<1>2. CASE Restart
  BY <1>0, <1>2 DEF Restart
<1>3. ASSUME NEW q \in Requests, CompressStep(q)
      PROVE  target'[r] = target[r] /\ grants[call[r].tenant][target[r]] > 0
  <2>1. call[q].op = "compress"
    BY <1>3 DEF CompressStep, FindEvent, DedupHit, DedupMiss, CreateTmp, WriteTmp, Rename,
                Record, HadGrant, AddFind, AddWrite, FindCharge, ControlOK, CompressLabels
  <2> QED
    BY <1>0, <1>3, <2>1
    DEF CompressStep, FindEvent, DedupHit, DedupMiss, CreateTmp, WriteTmp, Rename,
        Record, HadGrant, AddFind, AddWrite, FindCharge
<1>4. ASSUME NEW q \in Requests, DeleteStep(q)
      PROVE  target'[r] = target[r] /\ grants[call[r].tenant][target[r]] > 0
  BY <1>0, <1>4 DEF DeleteStep, RelFind, RelWrite, Count, Exists, Unlink, Unindex
<1>5. ASSUME NEW q \in Requests, LoadStep(q)
      PROVE  target'[r] = target[r] /\ grants[call[r].tenant][target[r]] > 0
  <2>1. CASE LoadGrant(q) \/ BytesGrant(q)
    BY <1>0, <2>1 DEF LoadGrant, BytesGrant, RequireGrant, RowExists
  <2>2. CASE LoadBlob(q) \/ BytesBlob(q)
    BY <1>0, <2>2 DEF LoadBlob, BytesBlob
  <2> QED
    BY <1>5, <2>1, <2>2 DEF LoadStep
<1>6. ASSUME NEW q \in Requests,
             Submit(q) \/ Charge(q) \/ StatementFails(q) \/ Disconnect(q)
      PROVE  target'[r] = target[r] /\ grants[call[r].tenant][target[r]] > 0
  <2>1. CASE Submit(q)
    <3>1. call[q].op \in {"compress", "delete", "read", "essence"}
      BY DEF TypeOK, Calls
    <3>2. FirstStep(call[q]) \notin {"loadBlob", "bytesBlob"}
      BY <3>1 DEF FirstStep
    <3>3. call[q].op = "compress" => FirstStep(call[q]) # "bytesGrant"
      BY DEF FirstStep
    <3> QED
      BY <1>0, <2>1, <3>2, <3>3 DEF Submit
  <2>2. CASE Charge(q) \/ StatementFails(q) \/ Disconnect(q)
    BY <1>0, <2>2 DEF Charge, StatementFails, AfterError, Disconnect
  <2> QED
    BY <1>6, <2>1, <2>2
<1> QED
  BY <1>1, <1>2, <1>3, <1>4, <1>5, <1>6 DEF Next

LEMMA StepReaders ==
    TypeOK /\ ControlOK /\ GrantsLinked /\ ReadersLinked /\ [Next]_vars => ReadersLinked'
<1> SUFFICES ASSUME TypeOK, ControlOK, GrantsLinked, ReadersLinked, [Next]_vars,
                    NEW r \in Requests, Reads(r)'
             PROVE  Sends(call[r].tenant, target[r])' # {}
  BY DEF ReadersLinked
<1>0. call[r].tenant \in Tenants /\ target[r] \in Hashes /\ call' = call
  BY SendsStay DEF TypeOK, Calls
<1>1. target'[r] = target[r] /\ Sends(call[r].tenant, target[r]) # {}
  <2>1. CASE ~Reads(r)
    BY <1>0, <2>1, WhoReads DEF GrantsLinked
  <2>2. CASE Reads(r)
    <3>1. ASSUME NEW q \in Requests, FindEvent(q) PROVE target'[r] = target[r]
      <4>1. q # r
        BY <2>2, <3>1 DEF FindEvent, Reads, ControlOK, CompressLabels
      <4> QED
        BY <3>1, <4>1 DEF FindEvent, TypeOK
    <3>2. target'[r] = target[r]
      BY <3>1, Writers
    <3> QED
      BY <2>2, <3>2 DEF ReadersLinked
  <2> QED
    BY <2>1, <2>2
<1>2. PICK q \in linked : call[q].tenant = call[r].tenant /\ target[q] = target[r]
  BY <1>1 DEF Sends
<1> QED
  BY <1>0, <1>1, <1>2, SendsStay DEF Sends

LEMMA StepPrior ==
    TypeOK /\ ControlOK /\ GrantsLinked /\ HadPrior /\ [Next]_vars => HadPrior'
<1> SUFFICES ASSUME TypeOK, ControlOK, GrantsLinked, HadPrior, [Next]_vars,
                    NEW r \in Requests, had_grant'[r]
             PROVE  Sends(call[r].tenant, target[r])' \ {r} # {}
  BY DEF HadPrior
<1>0. call[r].tenant \in Tenants /\ target[r] \in Hashes /\ call' = call
  BY SendsStay DEF TypeOK, Calls
<1>1. target'[r] = target[r] /\ Sends(call[r].tenant, target[r]) \ {r} # {}
  <2>1. CASE had_grant[r]
    <3>1. ASSUME NEW q \in Requests, FindEvent(q) PROVE target'[r] = target[r]
      <4>1. q # r
        BY <2>1, <3>1 DEF FindEvent, ControlOK, AfterHadGrant, Finished
      <4> QED
        BY <3>1, <4>1 DEF FindEvent, TypeOK
    <3>2. target'[r] = target[r]
      BY <3>1, Writers
    <3> QED
      BY <2>1, <3>2 DEF HadPrior
  <2>2. CASE ~had_grant[r]
    <3>1. PICK q \in Requests : HadGrant(q)
      BY <2>2, Writers
    <3>2. q = r
      BY <2>2, <3>1 DEF HadGrant, TypeOK
    <3>3. grants[call[r].tenant][target[r]] > 0 /\ target' = target
      BY <2>2, <3>1, <3>2 DEF HadGrant, TypeOK
    <3>4. Sends(call[r].tenant, target[r]) # {}
      BY <1>0, <3>3 DEF GrantsLinked
    <3>5. r \notin linked
      BY <3>1, <3>2 DEF HadGrant, ControlOK, AfterLink, Finished
    <3> QED
      BY <3>3, <3>4, <3>5 DEF Sends
  <2> QED
    BY <2>1, <2>2
<1>2. PICK q \in linked : /\ call[q].tenant = call[r].tenant
                           /\ target[q] = target[r] /\ q # r
  BY <1>1 DEF Sends
<1> QED
  BY <1>0, <1>1, <1>2, SendsStay DEF Sends

LEMMA Inductive == Spec => []IInv
<1>1. IInv /\ [Next]_vars => IInv'
  BY StepTypes, StepControl, StepGrants, StepReaders, StepPrior DEF IInv
<1> QED
  BY <1>1, InitInv, PTL DEF Spec

----------------------------------------------------------------------------
\* No request hands a tenant the bytes of an essence that no send of that tenant ever
\* referenced, whatever it races with and whatever fails.
THEOREM TenantsAreIsolated == Spec => []TenantIsolation
<1>1. IInv => TenantIsolation
  <2> SUFFICES ASSUME IInv, NEW r \in Requests, got[r] # {},
                      call[r].op # "compress" \/ pc[r] \in {"bytesGrant", "bytesBlob"}
               PROVE  Sends(call[r].tenant, target[r]) # {}
    BY DEF TenantIsolation
  <2>1. Reads(r)
    BY DEF Reads
  <2> QED
    BY <2>1 DEF IInv, ReadersLinked
<1> QED
  BY <1>1, Inductive, PTL

\* What is billed was archived before: the event comes after the reference.
THEOREM BillsFollowArchives == Spec => []BilledWasArchived
<1>1. Init => BilledWasArchived
  BY DEF Init, BilledWasArchived
<1>2. IInv /\ BilledWasArchived /\ [Next]_vars => BilledWasArchived'
  <2> SUFFICES ASSUME IInv, BilledWasArchived, [Next]_vars PROVE BilledWasArchived'
    OBVIOUS
  <2>0. TypeOK /\ ControlOK
    BY DEF IInv
  <2>1. \A q \in linked : q \in linked' /\ target'[q] = target[q]
    BY <2>0, SendsStay
  <2>2. CASE ledger' = ledger
    BY <2>1, <2>2 DEF BilledWasArchived
  <2>3. ASSUME NEW r \in Requests, Charge(r) PROVE BilledWasArchived'
    <3>1. call[r].op = "compress" => r \in linked
      BY <2>0, <2>3 DEF Charge, ControlOK
    <3>2. ledger' \subseteq ledger \cup {Event(r)}
      BY <2>3 DEF Charge
    <3> QED
      BY <2>1, <3>1, <3>2 DEF BilledWasArchived, Event
  <2> QED
    BY <2>2, <2>3, Writers
<1> QED
  BY <1>1, <1>2, Inductive, PTL DEF Spec

\* An answer says "already yours" only of what this tenant sent before: it never betrays
\* what other tenants archived.
THEOREM DedupIsOwn == Spec => []DedupOnlyOwn
<1>1. Init => DedupOnlyOwn
  BY DEF Init, DedupOnlyOwn
<1>2. IInv /\ DedupOnlyOwn /\ [Next]_vars => DedupOnlyOwn'
  <2> SUFFICES ASSUME IInv, DedupOnlyOwn, [Next]_vars PROVE DedupOnlyOwn'
    OBVIOUS
  <2>0. TypeOK /\ ControlOK /\ HadPrior
    BY DEF IInv
  <2>1. \A t \in Tenants, h \in Hashes : Sends(t, h) \subseteq Sends(t, h)'
    BY <2>0, SendsStay
  <2>2. \A e \in ledger : e.tenant \in Tenants /\ e.hash \in Hashes
    BY <2>0 DEF TypeOK, Events
  <2>3. CASE ledger' = ledger
    BY <2>1, <2>2, <2>3 DEF DedupOnlyOwn
  <2>4. ASSUME NEW r \in Requests, Charge(r) PROVE DedupOnlyOwn'
    <3>1. call[r].tenant \in Tenants /\ target[r] \in Hashes
      BY <2>0 DEF TypeOK, Calls
    <3>2. ledger' \subseteq ledger \cup {Event(r)}
      BY <2>4 DEF Charge
    <3>3. Event(r).dedup_scope = "tenant" => Sends(call[r].tenant, target[r]) \ {r} # {}
      BY <2>0 DEF Event, DedupScope, HadPrior
    <3>4. Event(r).tenant = call[r].tenant /\ Event(r).hash = target[r] /\ Event(r).req = r
      BY DEF Event
    <3> QED
      BY <2>1, <2>2, <3>1, <3>2, <3>3, <3>4 DEF DedupOnlyOwn
  <2> QED
    BY <2>3, <2>4, Writers
<1> QED
  BY <1>1, <1>2, Inductive, PTL DEF Spec

----------------------------------------------------------------------------
(***************************************************************************)
(* A reference and its file.  A send that is past the rename, or that found *)
(* the essence, knows the file is there unless a delete has come.           *)
(***************************************************************************)
Kept(h) == final[h] # NoFile \/ Released(h)

SendsHaveFile ==
    \A r \in Requests :
        pc[r] \in {"record", "hadGrant", "addFind", "addWrite"} => Kept(target[r])

FileInv == GrantHasFile /\ SendsHaveFile

\* A delete that found its row stays in sight.
LEMMA ReleasedStays ==
    ASSUME TypeOK, ControlOK, [Next]_vars, NEW h \in Hashes, Released(h)
    PROVE  Released(h)'
<1>1. PICK d \in Requests : /\ call[d].op = "delete" /\ target[d] = h
                            /\ pc[d] \notin {"new", "relFind", "missing"}
  BY DEF Released
<1>2. call' = call
  BY Writers
<1>3. target'[d] = target[d]
  <2>1. ASSUME NEW q \in Requests, FindEvent(q) PROVE target'[d] = target[d]
    <3>1. q # d
      BY <1>1, <2>1 DEF FindEvent, ControlOK, CompressLabels
    <3> QED
      BY <2>1, <3>1 DEF FindEvent, TypeOK
  <2> QED
    BY <2>1, Writers
<1>4. pc'[d] \notin {"new", "relFind", "missing"}
  <2> USE DEF Goto, AfterBlocking, localVars, storeVars, faultVars
  <2>0. /\ pc \in [Requests -> Labels]
        /\ pc[d] \in (DeleteLabels \ {"relFind"}) \cup {"charge"} \cup (Finished \ {"missing"})
    BY <1>1 DEF TypeOK, ControlOK, DeleteLabels, Finished
  <2>1. CASE UNCHANGED vars
    BY <1>1, <2>1 DEF vars
  <2>2. CASE Restart
    BY <1>1, <2>0, <2>2 DEF Restart
  <2>3. ASSUME NEW q \in Requests, CompressStep(q) \/ LoadStep(q)
        PROVE  pc'[d] \notin {"new", "relFind", "missing"}
    <3>1. q # d
      BY <2>0, <2>3
      DEF CompressStep, FindEvent, DedupHit, DedupMiss, CreateTmp, WriteTmp, Rename, Record,
          HadGrant, AddFind, AddWrite, FindCharge, LoadStep, LoadGrant, LoadBlob, BytesGrant,
          BytesBlob, DeleteLabels, Finished
    <3> QED
      BY <1>1, <2>0, <2>3, <3>1
      DEF CompressStep, FindEvent, DedupHit, DedupMiss, CreateTmp, WriteTmp, Rename, Record,
          HadGrant, AddFind, AddWrite, FindCharge, LoadStep, LoadGrant, LoadBlob, BytesGrant,
          BytesBlob, RequireGrant
  <2>4. ASSUME NEW q \in Requests, DeleteStep(q)
        PROVE  pc'[d] \notin {"new", "relFind", "missing"}
    BY <1>1, <2>0, <2>4 DEF DeleteStep, RelFind, RelWrite, Count, Exists, Unlink, Unindex
  <2>5. ASSUME NEW q \in Requests, Submit(q)
        PROVE  pc'[d] \notin {"new", "relFind", "missing"}
    BY <1>1, <2>0, <2>5 DEF Submit
  <2>6. ASSUME NEW q \in Requests, Charge(q) \/ StatementFails(q) \/ Disconnect(q)
        PROVE  pc'[d] \notin {"new", "relFind", "missing"}
    BY <1>1, <2>0, <2>6 DEF Charge, StatementFails, AfterError, Disconnect, DeleteLabels, Finished
  <2> QED
    BY <2>1, <2>2, <2>3, <2>4, <2>5, <2>6 DEF Next
<1> QED
  BY <1>1, <1>2, <1>3, <1>4 DEF Released

LEMMA KeptStays ==
    ASSUME TypeOK, ControlOK, [Next]_vars, NEW h \in Hashes, Kept(h)
    PROVE  Kept(h)'
<1>1. CASE Released(h)
  BY <1>1, ReleasedStays DEF Kept
<1>2. CASE final[h] # NoFile
  <2>1. final' = final \/ \E r \in Requests : Rename(r) \/ Unlink(r)
    <3> USE DEF localVars, storeVars, faultVars
    <3>1. CASE UNCHANGED vars \/ Restart
      BY <3>1 DEF vars, Restart
    <3>2. CASE \E r \in Requests : CompressStep(r)
      BY <3>2 DEF CompressStep, FindEvent, DedupHit, DedupMiss, CreateTmp, WriteTmp,
                  Record, HadGrant, AddFind, AddWrite, FindCharge
    <3>3. CASE \E r \in Requests : DeleteStep(r)
      BY <3>3 DEF DeleteStep, RelFind, RelWrite, Count, Exists, Unindex
    <3>4. CASE \E r \in Requests : LoadStep(r) \/ Submit(r) \/ Charge(r)
                                      \/ StatementFails(r) \/ Disconnect(r)
      BY <3>4 DEF LoadStep, LoadGrant, LoadBlob, BytesGrant, BytesBlob, Submit, Charge,
                  StatementFails, Disconnect
    <3> QED
      BY <3>1, <3>2, <3>3, <3>4 DEF Next
  <2>2. ASSUME NEW r \in Requests, Rename(r) PROVE Kept(h)'
    BY <1>2, <2>2 DEF Rename, Kept, TypeOK
  <2>3. ASSUME NEW r \in Requests, Unlink(r) PROVE Kept(h)'
    <3>1. CASE target[r] # h
      BY <1>2, <2>3, <3>1 DEF Unlink, Kept, TypeOK
    <3>2. CASE target[r] = h
      <4>1. Released(h)
        BY <2>3, <3>2 DEF Unlink, Released, ControlOK, DeleteLabels
      <4> QED
        BY <4>1, ReleasedStays DEF Kept
    <3> QED
      BY <3>1, <3>2
  <2> QED
    BY <1>2, <2>1, <2>2, <2>3 DEF Kept
<1> QED
  BY <1>1, <1>2 DEF Kept

\* A send comes past the rename only by publishing the file, or by reading it.
LEMMA WhoSends ==
    ASSUME TypeOK, [Next]_vars, NEW r \in Requests,
           pc'[r] \in {"record", "hadGrant", "addFind", "addWrite"}
    PROVE  \/ pc[r] \in {"record", "hadGrant", "addFind", "addWrite"} /\ target'[r] = target[r]
           \/ final'[target[r]] # NoFile /\ target'[r] = target[r]
<1> USE DEF Goto, AfterBlocking, localVars, storeVars, faultVars
<1>0. /\ pc \in [Requests -> Labels] /\ tmp \in [Hashes -> Files]
      /\ final \in [Hashes -> Files] /\ target \in [Requests -> Hashes]
  BY DEF TypeOK
<1>1. CASE UNCHANGED vars
  BY <1>1 DEF vars
<1>2. CASE Restart
  BY <1>0, <1>2 DEF Restart
<1>3. ASSUME NEW q \in Requests, Rename(q)
      PROVE  \/ pc[r] \in {"record", "hadGrant", "addFind", "addWrite"} /\ target'[r] = target[r]
             \/ final'[target[r]] # NoFile /\ target'[r] = target[r]
  BY <1>0, <1>3 DEF Rename
<1>4. ASSUME NEW q \in Requests, DedupHit(q)
      PROVE  \/ pc[r] \in {"record", "hadGrant", "addFind", "addWrite"} /\ target'[r] = target[r]
             \/ final'[target[r]] # NoFile /\ target'[r] = target[r]
  BY <1>0, <1>4 DEF DedupHit, Published
<1>5. ASSUME NEW q \in Requests,
             \/ DedupMiss(q) \/ CreateTmp(q) \/ WriteTmp(q) \/ Record(q) \/ HadGrant(q)
             \/ AddFind(q) \/ AddWrite(q) \/ FindCharge(q)
      PROVE  \/ pc[r] \in {"record", "hadGrant", "addFind", "addWrite"} /\ target'[r] = target[r]
             \/ final'[target[r]] # NoFile /\ target'[r] = target[r]
  BY <1>0, <1>5 DEF DedupMiss, CreateTmp, WriteTmp, Record, HadGrant, AddFind, AddWrite,
                    FindCharge
<1>6. ASSUME NEW q \in Requests, FindEvent(q)
      PROVE  \/ pc[r] \in {"record", "hadGrant", "addFind", "addWrite"} /\ target'[r] = target[r]
             \/ final'[target[r]] # NoFile /\ target'[r] = target[r]
  BY <1>0, <1>6 DEF FindEvent
<1>7. ASSUME NEW q \in Requests, DeleteStep(q)
      PROVE  \/ pc[r] \in {"record", "hadGrant", "addFind", "addWrite"} /\ target'[r] = target[r]
             \/ final'[target[r]] # NoFile /\ target'[r] = target[r]
  BY <1>0, <1>7 DEF DeleteStep, RelFind, RelWrite, Count, Exists, Unlink, Unindex
<1>8. ASSUME NEW q \in Requests, LoadStep(q)
      PROVE  \/ pc[r] \in {"record", "hadGrant", "addFind", "addWrite"} /\ target'[r] = target[r]
             \/ final'[target[r]] # NoFile /\ target'[r] = target[r]
  BY <1>0, <1>8 DEF LoadStep, LoadGrant, LoadBlob, BytesGrant, BytesBlob, RequireGrant
<1>9. ASSUME NEW q \in Requests,
             Submit(q) \/ Charge(q) \/ StatementFails(q) \/ Disconnect(q)
      PROVE  \/ pc[r] \in {"record", "hadGrant", "addFind", "addWrite"} /\ target'[r] = target[r]
             \/ final'[target[r]] # NoFile /\ target'[r] = target[r]
  <2>1. CASE Submit(q)
    <3>1. call[q].op \in {"compress", "delete", "read", "essence"}
      BY DEF TypeOK, Calls
    <3>2. FirstStep(call[q]) \notin {"record", "hadGrant", "addFind", "addWrite"}
      BY <3>1 DEF FirstStep
    <3> QED
      BY <1>0, <2>1, <3>2 DEF Submit
  <2>2. CASE Charge(q) \/ StatementFails(q) \/ Disconnect(q)
    BY <1>0, <2>2 DEF Charge, StatementFails, AfterError, Disconnect
  <2> QED
    BY <1>9, <2>1, <2>2
<1> QED
  BY <1>1, <1>2, <1>3, <1>4, <1>5, <1>6, <1>7, <1>8, <1>9 DEF Next, CompressStep

LEMMA StepFile == TypeOK /\ ControlOK /\ FileInv /\ [Next]_vars => FileInv'
<1> SUFFICES ASSUME TypeOK, ControlOK, FileInv, [Next]_vars PROVE FileInv'
  OBVIOUS
<1>1. ASSUME NEW r \in Requests, pc'[r] \in {"record", "hadGrant", "addFind", "addWrite"}
      PROVE  Kept(target[r])' /\ target'[r] = target[r]
  <2>1. target[r] \in Hashes
    BY DEF TypeOK
  <2>2. CASE pc[r] \in {"record", "hadGrant", "addFind", "addWrite"} /\ target'[r] = target[r]
    <3>1. PICK h \in Hashes : h = target[r]
      BY <2>1
    <3>2. Kept(h)
      BY <2>2, <3>1 DEF FileInv, SendsHaveFile
    <3>3. Kept(h)'
      BY <3>2, KeptStays
    <3> QED
      BY <2>2, <3>1, <3>3 DEF Kept, Released
  <2>3. CASE final'[target[r]] # NoFile /\ target'[r] = target[r]
    BY <2>3 DEF Kept
  <2> QED
    BY <1>1, <2>2, <2>3, WhoSends
<1>2. SendsHaveFile'
  BY <1>1 DEF SendsHaveFile
<1>3. ASSUME NEW t \in Tenants, NEW h \in Hashes, grants'[t][h] > 0
      PROVE  Kept(h)'
  <2>1. CASE grants[t][h] > 0
    <3>1. Kept(h)
      BY <2>1 DEF FileInv, GrantHasFile, Kept
    <3> QED
      BY <3>1, KeptStays
  <2>2. CASE ~(grants[t][h] > 0)
    <3>1. ASSUME NEW r \in Requests, AddWrite(r) PROVE Kept(h)'
      <4>1. SetRefs(r, seen[r] + 1) /\ seen[r] + 1 \in Nat
        BY <2>2, <1>3, <3>1 DEF AddWrite, TypeOK
      <4>2. h = target[r]
        BY <1>3, <2>2, <4>1, SetRefsRow
      <4>3. Kept(h)
        BY <3>1, <4>2 DEF AddWrite, FileInv, SendsHaveFile
      <4> QED
        BY <4>3, KeptStays
    <3>2. ASSUME NEW r \in Requests, RelWrite(r) PROVE Kept(h)'
      <4>1. seen[r] \in Nat
        BY DEF TypeOK
      <4>2. CASE RowExists(r) /\ SetRefs(r, seen[r] - 1) /\ seen[r] > 1
        BY <1>3, <2>2, <4>1, <4>2, SetRefsRow DEF RowExists
      <4>3. CASE SetRefs(r, 0)
        BY <1>3, <2>2, <4>3, SetRefsRow
      <4>4. CASE grants' = grants
        BY <1>3, <2>2, <4>4
      <4> QED
        BY <3>2, <4>2, <4>3, <4>4 DEF RelWrite
    <3> QED
      BY <1>3, <2>2, <3>1, <3>2, Writers
  <2> QED
    BY <2>1, <2>2
<1>4. GrantHasFile'
  BY <1>3 DEF GrantHasFile, Kept
<1> QED
  BY <1>2, <1>4 DEF FileInv

\* A reference has its file until a delete of that content finds a row: no number of
\* concurrent sends, failures and restarts takes the file from under a reference.
THEOREM ReferencesHaveFiles == Spec => []GrantHasFile
<1>1. Init => FileInv
  BY DEF Init, FileInv, GrantHasFile, SendsHaveFile
<1>2. IInv /\ FileInv /\ [Next]_vars => FileInv'
  BY StepFile DEF IInv
<1>3. FileInv => GrantHasFile
  BY DEF FileInv
<1> QED
  BY <1>1, <1>2, <1>3, Inductive, PTL DEF Spec

----------------------------------------------------------------------------
(***************************************************************************)
(* An answered compress and its event.  A failing statement breaks the link *)
(* (usage::record only logs its error), so nothing fails here.             *)
(***************************************************************************)
Billed(r) ==
    \E e \in ledger :
       /\ e.tenant = call[r].tenant
       /\ e.op = "compress"
       /\ e.req = r \/ (call[r].key # NoKey /\ e.key = call[r].key)

\* A replay has found the event of its key; a compress that answers has one.
Settled(r) ==
    call[r].op = "compress" /\ pc[r] \in {"loadGrant", "loadBlob", "bytesGrant", "bytesBlob", "ok"}

KeysAreOfCompress == \A e \in ledger : e.key # NoKey => e.op = "compress"
SettledBilled == \A r \in Requests : Settled(r) => Billed(r)
Keyed == \A r \in Requests : pc[r] = "findEvent" => call[r].key # NoKey
BillInv == KeysAreOfCompress /\ SettledBilled /\ Keyed

LEMMA BilledStays ==
    ASSUME [Next]_vars, NEW r \in Requests, Billed(r)
    PROVE  Billed(r)'
BY Writers DEF Billed, Charge

\* Without failing statements a compress settles by finding an event or by writing one.
LEMMA WhoSettles ==
    ASSUME TypeOK, ControlOK, MaxFaults = 0, [Next]_vars,
           NEW r \in Requests, Settled(r)', ~Settled(r)
    PROVE  FindEvent(r) \/ FindCharge(r) \/ Charge(r)
<1> USE DEF Goto, AfterBlocking, localVars, storeVars, faultVars, Settled
<1>0. pc \in [Requests -> Labels]
  BY DEF TypeOK
<1>1. call' = call
  BY Writers
<1>2. CASE UNCHANGED vars
  BY <1>2 DEF vars
<1>3. CASE Restart
  BY <1>0, <1>1, <1>3 DEF Restart
<1>4. ASSUME NEW q \in Requests, CompressStep(q)
      PROVE  FindEvent(r) \/ FindCharge(r) \/ Charge(r)
  BY <1>0, <1>1, <1>4
  DEF CompressStep, FindEvent, DedupHit, DedupMiss, CreateTmp, WriteTmp, Rename,
      Record, HadGrant, AddFind, AddWrite, FindCharge
<1>5. ASSUME NEW q \in Requests, DeleteStep(q)
      PROVE  FindEvent(r) \/ FindCharge(r) \/ Charge(r)
  BY <1>0, <1>1, <1>5 DEF DeleteStep, RelFind, RelWrite, Count, Exists, Unlink, Unindex
<1>6. ASSUME NEW q \in Requests, LoadStep(q)
      PROVE  FindEvent(r) \/ FindCharge(r) \/ Charge(r)
  BY <1>0, <1>1, <1>6 DEF LoadStep, LoadGrant, LoadBlob, BytesGrant, BytesBlob, RequireGrant
<1>7. ASSUME NEW q \in Requests, Submit(q)
      PROVE  FindEvent(r) \/ FindCharge(r) \/ Charge(r)
  <2>1. call[q].op = "compress" => FirstStep(call[q]) \in {"dedup", "findEvent"}
    BY DEF FirstStep
  <2> QED
    BY <1>0, <1>1, <1>7, <2>1 DEF Submit
<1>8. ASSUME NEW q \in Requests, Charge(q)
      PROVE  FindEvent(r) \/ FindCharge(r) \/ Charge(r)
  BY <1>0, <1>1, <1>8 DEF Charge
<1>9. ASSUME NEW q \in Requests, StatementFails(q) \/ Disconnect(q)
      PROVE  FALSE
  BY <1>9 DEF StatementFails, Disconnect, TypeOK
<1> QED
  BY <1>2, <1>3, <1>4, <1>5, <1>6, <1>7, <1>8, <1>9 DEF Next

\* Only an arriving request looks for the event of its key, and only if it has one.
LEMMA StepKeyed == TypeOK /\ Keyed /\ [Next]_vars => Keyed'
<1> SUFFICES ASSUME TypeOK, Keyed, [Next]_vars,
                    NEW r \in Requests, pc'[r] = "findEvent", pc[r] # "findEvent"
             PROVE  call[r].key # NoKey
  BY Writers DEF Keyed
<1> USE DEF Goto, AfterBlocking
<1>0. pc \in [Requests -> Labels]
  BY DEF TypeOK
<1>1. CASE UNCHANGED vars
  BY <1>1 DEF vars
<1>2. CASE Restart
  BY <1>0, <1>2 DEF Restart
<1>3. ASSUME NEW q \in Requests, CompressStep(q) PROVE FALSE
  BY <1>0, <1>3
  DEF CompressStep, FindEvent, DedupHit, DedupMiss, CreateTmp, WriteTmp, Rename,
      Record, HadGrant, AddFind, AddWrite, FindCharge
<1>4. ASSUME NEW q \in Requests, DeleteStep(q) \/ LoadStep(q) PROVE FALSE
  BY <1>0, <1>4
  DEF DeleteStep, RelFind, RelWrite, Count, Exists, Unlink, Unindex,
      LoadStep, LoadGrant, LoadBlob, BytesGrant, BytesBlob, RequireGrant
<1>5. ASSUME NEW q \in Requests, Charge(q) \/ StatementFails(q) \/ Disconnect(q) PROVE FALSE
  BY <1>0, <1>5 DEF Charge, StatementFails, AfterError, Disconnect
<1>6. ASSUME NEW q \in Requests, Submit(q) PROVE call[r].key # NoKey
  <2>1. q = r /\ FirstStep(call[r]) = "findEvent"
    BY <1>0, <1>6 DEF Submit
  <2>2. call[r].op \in {"compress", "delete", "read", "essence"}
    BY DEF TypeOK, Calls
  <2> QED
    BY <2>1, <2>2 DEF FirstStep
<1> QED
  BY <1>1, <1>2, <1>3, <1>4, <1>5, <1>6 DEF Next

LEMMA StepBill ==
    ASSUME TypeOK, ControlOK, MaxFaults = 0, BillInv, [Next]_vars
    PROVE  BillInv'
<1>1. KeysAreOfCompress'
  <2>1. ASSUME NEW q \in Requests, Charge(q) PROVE KeysAreOfCompress'
    <3>1. Event(q).key # NoKey => Event(q).op = "compress"
      BY DEF Event, TypeOK, Calls
    <3>2. ledger' \subseteq ledger \cup {Event(q)}
      BY <2>1 DEF Charge
    <3> QED
      BY <3>1, <3>2 DEF BillInv, KeysAreOfCompress
  <2> QED
    BY <2>1, Writers DEF BillInv, KeysAreOfCompress
<1>2. ASSUME NEW r \in Requests, Settled(r)' PROVE Billed(r)'
  \* The event of its key, in the ledger before the step, bills the request.
  <2>1. ASSUME KeyTaken(r) PROVE Billed(r)'
    <3>1. Billed(r)
      BY <2>1 DEF KeyTaken, EventsOf, Billed, BillInv, KeysAreOfCompress
    <3> QED
      BY <3>1, BilledStays
  <2>2. CASE Settled(r)
    BY <2>2, BilledStays DEF BillInv, SettledBilled
  <2>3. CASE ~Settled(r) /\ FindEvent(r)
    <3>1. call[r].key # NoKey
      BY <2>3 DEF FindEvent, Keyed, BillInv
    <3>2. pc \in [Requests -> Labels]
      BY DEF TypeOK
    <3>3. pc'[r] \in {"loadGrant", "loadBlob", "bytesGrant", "bytesBlob", "ok"}
      BY <1>2 DEF Settled
    <3>4. EventsOf(call[r].tenant, call[r].key) # {}
      BY <2>3, <3>2, <3>3 DEF FindEvent, Goto
    <3> QED
      BY <2>1, <3>1, <3>4 DEF KeyTaken
  <2>4. CASE ~Settled(r) /\ FindCharge(r)
    <3>1. pc \in [Requests -> Labels] /\ pc'[r] # "charge"
      BY <1>2 DEF TypeOK, Settled
    <3>2. KeyTaken(r)
      BY <2>4, <3>1 DEF FindCharge, Goto
    <3> QED
      BY <2>1, <3>2
  <2>5. CASE ~Settled(r) /\ Charge(r) /\ ~KeyTaken(r)
    <3>1. call' = call /\ Event(r) \in ledger'
      BY <2>5 DEF Charge
    <3>2. call[r].op = "compress"
      BY <1>2, <3>1 DEF Settled
    <3> QED
      BY <3>1, <3>2 DEF Billed, Event
  <2>6. CASE ~Settled(r)
    BY <1>2, <2>1, <2>3, <2>4, <2>5, <2>6, WhoSettles
  <2> QED
    BY <2>2, <2>6
<1>3. Keyed'
  BY StepKeyed DEF BillInv
<1> QED
  BY <1>1, <1>2, <1>3 DEF BillInv, SettledBilled

\* Every compress that answers success is in the ledger, under its own event or under
\* that of its key, however retries with one key race and wherever the process dies, as
\* long as no statement fails: usage::record logs its error and lets the answer go.
THEOREM AnsweredIsBilled == ASSUME MaxFaults = 0 PROVE Spec => []AckedIsBilled
<1>1. Init => BillInv
  BY DEF Init, BillInv, KeysAreOfCompress, SettledBilled, Settled, Keyed
<1>2. IInv /\ BillInv /\ [Next]_vars => BillInv'
  BY StepBill DEF IInv
<1>3. BillInv => AckedIsBilled
  BY DEF BillInv, SettledBilled, Settled, Billed, AckedIsBilled
<1> QED
  BY <1>1, <1>2, <1>3, Inductive, PTL DEF Spec

----------------------------------------------------------------------------
(***************************************************************************)
(* From here on: what the store promises of a content whose requests do not *)
(* overlap.  Requests on different contents may run side by side as they    *)
(* like (OnePerContent), and with MaxActive = 1 no two overlap at all.  The *)
(* condition, and the inductive invariant it makes possible:                *)
(***************************************************************************)
OnePerContent == \A q, r \in Active : target[q] = target[r] => q = r

\* Where a request has not yet made its file.
Before == {"new", "findEvent", "dedup", "create"}

\* A file of the vault was made by a request on the content it stands for.
OwnFile(f, h) == f # NoFile => target[f] = h /\ pc[f] \notin Before

FilesOwned == \A h \in Hashes :
    /\ OwnFile(final[h], h) /\ OwnFile(tmp[h], h)
    /\ final[h] # NoFile => final[h] # tmp[h] /\ body[final[h]] = "whole"

RefsHaveFile == \A t \in Tenants, h \in Hashes : grants[t][h] > 0 => final[h] # NoFile

Row(r) == grants[call[r].tenant][target[r]]

\* What a request has seen or done is still so at its next statement.
Progress(r) ==
    /\ pc[r] = "write" => fd[r] # NoFile /\ fd[r] = tmp[target[r]] /\ body[fd[r]] = "empty"
    /\ pc[r] = "rename" => tmp[target[r]] # NoFile /\ body[tmp[target[r]]] = "whole"
    /\ pc[r] \in {"record", "hadGrant", "addFind", "addWrite", "unlink"}
          => final[target[r]] # NoFile
    /\ pc[r] = "addWrite" => seen[r] = Row(r)
    /\ pc[r] = "relWrite" => seen[r] = Row(r) /\ seen[r] > 0
    /\ pc[r] \in {"findCharge", "charge"} /\ call[r].op = "compress" => Row(r) > 0
    /\ pc[r] \in {"exists", "unlink", "unindex"} => \A t \in Tenants : grants[t][target[r]] = 0
    /\ pc[r] = "unindex" => final[target[r]] = NoFile \/ target[r] \in unrecorded

AllProgress == \A r \in Requests : Progress(r)

Indexed == \A h \in Hashes :
    final[h] # NoFile => \/ h \in index \/ h \in unrecorded
                         \/ \E r \in Requests : pc[r] = "record" /\ target[r] = h

SInv == FilesOwned /\ RefsHaveFile /\ AllProgress /\ Indexed

----------------------------------------------------------------------------
(***************************************************************************)
(* A step of one request.                                                  *)
(***************************************************************************)
StepOf(q) ==
    \/ Submit(q) \/ CompressStep(q) \/ DeleteStep(q) \/ LoadStep(q) \/ Charge(q)
    \/ StatementFails(q) \/ Disconnect(q)

\* The steps that leave files, rows and index alone.
Quiet(q) ==
    \/ Submit(q) \/ FindEvent(q) \/ DedupHit(q) \/ DedupMiss(q) \/ HadGrant(q) \/ AddFind(q)
    \/ FindCharge(q) \/ RelFind(q) \/ Count(q) \/ Exists(q) \/ LoadStep(q) \/ Charge(q)
    \/ Disconnect(q)

LEMMA QuietLeaves ==
    ASSUME NEW q \in Requests, Quiet(q)
    PROVE  UNCHANGED <<call, fd, grants, final, tmp, body, index, unrecorded, linked>>
BY DEF Quiet, Submit, FindEvent, DedupHit, DedupMiss, HadGrant, AddFind, FindCharge, RelFind,
       Count, Exists, LoadStep, LoadGrant, LoadBlob, BytesGrant, BytesBlob, Charge,
       Disconnect, localVars, storeVars, faultVars

LEMMA KindsOfSteps ==
    ASSUME NEW q \in Requests, StepOf(q)
    PROVE  \/ Quiet(q) \/ CreateTmp(q) \/ WriteTmp(q) \/ Rename(q) \/ Record(q)
           \/ AddWrite(q) \/ RelWrite(q) \/ Unlink(q) \/ Unindex(q) \/ StatementFails(q)
BY DEF StepOf, Quiet, CompressStep, DeleteStep

\* Nobody moves another request.
LEMMA OwnStepOnly ==
    ASSUME TypeOK, NEW q \in Requests, StepOf(q), NEW r \in Requests, r # q
    PROVE  pc'[r] = pc[r] /\ fd'[r] = fd[r] /\ seen'[r] = seen[r] /\ target'[r] = target[r]
<1> USE DEF Goto, AfterBlocking, localVars, storeVars, faultVars, TypeOK
<1>1. CASE CompressStep(q)
  BY <1>1 DEF CompressStep, FindEvent, DedupHit, DedupMiss, CreateTmp, WriteTmp, Rename,
              Record, HadGrant, AddFind, AddWrite, FindCharge
<1>2. CASE DeleteStep(q)
  BY <1>2 DEF DeleteStep, RelFind, RelWrite, Count, Exists, Unlink, Unindex
<1>3. CASE LoadStep(q)
  BY <1>3 DEF LoadStep, LoadGrant, LoadBlob, BytesGrant, BytesBlob, RequireGrant
<1>4. CASE Submit(q) \/ Charge(q) \/ StatementFails(q) \/ Disconnect(q)
  BY <1>4 DEF Submit, Charge, StatementFails, Disconnect
<1> QED
  BY <1>1, <1>2, <1>3, <1>4 DEF StepOf

\* Who has made its file neither comes back before it nor changes its content.
LEMMA OwnersStay ==
    ASSUME TypeOK, NEW q \in Requests, StepOf(q), pc[q] \notin Before
    PROVE  pc'[q] \notin Before /\ target'[q] = target[q]
<1> USE DEF Goto, AfterBlocking, localVars, storeVars, faultVars, TypeOK, Before
<1>1. CASE CompressStep(q)
  BY <1>1 DEF CompressStep, FindEvent, DedupHit, DedupMiss, CreateTmp, WriteTmp, Rename,
              Record, HadGrant, AddFind, AddWrite, FindCharge
<1>2. CASE DeleteStep(q)
  BY <1>2 DEF DeleteStep, RelFind, RelWrite, Count, Exists, Unlink, Unindex
<1>3. CASE LoadStep(q)
  BY <1>3 DEF LoadStep, LoadGrant, LoadBlob, BytesGrant, BytesBlob, RequireGrant
<1>4. CASE Submit(q) \/ Charge(q) \/ StatementFails(q) \/ Disconnect(q)
  BY <1>4 DEF Submit, Charge, StatementFails, AfterError, Disconnect
<1> QED
  BY <1>1, <1>2, <1>3, <1>4 DEF StepOf

\* A request that moves was in progress, unless it arrives.
LEMMA MoversAreActive ==
    ASSUME NEW q \in Requests, StepOf(q), ~Submit(q)
    PROVE  q \in Active
BY DEF StepOf, CompressStep, FindEvent, DedupHit, DedupMiss, CreateTmp, WriteTmp, Rename,
       Record, HadGrant, AddFind, AddWrite, FindCharge, DeleteStep, RelFind, RelWrite, Count,
       Exists, Unlink, Unindex, LoadStep, LoadGrant, LoadBlob, BytesGrant, BytesBlob, Charge,
       StatementFails, Disconnect, Active, Waiting, Blocking

----------------------------------------------------------------------------
(***************************************************************************)
(* What each step does to the files, the rows and the index: it stays on    *)
(* the content of the request that takes it.                               *)
(***************************************************************************)
\* The content h looks after the step as before it.
Untouched(h) ==
    /\ final'[h] = final[h] /\ tmp'[h] = tmp[h]
    /\ final[h] # NoFile => body'[final[h]] = body[final[h]]
    /\ tmp[h] # NoFile => body'[tmp[h]] = body[tmp[h]]
    /\ h \in index' <=> h \in index
    /\ h \in unrecorded' <=> h \in unrecorded
    /\ \A t \in Tenants : grants'[t][h] = grants[t][h]

LEMMA QuietUntouched ==
    ASSUME NEW q \in Requests, Quiet(q), NEW h \in Hashes
    PROVE  Untouched(h)
BY QuietLeaves DEF Untouched

\* The temporary file is emptied: a new one of the request's own, or the one left behind.
LEMMA CreateEffect ==
    ASSUME TypeOK, SInv, NEW q \in Requests, CreateTmp(q)
    PROVE  /\ tmp'[target[q]] = fd'[q] /\ fd'[q] \in Requests /\ body'[fd'[q]] = "empty"
           /\ tmp[target[q]] # NoFile => fd'[q] = tmp[target[q]]
           /\ tmp[target[q]] = NoFile => fd'[q] = q
           /\ final' = final /\ grants' = grants /\ index' = index /\ unrecorded' = unrecorded
           /\ final[target[q]] # NoFile => body'[final[target[q]]] = body[final[target[q]]]
           /\ pc'[q] = "write" /\ target' = target
           /\ \A h \in Hashes \ {target[q]} : Untouched(h)
<1> DEFINE g == target[q]
           file == IF tmp[g] = NoFile THEN q ELSE tmp[g]
<1>1. /\ tmp' = [tmp EXCEPT ![g] = file] /\ body' = [body EXCEPT ![file] = "empty"]
      /\ fd' = [fd EXCEPT ![q] = file] /\ pc[q] = "create" /\ pc' = [pc EXCEPT ![q] = "write"]
      /\ final' = final /\ grants' = grants /\ index' = index /\ target' = target
      /\ unrecorded' = unrecorded
  BY DEF CreateTmp, Goto, faultVars
<1>2. /\ g \in Hashes /\ file \in Requests
      /\ tmp \in [Hashes -> Files] /\ final \in [Hashes -> Files]
      /\ fd \in [Requests -> Files] /\ body \in [Requests -> Contents] /\ pc \in [Requests -> Labels]
  BY DEF TypeOK, Files
<1>3. ASSUME NEW h \in Hashes, final[h] # NoFile PROVE final[h] # file
  <2>1. target[final[h]] = h /\ pc[final[h]] \notin Before /\ final[h] # tmp[h]
    BY <1>3 DEF SInv, FilesOwned, OwnFile
  <2>2. CASE tmp[g] = NoFile
    BY <1>1, <2>1, <2>2 DEF Before
  <2>3. CASE tmp[g] # NoFile
    BY <1>2, <2>1, <2>3 DEF SInv, FilesOwned, OwnFile
  <2> QED
    BY <2>2, <2>3
<1>4. ASSUME NEW h \in Hashes \ {g}, tmp[h] # NoFile PROVE tmp[h] # file
  <2>1. target[tmp[h]] = h /\ pc[tmp[h]] \notin Before
    BY <1>4 DEF SInv, FilesOwned, OwnFile
  <2>2. CASE tmp[g] = NoFile
    BY <1>1, <2>1, <2>2 DEF Before
  <2>3. CASE tmp[g] # NoFile
    BY <1>2, <2>1, <2>3 DEF SInv, FilesOwned, OwnFile
  <2> QED
    BY <2>2, <2>3
<1> HIDE DEF file
<1>5. \A h \in Hashes \ {g} : Untouched(h)
  BY <1>1, <1>2, <1>3, <1>4 DEF Untouched
<1>6. final[g] # NoFile => body'[final[g]] = body[final[g]]
  BY <1>1, <1>2, <1>3
<1> QED
  BY <1>1, <1>2, <1>5, <1>6 DEF file

\* The bytes go to a file that is empty and that nobody else has open.
LEMMA WriteEffect ==
    ASSUME TypeOK, SInv, NEW q \in Requests, WriteTmp(q)
    PROVE  /\ fd[q] = tmp[target[q]] /\ tmp[target[q]] # NoFile
           /\ body' = [body EXCEPT ![tmp[target[q]]] = "whole"]
           /\ UNCHANGED <<call, final, tmp, fd, grants, index, unrecorded, target>>
           /\ pc'[q] = "rename"
           /\ final[target[q]] # NoFile => body'[final[target[q]]] = body[final[target[q]]]
           /\ \A h \in Hashes \ {target[q]} : Untouched(h)
<1> DEFINE g == target[q]
<1>1. fd[q] = tmp[g] /\ tmp[g] # NoFile /\ body[fd[q]] = "empty"
  BY DEF WriteTmp, SInv, AllProgress, Progress
<1>2. body' = [body EXCEPT ![tmp[g]] = "whole"]
  BY <1>1 DEF WriteTmp, Written
<1>3. UNCHANGED <<call, final, tmp, fd, grants, index, unrecorded, target>> /\ pc'[q] = "rename"
  BY DEF WriteTmp, Goto, localVars, faultVars, TypeOK
<1>4. /\ g \in Hashes /\ tmp \in [Hashes -> Files] /\ final \in [Hashes -> Files]
      /\ body \in [Requests -> Contents]
  BY DEF TypeOK
<1>5. ASSUME NEW h \in Hashes, final[h] # NoFile PROVE final[h] # tmp[g]
  BY <1>1, <1>4, <1>5 DEF SInv, FilesOwned, OwnFile
<1>6. ASSUME NEW h \in Hashes \ {g}, tmp[h] # NoFile PROVE tmp[h] # tmp[g]
  BY <1>1, <1>4, <1>6 DEF SInv, FilesOwned, OwnFile
<1>7. \A h \in Hashes \ {g} : Untouched(h)
  BY <1>2, <1>3, <1>4, <1>5, <1>6 DEF Untouched
<1> QED
  BY <1>1, <1>2, <1>3, <1>4, <1>5, <1>7

\* The whole file takes the published name.
LEMMA RenameEffect ==
    ASSUME TypeOK, SInv, NEW q \in Requests, Rename(q)
    PROVE  /\ final' = [final EXCEPT ![target[q]] = tmp[target[q]]]
           /\ tmp' = [tmp EXCEPT ![target[q]] = NoFile]
           /\ tmp[target[q]] # NoFile /\ body[tmp[target[q]]] = "whole"
           /\ pc'[q] = "record"
           /\ UNCHANGED <<call, fd, body, grants, index, unrecorded, target>>
           /\ \A h \in Hashes \ {target[q]} : Untouched(h)
<1>1. tmp[target[q]] # NoFile /\ body[tmp[target[q]]] = "whole"
  BY DEF Rename, SInv, AllProgress, Progress
<1>2. /\ final' = [final EXCEPT ![target[q]] = tmp[target[q]]]
      /\ tmp' = [tmp EXCEPT ![target[q]] = NoFile]
      /\ UNCHANGED <<call, fd, body, grants, index, unrecorded, target>>
      /\ pc'[q] = "record"
  BY <1>1 DEF Rename, Goto, localVars, faultVars, TypeOK
<1> QED
  BY <1>1, <1>2 DEF Untouched, TypeOK

\* The count is written on the row it was read from.
LEMMA AddEffect ==
    ASSUME TypeOK, SInv, NEW q \in Requests, AddWrite(q)
    PROVE  /\ SetRefs(q, Row(q) + 1) /\ Row(q) \in Nat /\ Row(q)' = Row(q) + 1
           /\ UNCHANGED <<call, fd, final, tmp, body, index, unrecorded, target>>
           /\ pc'[q] \in {"charge", "findCharge"}
           /\ \A h \in Hashes \ {target[q]} : Untouched(h)
<1>1. seen[q] = Row(q) /\ Row(q) \in Nat /\ seen[q] \in Nat
  BY DEF AddWrite, SInv, AllProgress, Progress, Row, TypeOK, Calls
<1>2. seen[q] = 0 <=> ~RowExists(q)
  BY <1>1 DEF RowExists, Row
<1>3. SetRefs(q, Row(q) + 1) /\ UNCHANGED <<call, fd, final, tmp, body, index, unrecorded, target>>
  BY <1>1, <1>2 DEF AddWrite, localVars, faultVars
<1>4. pc'[q] \in {"charge", "findCharge"}
  BY <1>1, <1>2 DEF AddWrite, Goto, TypeOK
<1>5. /\ \A t \in Tenants, h \in Hashes :
            grants'[t][h] = IF t = call[q].tenant /\ h = target[q] THEN Row(q) + 1 ELSE grants[t][h]
      /\ call[q].tenant \in Tenants /\ target[q] \in Hashes
  <2>1. PICK n \in Nat : n = Row(q) + 1
    BY <1>1
  <2>2. SetRefs(q, n)
    BY <1>3, <2>1
  <2>3. call[q].tenant \in Tenants /\ target[q] \in Hashes
    BY DEF TypeOK, Calls
  <2> QED
    BY <2>1, <2>2, <2>3, SetRefsRow
<1>6. Row(q)' = Row(q) + 1
  <2>1. call' = call /\ target' = target
    BY <1>3
  <2> QED
    BY <1>5, <2>1 DEF Row
<1>7. \A h \in Hashes \ {target[q]} : Untouched(h)
  BY <1>3, <1>5 DEF Untouched
<1> QED
  BY <1>1, <1>3, <1>4, <1>6, <1>7

LEMMA ReleaseEffect ==
    ASSUME TypeOK, SInv, NEW q \in Requests, RelWrite(q)
    PROVE  /\ Row(q) \in Nat \ {0}
           /\ \/ SetRefs(q, Row(q) - 1) /\ pc'[q] = "charge"
              \/ SetRefs(q, 0) /\ pc'[q] = "count"
           /\ UNCHANGED <<call, fd, final, tmp, body, index, unrecorded, target>>
           /\ \A t \in Tenants, h \in Hashes : grants'[t][h] > 0 => grants[t][h] > 0
           /\ \A h \in Hashes \ {target[q]} : Untouched(h)
<1>1. seen[q] = Row(q) /\ Row(q) \in Nat \ {0}
  BY DEF RelWrite, SInv, AllProgress, Progress, Row, TypeOK, Calls
<1>2. RowExists(q)
  BY <1>1 DEF RowExists, Row
<1>3. /\ \/ SetRefs(q, Row(q) - 1) /\ pc'[q] = "charge"
         \/ SetRefs(q, 0) /\ pc'[q] = "count"
      /\ UNCHANGED <<call, fd, final, tmp, body, index, unrecorded, target>>
  BY <1>1, <1>2 DEF RelWrite, Goto, TypeOK, localVars, faultVars
<1>4. PICK n \in Nat : SetRefs(q, n)
  BY <1>1, <1>3
<1>5. /\ \A t \in Tenants, h \in Hashes :
            grants'[t][h] = IF t = call[q].tenant /\ h = target[q] THEN n ELSE grants[t][h]
      /\ call[q].tenant \in Tenants /\ target[q] \in Hashes
  BY <1>4, SetRefsRow DEF TypeOK, Calls
<1>6. \A t \in Tenants, h \in Hashes : grants'[t][h] > 0 => grants[t][h] > 0
  BY <1>1, <1>5 DEF Row
<1> QED
  BY <1>1, <1>3, <1>5, <1>6 DEF Untouched

\* The record, the removal and the end of the removal touch one name of the vault.
LEMMA VaultEffect ==
    ASSUME TypeOK, SInv, NEW q \in Requests, Record(q) \/ Unlink(q) \/ Unindex(q)
    PROVE  /\ UNCHANGED <<call, fd, tmp, body, grants, target>>
           /\ Record(q) => final' = final /\ index' = index \cup {target[q]}
           /\ Unlink(q) => final' = [final EXCEPT ![target[q]] = NoFile] /\ index' = index
                           /\ pc'[q] = "unindex"
           /\ Unindex(q) => final' = final /\ index' = index \ {target[q]}
           /\ Record(q) => unrecorded' = unrecorded \ {target[q]}
           /\ ~Record(q) => unrecorded' = unrecorded
           /\ \A h \in Hashes \ {target[q]} : Untouched(h)
<1>1. /\ UNCHANGED <<call, fd, tmp, body, grants, target>>
      /\ Record(q) => final' = final /\ index' = index \cup {target[q]}
      /\ Unlink(q) => final' = [final EXCEPT ![target[q]] = NoFile] /\ index' = index
      /\ Unindex(q) => final' = final /\ index' = index \ {target[q]}
      /\ Record(q) => unrecorded' = unrecorded \ {target[q]}
      /\ ~Record(q) => unrecorded' = unrecorded
  BY DEF Record, Unlink, Unindex, localVars, faultVars
<1>2. Unlink(q) => pc'[q] = "unindex"
  BY DEF Unlink, Goto, TypeOK, SInv, AllProgress, Progress
<1> QED
  BY <1>1, <1>2 DEF Untouched, TypeOK

\* A failing statement leaves rows, names and index alone; a failing write spoils the
\* temporary file it has open, and no essence.
LEMMA FailEffect ==
    ASSUME TypeOK, SInv, NEW q \in Requests, StatementFails(q)
    PROVE  /\ UNCHANGED <<call, fd, target, grants, final, tmp, index>>
           /\ unrecorded \subseteq unrecorded'
           /\ pc[q] \in {"record", "exists"} => target[q] \in unrecorded'
           /\ pc'[q] \in {"ok", "missing", "create", "failed", "gone"}
                 \/ (pc'[q] = "unindex" /\ pc[q] = "exists")
           /\ final[target[q]] # NoFile => body'[final[target[q]]] = body[final[target[q]]]
           /\ \A h \in Hashes \ {target[q]} : Untouched(h)
<1> DEFINE g == target[q]
<1>1. UNCHANGED <<call, fd, target, grants, final, tmp, index>>
  BY DEF StatementFails, localVars
<1>2. /\ unrecorded' \in {unrecorded, unrecorded \cup {g}}
      /\ pc[q] \in {"record", "exists"} => g \in unrecorded'
  BY DEF StatementFails
<1>3. /\ pc'[q] \in {"ok", "missing", "create", "failed", "gone"}
            \/ (pc'[q] = "unindex" /\ pc[q] = "exists")
  BY DEF StatementFails, AfterError, AfterBlocking, Goto, TypeOK
<1>4. /\ g \in Hashes /\ tmp \in [Hashes -> Files] /\ final \in [Hashes -> Files]
      /\ body \in [Requests -> Contents]
  BY DEF TypeOK
<1>5. body' = body \/ (tmp[g] # NoFile /\ body' = [body EXCEPT ![tmp[g]] = "mixed"])
  BY DEF StatementFails, SInv, AllProgress, Progress
<1>6. ASSUME NEW h \in Hashes, final[h] # NoFile, tmp[g] # NoFile PROVE final[h] # tmp[g]
  BY <1>4, <1>6 DEF SInv, FilesOwned, OwnFile
<1>7. ASSUME NEW h \in Hashes \ {g}, tmp[h] # NoFile, tmp[g] # NoFile PROVE tmp[h] # tmp[g]
  BY <1>4, <1>7 DEF SInv, FilesOwned, OwnFile
<1>8. ASSUME NEW h \in Hashes \ {g} PROVE Untouched(h)
  <2>1. final[h] # NoFile => body'[final[h]] = body[final[h]]
    BY <1>4, <1>5, <1>6, <1>8 DEF Files
  <2>2. tmp[h] # NoFile => body'[tmp[h]] = body[tmp[h]]
    BY <1>4, <1>5, <1>7, <1>8 DEF Files
  <2> QED
    BY <1>1, <1>2, <1>8, <2>1, <2>2 DEF Untouched
<1>9. final[g] # NoFile => body'[final[g]] = body[final[g]]
  BY <1>4, <1>5, <1>6 DEF Files
<1> QED
  BY <1>1, <1>2, <1>3, <1>8, <1>9

----------------------------------------------------------------------------
(***************************************************************************)
(* The invariant is kept, part by part.                                    *)
(***************************************************************************)
LEMMA StepUntouched ==
    ASSUME TypeOK, SInv, NEW q \in Requests, StepOf(q)
    PROVE  call' = call /\ \A h \in Hashes \ {target[q]} : Untouched(h)
<1>1. CASE Quiet(q)
  BY <1>1, QuietLeaves, QuietUntouched
<1>2. CASE CreateTmp(q)
  BY <1>2, CreateEffect DEF CreateTmp
<1> QED
  BY <1>1, <1>2, KindsOfSteps, WriteEffect, RenameEffect, AddEffect, ReleaseEffect, VaultEffect,
     FailEffect

LEMMA StepFiles ==
    ASSUME TypeOK, SInv, NEW q \in Requests, StepOf(q)
    PROVE  FilesOwned'
<1>0. /\ final \in [Hashes -> Files] /\ tmp \in [Hashes -> Files] /\ target \in [Requests -> Hashes]
      /\ body \in [Requests -> Contents]
  BY DEF TypeOK
<1>1. ASSUME NEW f \in Requests, pc[f] \notin Before
      PROVE  pc'[f] \notin Before /\ target'[f] = target[f]
  BY <1>1, OwnersStay, OwnStepOnly
\* A content the step does not touch keeps its files.
<1>2. ASSUME NEW h \in Hashes, Untouched(h)
      PROVE  /\ OwnFile(final[h], h)' /\ OwnFile(tmp[h], h)'
             /\ final'[h] # NoFile => final'[h] # tmp'[h] /\ body'[final'[h]] = "whole"
  BY <1>0, <1>1, <1>2 DEF SInv, FilesOwned, OwnFile, Untouched, Files
<1>3. SUFFICES ASSUME NEW g \in Hashes, g = target[q]
               PROVE  /\ OwnFile(final[g], g)' /\ OwnFile(tmp[g], g)'
                      /\ final'[g] # NoFile => final'[g] # tmp'[g] /\ body'[final'[g]] = "whole"
  <2>1. target[q] \in Hashes
    BY <1>0
  <2> QED
    BY <1>2, <1>3, <2>1, StepUntouched DEF FilesOwned
<1>4. /\ OwnFile(final[g], g) /\ OwnFile(tmp[g], g)
      /\ final[g] # NoFile => final[g] # tmp[g] /\ body[final[g]] = "whole"
      /\ final[g] \in Files /\ tmp[g] \in Files
  BY <1>0 DEF SInv, FilesOwned
<1>5. CASE Quiet(q)
  BY <1>2, <1>5, QuietUntouched
<1>6. CASE CreateTmp(q)
  <2>1. pc[q] = "create" /\ pc'[q] = "write" /\ target'[q] = g /\ final' = final
    BY <1>3, <1>6, CreateEffect DEF CreateTmp
  <2>2. OwnFile(final[g], g)'
    BY <1>1, <1>4, <2>1 DEF OwnFile, Files
  <2>3. OwnFile(tmp[g], g)'
    BY <1>1, <1>3, <1>4, <1>6, <2>1, CreateEffect DEF OwnFile, Files, Before
  <2>4. final[g] # NoFile => body'[final[g]] = body[final[g]] /\ final[g] # q
    BY <1>3, <1>4, <1>6, <2>1, CreateEffect DEF OwnFile, Before
  <2>5. final'[g] # NoFile => final'[g] # tmp'[g] /\ body'[final'[g]] = "whole"
    BY <1>3, <1>4, <1>6, <2>1, <2>4, CreateEffect
  <2> QED
    BY <2>2, <2>3, <2>5
<1>7. CASE WriteTmp(q)
  BY <1>0, <1>1, <1>3, <1>4, <1>7, WriteEffect DEF OwnFile, Files
<1>8. CASE Rename(q)
  BY <1>0, <1>1, <1>3, <1>4, <1>8, RenameEffect DEF OwnFile, Files
<1>9. CASE AddWrite(q)
  BY <1>1, <1>4, <1>9, AddEffect DEF OwnFile, Files
<1>10. CASE RelWrite(q)
  BY <1>1, <1>4, <1>10, ReleaseEffect DEF OwnFile, Files
<1>11. CASE Record(q) \/ Unlink(q) \/ Unindex(q)
  BY <1>0, <1>1, <1>3, <1>4, <1>11, VaultEffect DEF OwnFile, Files
<1>12. CASE StatementFails(q)
  BY <1>0, <1>1, <1>3, <1>4, <1>12, FailEffect DEF OwnFile, Files
<1> QED
  BY <1>5, <1>6, <1>7, <1>8, <1>9, <1>10, <1>11, <1>12, KindsOfSteps

LEMMA StepRefs ==
    ASSUME TypeOK, SInv, NEW q \in Requests, StepOf(q)
    PROVE  RefsHaveFile'
<1> SUFFICES ASSUME NEW t \in Tenants, NEW h \in Hashes, grants'[t][h] > 0
             PROVE  final'[h] # NoFile
  BY DEF RefsHaveFile
<1>0. /\ final \in [Hashes -> Files] /\ tmp \in [Hashes -> Files]
      /\ grants[t][h] > 0 => final[h] # NoFile
  BY DEF TypeOK, SInv, RefsHaveFile
<1>1. CASE h # target[q]
  BY <1>0, <1>1, StepUntouched DEF Untouched
<1>2. CASE h = target[q] /\ Quiet(q)
  BY <1>0, <1>2, QuietLeaves
<1>3. CASE h = target[q] /\ (CreateTmp(q) \/ WriteTmp(q))
  BY <1>0, <1>3, CreateEffect, WriteEffect
<1>4. CASE h = target[q] /\ Rename(q)
  BY <1>0, <1>4, RenameEffect
<1>5. CASE h = target[q] /\ AddWrite(q)
  <2>1. final[h] # NoFile
    BY <1>5 DEF AddWrite, SInv, AllProgress, Progress
  <2> QED
    BY <1>5, <2>1, AddEffect
<1>6. CASE h = target[q] /\ RelWrite(q)
  BY <1>0, <1>6, ReleaseEffect
<1>7. CASE h = target[q] /\ Unlink(q)
  <2>1. grants[t][h] = 0
    BY <1>7 DEF Unlink, SInv, AllProgress, Progress
  <2> QED
    BY <1>7, <2>1, VaultEffect
<1>8. CASE h = target[q] /\ (Record(q) \/ Unindex(q))
  BY <1>0, <1>8, VaultEffect
<1>9. CASE h = target[q] /\ StatementFails(q)
  BY <1>0, <1>9, FailEffect
<1> QED
  BY <1>1, <1>2, <1>3, <1>4, <1>5, <1>6, <1>7, <1>8, <1>9, KindsOfSteps

LEMMA StepIndex ==
    ASSUME TypeOK, SInv, NEW q \in Requests, StepOf(q)
    PROVE  Indexed'
<1> SUFFICES ASSUME NEW h \in Hashes, final'[h] # NoFile
             PROVE  \/ h \in index' \/ h \in unrecorded'
                    \/ \E r \in Requests : pc'[r] = "record" /\ target'[r] = h
  BY DEF Indexed
<1>0. /\ final \in [Hashes -> Files] /\ target \in [Requests -> Hashes]
      /\ pc \in [Requests -> Labels]
  BY DEF TypeOK
\* Who is about to record does so, or fails, or is not moved.
<1>1. ASSUME NEW r \in Requests, pc[r] = "record", ~Record(r), ~StatementFails(r)
      PROVE  pc'[r] = "record" /\ target'[r] = target[r]
  <2>1. CASE r # q
    BY <1>1, <2>1, OwnStepOnly
  <2>2. CASE r = q
    <3> USE DEF Goto, localVars, storeVars, faultVars
    <3>1. Disconnect(q)
      BY <1>1, <2>2 DEF StepOf, CompressStep, FindEvent, DedupHit, DedupMiss, CreateTmp, WriteTmp,
         Rename, HadGrant, AddFind, AddWrite, FindCharge, DeleteStep, RelFind, RelWrite, Count,
         Exists, Unlink, Unindex, LoadStep, LoadGrant, LoadBlob, BytesGrant, BytesBlob, Charge,
         Submit, Waiting
    <3> QED
      BY <1>1, <2>2, <3>1 DEF Disconnect, Waiting
  <2> QED
    BY <2>1, <2>2
<1>2. CASE final[h] # NoFile
  <2>1. \/ h \in index \/ h \in unrecorded
        \/ \E r \in Requests : pc[r] = "record" /\ target[r] = h
    BY <1>2 DEF SInv, Indexed
  <2>2. ASSUME NEW r \in Requests, pc[r] = "record", target[r] = h
        PROVE  h \in index' \/ h \in unrecorded' \/ (pc'[r] = "record" /\ target'[r] = h)
    BY <1>1, <2>2, FailEffect DEF Record
  <2>3. CASE h \in index /\ h = target[q] /\ Unindex(q)
    BY <1>2, <2>3, VaultEffect DEF Unindex, Record, SInv, AllProgress, Progress
  <2>4. CASE h \in index /\ ~(h = target[q] /\ Unindex(q))
    <3>1. CASE h # target[q]
      BY <2>4, <3>1, StepUntouched DEF Untouched
    <3>2. CASE h = target[q]
      BY <2>4, <3>2, KindsOfSteps, QuietLeaves, CreateEffect, WriteEffect, RenameEffect,
         AddEffect, ReleaseEffect, VaultEffect, FailEffect
    <3> QED
      BY <3>1, <3>2
  <2>5. CASE h \in unrecorded
    <3>1. CASE h # target[q]
      BY <2>5, <3>1, StepUntouched DEF Untouched
    <3>2. CASE h = target[q]
      BY <2>5, <3>2, KindsOfSteps, QuietLeaves, CreateEffect, WriteEffect, RenameEffect,
         AddEffect, ReleaseEffect, VaultEffect, FailEffect
    <3> QED
      BY <3>1, <3>2
  <2> QED
    BY <2>1, <2>2, <2>3, <2>4, <2>5
<1>3. CASE final[h] = NoFile
  <2>1. h = target[q]
    BY <1>3, StepUntouched DEF Untouched
  <2>2. Rename(q)
    BY <1>0, <1>3, <2>1, KindsOfSteps, QuietLeaves, CreateEffect, WriteEffect, AddEffect,
       ReleaseEffect, VaultEffect, FailEffect
  <2> QED
    BY <2>1, <2>2, RenameEffect
<1> QED
  BY <1>2, <1>3

\* The request that takes the step.
LEMMA StepOwnProgress ==
    ASSUME TypeOK, ControlOK, SInv, NEW q \in Requests, StepOf(q)
    PROVE  Progress(q)'
<1> USE DEF Goto, AfterBlocking
<1>0. /\ pc \in [Requests -> Labels] /\ target \in [Requests -> Hashes] /\ target[q] \in Hashes
      /\ seen \in [Requests -> Nat] /\ final \in [Hashes -> Files] /\ tmp \in [Hashes -> Files]
      /\ call[q] \in Calls /\ call[q].tenant \in Tenants /\ Row(q) \in Nat
      /\ grants \in [Tenants -> [Hashes -> Nat]]
  BY DEF TypeOK, Calls, Row
<1>1. Progress(q)
  BY DEF SInv, AllProgress
<1>2. CASE Quiet(q)
  <2> USE QuietLeaves
  <2>1. CASE Submit(q)
    <3>1. call[q].op \in {"compress", "delete", "read", "essence"}
      BY <1>0 DEF Calls
    <3>2. pc'[q] \in {"dedup", "findEvent", "relFind", "loadGrant", "bytesGrant"}
      BY <1>0, <2>1, <3>1 DEF Submit, FirstStep
    <3> QED
      BY <3>2 DEF Progress
  <2>2. CASE FindEvent(q)
    <3>1. pc'[q] \in {"dedup", "loadGrant"}
      BY <1>0, <2>2 DEF FindEvent
    <3> QED
      BY <3>1 DEF Progress
  <2>3. CASE DedupHit(q)
    <3>1. pc'[q] \in {"hadGrant", "gone"} /\ target' = target /\ final' = final
      BY <1>0, <2>3, QuietLeaves, <1>2 DEF DedupHit
    <3>2. final[target[q]] # NoFile
      BY <2>3 DEF DedupHit, Published
    <3> QED
      BY <3>1, <3>2 DEF Progress
  <2>4. CASE DedupMiss(q)
    <3>1. pc'[q] \in {"create", "failed", "gone"}
      BY <1>0, <2>4 DEF DedupMiss
    <3> QED
      BY <3>1 DEF Progress
  <2>5. CASE HadGrant(q)
    <3>1. pc'[q] = "addFind" /\ pc[q] = "hadGrant" /\ target' = target /\ final' = final
      BY <1>0, <1>2, <2>5 DEF HadGrant
    <3> QED
      BY <1>1, <3>1 DEF Progress
  <2>6. CASE AddFind(q)
    <3>1. /\ pc'[q] = "addWrite" /\ pc[q] = "addFind" /\ target' = target /\ final' = final
          /\ call' = call /\ grants' = grants /\ seen'[q] = Row(q)
      BY <1>0, <1>2, <2>6 DEF AddFind, Row
    <3> QED
      BY <1>1, <3>1 DEF Progress, Row
  <2>7. CASE FindCharge(q)
    <3>1. /\ pc'[q] \in {"ok", "charge"} /\ pc[q] = "findCharge" /\ target' = target
          /\ call' = call /\ grants' = grants
      BY <1>0, <1>2, <2>7 DEF FindCharge, localVars
    <3> QED
      BY <1>1, <3>1 DEF Progress, Row
  <2>8. CASE RelFind(q)
    <3>1. /\ pc'[q] = "missing" \/ (pc'[q] = "relWrite" /\ Row(q) > 0)
          /\ target' = target /\ call' = call /\ grants' = grants /\ seen'[q] = Row(q)
      BY <1>0, <1>2, <2>8 DEF RelFind, Row, RowExists
    <3> QED
      BY <3>1 DEF Progress, Row
  <2>9. CASE Count(q)
    <3>1. /\ target' = target /\ call' = call /\ grants' = grants /\ pc'[q] \in {"charge", "exists"}
          /\ pc'[q] = "exists" => \A t \in Tenants : grants[t][target[q]] = 0
          /\ call[q].op = "delete"
      BY <1>0, <1>2, <2>9 DEF Count, localVars, ControlOK, DeleteLabels
    <3> QED
      BY <3>1 DEF Progress
  <2>10. CASE Exists(q)
    <3>1. /\ target' = target /\ call' = call /\ grants' = grants /\ final' = final
          /\ pc[q] = "exists"
          /\ \/ pc'[q] = "unlink" /\ final[target[q]] # NoFile
             \/ pc'[q] = "unindex" /\ final[target[q]] = NoFile
      BY <1>0, <1>2, <2>10 DEF Exists, localVars
    <3> QED
      BY <1>1, <3>1 DEF Progress
  <2>11. CASE LoadStep(q)
    <3>1. /\ pc'[q] \in {"loadBlob", "bytesGrant", "bytesBlob", "missing", "failed", "ok", "charge"}
          /\ pc'[q] = "charge" => call[q].op # "compress"
          /\ call' = call
      BY <1>0, <1>2, <2>11 DEF LoadStep, LoadGrant, LoadBlob, BytesGrant, BytesBlob, RequireGrant
    <3> QED
      BY <3>1 DEF Progress
  <2>12. CASE Charge(q)
    <3>1. pc'[q] = "ok"
      BY <1>0, <2>12 DEF Charge
    <3> QED
      BY <3>1 DEF Progress
  <2>13. CASE Disconnect(q)
    <3>1. CASE pc'[q] = "gone"
      BY <3>1 DEF Progress
    <3>2. CASE pc' = pc
      BY <1>1, <1>2, <2>13, <3>2 DEF Disconnect, Progress, Row, SInv, FilesOwned
    <3> QED
      BY <1>0, <2>13, <3>1, <3>2 DEF Disconnect
  <2> QED
    BY <1>2, <2>1, <2>2, <2>3, <2>4, <2>5, <2>6, <2>7, <2>8, <2>9, <2>10, <2>11, <2>12, <2>13 DEF Quiet
<1>3. CASE CreateTmp(q)
  BY <1>0, <1>3, CreateEffect DEF Progress
<1>4. CASE WriteTmp(q)
  BY <1>0, <1>4, WriteEffect DEF Progress, TypeOK, Files
<1>5. CASE Rename(q)
  BY <1>0, <1>5, RenameEffect DEF Progress
<1>6. CASE Record(q)
  <2>1. /\ pc'[q] \in {"hadGrant", "gone"} /\ pc[q] = "record"
        /\ final' = final /\ target' = target
    BY <1>0, <1>6, VaultEffect DEF Record
  <2> QED
    BY <1>1, <2>1 DEF Progress
<1>7. CASE AddWrite(q)
  BY <1>0, <1>7, AddEffect DEF Progress
<1>8. CASE RelWrite(q)
  <2>1. call[q].op = "delete" /\ call' = call /\ pc'[q] \in {"charge", "count"}
    BY <1>8, ReleaseEffect DEF RelWrite, ControlOK, DeleteLabels
  <2> QED
    BY <2>1 DEF Progress
<1>9. CASE Unlink(q)
  <2>1. /\ pc'[q] = "unindex" /\ pc[q] = "unlink" /\ target' = target /\ grants' = grants
        /\ final'[target[q]] = NoFile
    BY <1>0, <1>9, VaultEffect DEF Unlink
  <2> QED
    BY <1>1, <2>1 DEF Progress
<1>10. CASE Unindex(q)
  <2>1. call[q].op = "delete" /\ call' = call /\ pc'[q] \in {"charge", "gone"}
    BY <1>0, <1>10, VaultEffect DEF Unindex, ControlOK, DeleteLabels
  <2> QED
    BY <2>1 DEF Progress
<1>11. CASE StatementFails(q)
  BY <1>1, <1>11, FailEffect DEF Progress
<1> QED
  BY <1>2, <1>3, <1>4, <1>5, <1>6, <1>7, <1>8, <1>9, <1>10, <1>11, KindsOfSteps

\* The others: what they rest on is of another content.
LEMMA StepProgress ==
    ASSUME TypeOK, ControlOK, OnePerContent, SInv, NEW q \in Requests, StepOf(q)
    PROVE  AllProgress'
<1> SUFFICES ASSUME NEW r \in Requests, r # q PROVE Progress(r)'
  BY StepOwnProgress DEF AllProgress
<1>0. /\ pc'[r] = pc[r] /\ fd'[r] = fd[r] /\ seen'[r] = seen[r] /\ target'[r] = target[r]
      /\ call' = call
  BY OwnStepOnly, StepUntouched
<1>1. Progress(r) /\ target[r] \in Hashes /\ call[r].tenant \in Tenants
  BY DEF SInv, AllProgress, TypeOK, Calls
<1>2. CASE r \notin Active
  BY <1>0, <1>2 DEF Active, Waiting, Blocking, Progress
<1>3. CASE r \in Active /\ ~Submit(q)
  <2>1. target[q] # target[r]
    BY <1>3, MoversAreActive DEF OnePerContent
  <2>2. Untouched(target[r])
    BY <1>1, <2>1, StepUntouched
  <2> QED
    BY <1>0, <1>1, <2>2 DEF Untouched, Progress, Row
<1>4. CASE Submit(q)
  <2>1. UNCHANGED <<grants, final, tmp, body, unrecorded>>
    BY <1>4 DEF Submit, storeVars, faultVars
  <2> QED
    BY <1>0, <1>1, <2>1 DEF Progress, Row
<1> QED
  BY <1>2, <1>3, <1>4

\* A restart loses the requests, not what stands in the vault, and the reconciliation
\* gives every essence that decodes its record.
LEMMA RestartKeeps ==
    ASSUME TypeOK, SInv, Restart
    PROVE  SInv'
<1>0. /\ UNCHANGED <<call, target, fd, seen, grants, final, tmp, body>>
      /\ pc' = [r \in Requests |-> IF r \in Active THEN "lost" ELSE pc[r]]
  BY DEF Restart
<1>1. \A r \in Requests : pc'[r] = "lost" \/ (pc'[r] = pc[r] /\ r \notin Active)
  BY <1>0
<1>2. FilesOwned'
  BY <1>0, <1>1 DEF SInv, FilesOwned, OwnFile, TypeOK, Files, Before
<1>3. RefsHaveFile'
  BY <1>0 DEF SInv, RefsHaveFile
<1>4. AllProgress'
  BY <1>0, <1>1 DEF AllProgress, Progress, Active, Waiting, Blocking
<1>5. ASSUME NEW h \in Hashes, final[h] # NoFile PROVE h \in index' \/ h \in unrecorded'
  <2>1. Published(h) = {"whole"}
    BY <1>5 DEF Published, SInv, FilesOwned
  <2> QED
    BY <2>1 DEF Restart
<1>6. Indexed'
  BY <1>0, <1>5 DEF Indexed
<1> QED
  BY <1>2, <1>3, <1>4, <1>6 DEF SInv

LEMMA InitSerial == Init => SInv
BY DEF Init, SInv, FilesOwned, OwnFile, RefsHaveFile, AllProgress, Progress, Indexed

LEMMA StepSerial == TypeOK /\ ControlOK /\ OnePerContent /\ SInv /\ [Next]_vars => SInv'
<1> SUFFICES ASSUME TypeOK, ControlOK, OnePerContent, SInv, [Next]_vars PROVE SInv'
  OBVIOUS
<1>1. CASE UNCHANGED vars
  BY <1>1 DEF vars, localVars, storeVars, faultVars, SInv, FilesOwned, OwnFile, RefsHaveFile,
     AllProgress, Progress, Row, Indexed
<1>2. ASSUME NEW q \in Requests, StepOf(q) PROVE SInv'
  BY <1>2, StepFiles, StepRefs, StepProgress, StepIndex DEF SInv
<1> QED
  BY <1>1, <1>2, RestartKeeps DEF Next, StepOf

LEMMA SerialInductive == Spec /\ []OnePerContent => []SInv
<1>1. IInv /\ OnePerContent /\ SInv /\ [Next]_vars => SInv'
  BY StepSerial DEF IInv
<1> QED
  BY <1>1, InitSerial, Inductive, PTL DEF Spec

\* One request in progress at a time: none arrives before the other has been answered.
LEMMA Single == ASSUME MaxActive = 1 PROVE Spec => [](\A q, r \in Active : q = r)
<1> DEFINE One == \A q, r \in Active : q = r
<1>1. Init => One
  BY DEF Init, Active, Waiting, Blocking
<1>2. TypeOK /\ One /\ [Next]_vars => One'
  <2> SUFFICES ASSUME TypeOK, One, [Next]_vars PROVE One'
    OBVIOUS
  <2>1. CASE UNCHANGED vars
    BY <2>1 DEF vars, Active
  <2>2. CASE Restart
    BY <2>2 DEF Restart, Active, Waiting, Blocking
  <2>3. ASSUME NEW q \in Requests, Submit(q) PROVE One'
    <3>1. Active = {}
      <4>1. ASSUME NEW r \in Active PROVE FALSE
        <5>1. Active = {r}
          BY <4>1
        <5>2. Cardinality({r}) = 1
          BY FS_Singleton
        <5> QED
          BY <2>3, <5>1, <5>2 DEF Submit
      <4> QED
        BY <4>1
    <3> QED
      BY <2>3, <3>1, OwnStepOnly DEF StepOf, Active
  <2>4. ASSUME NEW q \in Requests, StepOf(q), ~Submit(q) PROVE One'
    <3>1. q \in Active
      BY <2>4, MoversAreActive
    <3>2. Active' \subseteq Active
      BY <2>4, <3>1, OwnStepOnly DEF Active
    <3> QED
      BY <3>2
  <2> QED
    BY <2>1, <2>2, <2>3, <2>4 DEF Next, StepOf
<1> QED
  BY <1>1, <1>2, TypeCorrect, PTL DEF Spec

THEOREM SerialNeverOverlaps == ASSUME MaxActive = 1 PROVE Spec => []OnePerContent
<1>1. (\A q, r \in Active : q = r) => OnePerContent
  BY DEF OnePerContent
<1> QED
  BY <1>1, Single, PTL

----------------------------------------------------------------------------
\* Every reference has a file in the vault that reads back whole, as long as the requests on one
\* content do not overlap, whatever restarts, failing statements and lost clients cut
\* a send or a delete short, and whatever happens to other contents meanwhile.
THEOREM ReferencesReadBack == Spec /\ []OnePerContent => []GrantHasBlob
<1>1. TypeOK /\ SInv => GrantHasBlob
  BY DEF TypeOK, SInv, RefsHaveFile, FilesOwned, GrantHasBlob, Published
<1> QED
  BY <1>1, SerialInductive, TypeCorrect, PTL

\* What has the name of an essence is a whole one at every moment, although a restart or
\* a failing write leaves temporary files behind that a later send takes over.
THEOREM EssencesAreWhole == Spec /\ []OnePerContent => []PublishedWhole
<1>1. TypeOK /\ SInv => PublishedWhole
  BY DEF TypeOK, SInv, FilesOwned, PublishedWhole, Published
<1> QED
  BY <1>1, SerialInductive, TypeCorrect, PTL

\* Between requests the index has every essence of the vault: the rename comes before the
\* record, and who dies between the two is made up for by the reconciliation.  Only an
\* error of the index, or of the look at the file before a removal, leaves an essence
\* without its record, until a later record or the next start.
THEOREM IndexIsComplete == Spec /\ []OnePerContent => []IndexCoversVault
<1>1. TypeOK /\ SInv => IndexCoversVault
  BY DEF SInv, Indexed, IndexCoversVault, Active, Waiting, Blocking
<1> QED
  BY <1>1, SerialInductive, TypeCorrect, PTL

\* The blob leaves the disk only with the last global reference (README.md:834) as long as
\* the requests on one content do not overlap: the count and the removal are two steps,
\* and only a send of the same content between them can break the promise.
THEOREM LastReferenceGoesFirst == Spec /\ []OnePerContent => BlobLeavesWithLastReference
<1>1. IInv /\ SInv /\ [Next]_vars =>
         [\A h \in Hashes : final[h] # NoFile /\ final'[h] = NoFile
             => \A t \in Tenants : grants[t][h] = 0]_vars
  <2> SUFFICES ASSUME TypeOK, SInv, [Next]_vars, NEW h \in Hashes,
                      final[h] # NoFile, final'[h] = NoFile
               PROVE  \A t \in Tenants : grants[t][h] = 0
    BY DEF IInv
  <2>1. ~(UNCHANGED vars \/ Restart)
    BY DEF vars, storeVars, Restart
  <2>2. PICK q \in Requests : StepOf(q)
    BY <2>1 DEF Next, StepOf
  <2>3. h = target[q] /\ target[q] \in Hashes
    BY <2>2, StepUntouched DEF Untouched, TypeOK
  <2>4. Unlink(q)
    BY <2>2, <2>3, KindsOfSteps, QuietLeaves, CreateEffect, WriteEffect, RenameEffect, AddEffect,
       ReleaseEffect, VaultEffect, FailEffect DEF TypeOK
  <2> QED
    BY <2>3, <2>4 DEF Unlink, SInv, AllProgress, Progress
<1> QED
  BY <1>1, Inductive, SerialInductive, PTL DEF Spec, BlobLeavesWithLastReference

----------------------------------------------------------------------------
(***************************************************************************)
(* The refinement.  Each step of the store is one step of the archive, or   *)
(* none: a send is a Keep at its rename, a Reference at its add_grant and a *)
(* ChargeEvent at its record; a delete a Release, a Discard at the removal  *)
(* of the file and a ChargeEvent.                                          *)
(***************************************************************************)
Stored == {h \in Hashes : Published(h) = {"whole"}}

LEMMA StoredIsPublished ==
    ASSUME TypeOK, FilesOwned, NEW h \in Hashes
    PROVE  h \in Stored <=> final[h] # NoFile
BY DEF Stored, Published, FilesOwned

LEMMA StoredAfter ==
    ASSUME TypeOK', FilesOwned', NEW h \in Hashes
    PROVE  h \in Stored' <=> final'[h] # NoFile
BY DEF Stored, Published, FilesOwned

\* One step of a request, seen from the archive.
LEMMA StepRefines ==
    ASSUME TypeOK, TypeOK', ControlOK, SInv, SInv', NEW q \in Requests, StepOf(q)
    PROVE  \/ Stored' = Stored /\ grants' = grants /\ ledger' = ledger
           \/ Promise!Next
<1> DEFINE g == target[q]
           u == call[q].tenant
<1>0. /\ g \in Hashes /\ u \in Tenants /\ grants \in [Tenants -> [Hashes -> Nat]]
      /\ final \in [Hashes -> Files] /\ tmp \in [Hashes -> Files]
      /\ FilesOwned /\ FilesOwned' /\ Progress(q)
  BY DEF TypeOK, Calls, SInv, AllProgress
<1>1. ~Charge(q) => ledger' = ledger
  BY DEF StepOf, Submit, CompressStep, FindEvent, DedupHit, DedupMiss, CreateTmp, WriteTmp, Rename,
     Record, HadGrant, AddFind, AddWrite, FindCharge, DeleteStep, RelFind, RelWrite, Count,
     Exists, Unlink, Unindex, LoadStep, LoadGrant, LoadBlob, BytesGrant, BytesBlob,
     StatementFails, Disconnect, storeVars
\* No name of the vault changes, so nothing that is stored does.
<1>2. ASSUME final' = final PROVE Stored' = Stored
  BY <1>0, <1>2, StoredIsPublished, StoredAfter DEF Stored
<1>3. CASE Quiet(q) /\ ~Charge(q)
  BY <1>1, <1>2, <1>3, QuietLeaves
<1>4. CASE CreateTmp(q) \/ WriteTmp(q)
  <2>1. final' = final /\ grants' = grants /\ ~Charge(q)
    BY <1>4, CreateEffect, WriteEffect DEF CreateTmp, WriteTmp, Charge
  <2> QED
    BY <1>1, <1>2, <2>1
<1>5. CASE Record(q) \/ Unindex(q)
  <2>1. final' = final /\ grants' = grants /\ ~Charge(q)
    BY <1>5, VaultEffect DEF Record, Unindex, Charge
  <2> QED
    BY <1>1, <1>2, <2>1
<1>6. CASE Rename(q)
  <2>1. /\ \A h \in Hashes : final'[h] # NoFile <=> final[h] # NoFile \/ h = g
        /\ grants' = grants /\ ~Charge(q)
    BY <1>0, <1>6, RenameEffect DEF Rename, Charge
  <2>2. Stored' = Stored \cup {g}
    BY <1>0, <2>1, StoredIsPublished, StoredAfter DEF Stored
  <2>3. Promise!Keep(g)
    BY <1>1, <2>1, <2>2 DEF Promise!Keep, Stored
  <2> QED
    BY <1>0, <2>3 DEF Promise!Next
<1>7. CASE AddWrite(q)
  <2>1. grants' = [grants EXCEPT ![u][g] = @ + 1]
    BY <1>7, AddEffect DEF SetRefs, Row
  <2>2. final' = final /\ ~Charge(q) /\ final[g] # NoFile
    BY <1>0, <1>7, AddEffect DEF AddWrite, Charge, Progress
  <2>3. Promise!Reference(u, g)
    BY <1>0, <1>1, <1>2, <2>1, <2>2, StoredIsPublished DEF Promise!Reference, Stored
  <2> QED
    BY <1>0, <2>3 DEF Promise!Next
<1>8. CASE RelWrite(q)
  <2>1. PICK n \in {0, grants[u][g] - 1} : grants' = [grants EXCEPT ![u][g] = n]
    BY <1>8, ReleaseEffect DEF SetRefs, Row
  <2>2. final' = final /\ ~Charge(q) /\ grants[u][g] > 0
    BY <1>8, ReleaseEffect DEF RelWrite, Charge, Row
  <2>3. Promise!Release(u, g)
    BY <1>1, <1>2, <2>1, <2>2 DEF Promise!Release, Stored
  <2> QED
    BY <1>0, <2>3 DEF Promise!Next
<1>9. CASE Unlink(q)
  <2>1. /\ \A h \in Hashes : final'[h] # NoFile <=> final[h] # NoFile /\ h # g
        /\ grants' = grants /\ ~Charge(q)
    BY <1>0, <1>9, VaultEffect DEF Unlink, Charge
  <2>2. Stored' = Stored \ {g}
    BY <1>0, <2>1, StoredIsPublished, StoredAfter DEF Stored
  <2>3. \A t \in Tenants : grants[t][g] = 0
    BY <1>0, <1>9 DEF Unlink, Progress
  <2>4. Promise!Discard(g)
    BY <1>1, <2>1, <2>2, <2>3 DEF Promise!Discard, Promise!Referenced, Stored
  <2> QED
    BY <1>0, <2>4 DEF Promise!Next
<1>10. CASE Charge(q)
  <2>1. final' = final /\ grants' = grants
    BY <1>10 DEF Charge
  <2>2. CASE ledger' = ledger
    BY <1>2, <2>1, <2>2
  <2>3. CASE ledger' # ledger
    <3> DEFINE e == Event(q)
    <3>1. ledger' = ledger \cup {e} /\ e \in ledger' \ ledger /\ ~KeyTaken(q)
      BY <1>10, <2>3 DEF Charge
    <3>2. e.tenant = u /\ e.hash = g /\ e.op = call[q].op /\ e.key = call[q].key
      BY DEF Event
    <3>3. e.op = "compress" => grants[e.tenant][e.hash] > 0
      BY <1>0, <1>10, <3>2 DEF Charge, Progress, Row
    <3>4. e.key # NoKey => \A c \in ledger : c.tenant = e.tenant => c.key # e.key
      BY <3>1, <3>2 DEF KeyTaken, EventsOf
    <3> HIDE DEF e
    <3>5. Promise!ChargeEvent(e)
      BY <1>2, <2>1, <3>1, <3>3, <3>4 DEF Promise!ChargeEvent, Stored
    <3> QED
      BY <3>1, <3>5 DEF Promise!Next
  <2> QED
    BY <2>2, <2>3
<1>11. CASE StatementFails(q)
  <2>1. final' = final /\ grants' = grants /\ ledger' = ledger
    BY <1>11, FailEffect DEF StatementFails
  <2> QED
    BY <1>2, <2>1
<1> QED
  BY <1>3, <1>4, <1>5, <1>6, <1>7, <1>8, <1>9, <1>10, <1>11, KindsOfSteps

\* The statements, system calls and restarts of the store add up to the archive that the
\* README promises, as long as the requests on one content do not overlap.
THEOREM StoreIsArchive == Spec /\ []OnePerContent => ImplementsArchive
<1>1. Init => Promise!Init
  BY DEF Init, Promise!Init, Published
<1>2. IInv /\ IInv' /\ SInv /\ SInv' /\ [Next]_vars => [Promise!Next]_(Promise!archiveVars)
  <2> SUFFICES ASSUME TypeOK, TypeOK', ControlOK, SInv, SInv', [Next]_vars
               PROVE  \/ Stored' = Stored /\ grants' = grants /\ ledger' = ledger
                      \/ Promise!Next
    BY DEF IInv, Promise!archiveVars, Stored
  <2>1. CASE UNCHANGED vars \/ Restart
    <3>1. final' = final /\ body' = body /\ grants' = grants /\ ledger' = ledger
      BY <2>1 DEF vars, storeVars, Restart
    <3> QED
      BY <3>1 DEF Stored, Published
  <2>2. ASSUME NEW q \in Requests, StepOf(q)
        PROVE  \/ Stored' = Stored /\ grants' = grants /\ ledger' = ledger
               \/ Promise!Next
    BY <2>2, StepRefines
  <2> QED
    BY <2>1, <2>2 DEF Next, StepOf
<1> QED
  BY <1>1, <1>2, Inductive, SerialInductive, PTL DEF Spec, ImplementsArchive, Promise!Spec

\* The store with one request at a time is the archive, and keeps what it promises of the
\* vault and of the index.
THEOREM SerialStoreKeepsPromise ==
    ASSUME MaxActive = 1
    PROVE  Spec => ImplementsArchive /\ [](GrantHasBlob /\ PublishedWhole /\ IndexCoversVault)
BY SerialNeverOverlaps, StoreIsArchive, ReferencesReadBack, EssencesAreWhole, IndexIsComplete, PTL

============================================================================
