------------------------------ MODULE Archive ------------------------------
(***************************************************************************)
(* What the archive promises, as README.md states it: one essence for each *)
(* content, kept as long as some tenant references it ("Deduplicação       *)
(* global", README.md:49, and README.md:834); references that count the    *)
(* sends and the deletes of a tenant; a ledger that only grows and charges *)
(* an Idempotency-Key once (README.md:428).                                *)
(***************************************************************************)
EXTENDS Naturals

CONSTANTS Tenants, Hashes, NoKey

VARIABLES
    stored,   \* the contents whose essence can be read back
    refs,     \* the references each tenant holds to each content
    charged   \* the events of the ledger

archiveVars == <<stored, refs, charged>>

Init ==
    /\ stored = {}
    /\ refs = [t \in Tenants |-> [h \in Hashes |-> 0]]
    /\ charged = {}

Referenced(h) == \E t \in Tenants : refs[t][h] > 0

Keep(h) ==
    /\ stored' = stored \cup {h}
    /\ UNCHANGED <<refs, charged>>

\* A reference is given out only to an essence that can be read back.
Reference(t, h) ==
    /\ h \in stored
    /\ refs' = [refs EXCEPT ![t][h] = @ + 1]
    /\ UNCHANGED <<stored, charged>>

Release(t, h) ==
    /\ refs[t][h] > 0
    /\ \E n \in {0, refs[t][h] - 1} : refs' = [refs EXCEPT ![t][h] = n]
    /\ UNCHANGED <<stored, charged>>

\* An essence leaves the disk only when no tenant references it.
Discard(h) ==
    /\ ~Referenced(h)
    /\ stored' = stored \ {h}
    /\ UNCHANGED <<refs, charged>>

\* A send is charged once its reference exists, and a key at most once.
ChargeEvent(e) ==
    /\ e.op = "compress" => refs[e.tenant][e.hash] > 0
    /\ e.key # NoKey => \A c \in charged : c.tenant = e.tenant => c.key # e.key
    /\ charged' = charged \cup {e}
    /\ UNCHANGED <<stored, refs>>

Next ==
    \/ \E h \in Hashes : Keep(h) \/ Discard(h)
    \/ \E t \in Tenants, h \in Hashes : Reference(t, h) \/ Release(t, h)
    \/ \E e \in charged' \ charged : ChargeEvent(e)

Spec == Init /\ [][Next]_archiveVars

============================================================================
