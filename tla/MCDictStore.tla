----------------------------- MODULE MCDictStore -----------------------------
(* Small instances of DictStore: two workers on the first node, one on the second. *)
EXTENDS DictStore, TLC

CONSTANTS n1, n2, w1, w2, w3

MCNodeOf == w1 :> n1 @@ w2 :> n1 @@ w3 :> n2
Symmetry == Permutations({w1, w2}) \cup Permutations(Dicts)
============================================================================
