--------------------------- MODULE MCObjectStore ---------------------------
(* Small instances of ObjectStore.  Requests, tenants and contents are      *)
(* interchangeable: nothing in the module orders them.                      *)
EXTENDS ObjectStore, TLC

Symmetry ==
    {p @@ q @@ s : p \in Permutations(Requests), q \in Permutations(Tenants),
                   s \in Permutations(Hashes)}

============================================================================
