---------------------------- MODULE MCEngineGate ----------------------------
(* Small instances of EngineGate; requests are interchangeable. *)
EXTENDS EngineGate, TLC

Symmetry == Permutations(Requests)

============================================================================
