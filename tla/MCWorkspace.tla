----------------------------- MODULE MCWorkspace -----------------------------
(* A small instance of Workspace for TLC: two providers, one without a key. *)
EXTENDS Workspace, TLC

CONSTANTS groq, local, m1, m2

MCCatalog == [p \in Provider |-> IF p = local THEN {m1} ELSE {}]
Symmetric == Permutations(Request) \cup Permutations(Process)
=============================================================================
