-------------------------- MODULE MCConnectorSync --------------------------
(* Small instances of ConnectorSync for TLC. *)
EXTENDS ConnectorSync, TLC

CONSTANTS f1, f2, r1, r2, s1, s2, l1, l2

OneFile == {f1}
TwoFiles == {f1, f2}
OneRow == {r1}
TwoRows == {r1, r2}
OneSync == {s1}
TwoSyncs == {s1, s2}
OneLoad == {l1}
TwoLoads == {l1, l2}

AllFaults == FaultKinds
OnlyCrash == {"crash"}

EveryActor == ActorKinds
NoFault == {}
Requests == {"trigger", "disconnect"}
BeatOnly == {"beat"}

\* Slots are interchangeable: no action or property names one of them.
Slots == Permutations(Syncs) \cup Permutations(Loads) \cup Permutations(Rows)
=============================================================================
