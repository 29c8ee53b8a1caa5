------------------------------- MODULE MCChat -------------------------------
(* Small instances of Chat for TLC. *)
EXTENDS Chat

CONSTANTS a, b, c, d, alice, bob, alices, bobs, p1, q1, q2

OneRequest == {a}
TwoRequests == {a, b}
FourRequests == {a, b, c, d}
TwoSessions == {alices, bobs}
TwoUsers == {alice, bob}
TwoQueries == {q1, q2}
OneProcess == {p1}
Alike == {{q1, q2}}

\* Alice asks a, in the session where she asked d before, and streams b; Bob asked c.
SessionOf == [r \in FourRequests |-> IF r = c THEN bobs ELSE alices]
OwnerOf == [s \in TwoSessions |-> IF s = bobs THEN bob ELSE alice]
QueryOf == [r \in FourRequests |-> IF r \in {a, d} THEN q1 ELSE q2]
OnlyB == {b}
Before == {c, d}
NoRequest == {}
ProcessOf == [r \in FourRequests |-> p1]

SessionOfOne == [r \in OneRequest |-> alices]
QueryOfOne == [r \in OneRequest |-> q1]
ProcessOfOne == [r \in OneRequest |-> p1]

AllFaults == FaultKinds
NoFault == {}
=============================================================================
