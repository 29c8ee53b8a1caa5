----------------------------- MODULE ChangeFeed -----------------------------
(***************************************************************************)
(* What an incremental sync promises, with no tasks, rows or schedulers:   *)
(* files change at a provider, single files are handed on, and the stored  *)
(* position moves only to points everything before which was handed on.    *)
(***************************************************************************)
EXTENDS Integers

CONSTANTS Files, MaxClock

VARIABLES clock, ver, live, token, seen

feed == <<clock, ver, live, token, seen>>

Nowhere == -1

Init ==
  /\ clock = 0
  /\ ver = [f \in Files |-> 0]
  /\ live \in [Files -> BOOLEAN]
  /\ token = Nowhere
  /\ seen = [f \in Files |-> Nowhere]

\* The file is created or modified (there) or deleted (~there).
Alter(f, there) ==
  /\ clock < MaxClock
  /\ clock' = clock + 1
  /\ ver' = [ver EXCEPT ![f] = clock + 1]
  /\ live' = [live EXCEPT ![f] = there]
  /\ UNCHANGED <<token, seen>>

\* The file, as it stood at time t, is handed on.
HandOn(f, t) ==
  /\ t \in 0 .. clock /\ t > seen[f]
  /\ seen' = [seen EXCEPT ![f] = t]
  /\ UNCHANGED <<clock, ver, live, token>>

\* The position becomes t: nothing that is there changed by then without
\* having been handed on.
Store(t) ==
  /\ t \in 0 .. clock
  /\ \A f \in Files : live[f] /\ ver[f] <= t => seen[f] >= ver[f]
  /\ token' = t
  /\ UNCHANGED <<clock, ver, live, seen>>

Next ==
  \/ \E f \in Files, there \in BOOLEAN : Alter(f, there)
  \/ \E f \in Files, t \in 0 .. clock : HandOn(f, t)
  \/ \E t \in 0 .. clock : Store(t)

Spec == Init /\ [][Next]_feed
=============================================================================
