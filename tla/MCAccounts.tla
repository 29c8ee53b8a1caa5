----------------------------- MODULE MCAccounts -----------------------------
(* Small instances of Accounts for TLC: what is left to do after a login and *)
(* a reset asked for by one user, and an invitation of another.              *)
EXTENDS Accounts, TLC

CONSTANTS ann, bob, login, ask, inv, r1, r2, r3, r4

MCPastOp ==
  [r \in Past |-> CASE r = login -> "login" [] r = ask -> "askReset" [] r = inv -> "invite"]
MCPastEmail == [r \in Past |-> IF r = inv THEN bob ELSE ann]

\* Three requests of any kind, or four resets, logins and uses at one address that meet no
\* fault: two resets that overlap, a login between their commits and a use of its session.
Few ==
  \/ \E r \in Request \ Past : req[r].pc = "idle"
  \/ /\ faults = 0
     /\ \A r \in Request \ Past : req[r].e = ann /\ req[r].op \in {"reset", "login", "use"}

Symmetric == Permutations(Request \ Past)
=============================================================================
