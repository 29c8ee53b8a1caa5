--------------------------- MODULE MCIngestionJobs ---------------------------
(* Small instances of IngestionJobs for TLC. *)
EXTENDS IngestionJobs

CONSTANTS j1, j2, source

TwoJobs == {j1, j2}
OneJob == {j1}
OneSource == {source}
SameSource == [j \in TwoJobs |-> source]

AllFaults == FaultKinds
NoFault == {}
AllRequests == RequestKinds
NoRequest == {}
=============================================================================
