--------------------------- MODULE MCBackupServer ---------------------------
(* Instances of BackupServer for TLC. *)
EXTENDS BackupServer, TLC

CONSTANTS m, w1, w2, w3, c1, c2

TwoWorkers == {w1, w2}
ThreeWorkers == {w1, w2, w3}
OneClient == {c1}
TwoClients == {c1, c2}
NoFaults == {}
StrayFaults == StraySources \cup {"giveup", "signal"}
WorkerFaults == FaultKinds \ StraySources

(* Processes and clients are interchangeable in the safety runs.           *)
Alike == Permutations({w1, w2, w3}) \cup Permutations({c1, c2})
=============================================================================
