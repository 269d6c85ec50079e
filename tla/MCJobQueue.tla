----------------------------- MODULE MCJobQueue -----------------------------
(* Small instances of JobQueue for TLC. *)
EXTENDS JobQueue, TLC

CONSTANTS w1, w2

\* Each loop has a name of its own.
OwnName == [w \in Worker |-> w]

\* Two containers whose only process has the same pid.
SharedName == [w \in Worker |-> "worker_1"]
=============================================================================
