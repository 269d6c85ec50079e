----------------------------- MODULE MCMcpPool -----------------------------
(* Small instances of McpPool for TLC. *)
EXTENDS McpPool, TLC

CONSTANTS ann, bob, t1, t2, t3

\* Turns of one user: starts are joined, children replaced under a turn.
AllAnn == [t \in Turn |-> ann]

\* Two users.
OneEach == (t1 :> ann) @@ (t2 :> bob)

\* Two turns of one user and one of another: users compete for slots.
TwoAndOne == (t1 :> ann) @@ (t2 :> ann) @@ (t3 :> bob)

\* Which process gets which name makes no difference.
ConnSymmetry == Permutations(Conn)

=============================================================================
