----------------------------- MODULE MCChatTurn -----------------------------
(* Small instances of ChatTurn for TLC. *)
EXTENDS ChatTurn, TLC

CONSTANTS t1, t2, ann, bob

\* Two conversations of one user.
BothAnn == (t1 :> ann) @@ (t2 :> ann)

\* A gated call with another queued behind it, and each of the other tiers.
SomeBatches == {<<"live", "direct">>, <<"delete">>, <<"refused", "own">>}
=============================================================================
