--------------------------- MODULE MCDesktopChat ---------------------------
(* Small instances of DesktopChat for TLC. *)
EXTENDS DesktopChat, TLC

CONSTANTS t1, t2, a1, a2, e1, e2

\* A draft write of two entities, one behind a precheck, and a change of a live
\* account behind a precheck and two cards.
Build  == [write |-> TRUE, journalled |-> TRUE, check |-> FALSE, cards |-> 0,
           touches |-> <<e1, e2>>]
Create == [write |-> TRUE, journalled |-> TRUE, check |-> TRUE, cards |-> 0,
           touches |-> <<e1>>]
Delete == [write |-> TRUE, journalled |-> FALSE, check |-> TRUE, cards |-> 2,
           touches |-> <<e1>>]

SomeBatches == (t1 :> {<<Build>>}) @@ (t2 :> {<<Delete>>, <<Create, Delete>>})
=============================================================================
