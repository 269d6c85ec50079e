----------------------------- MODULE ChildLeases -----------------------------
(***************************************************************************)
(* What the pool of MCP children promises (the head of                     *)
(* apps/chat-orchestrator/src/mcp-pool.ts, and acquire and release): a     *)
(* child belongs to one user; while the pool offers it, it is lent to that *)
(* user's turns; as long as it runs it stays until no turn has it on loan; *)
(* once it is no longer offered, nobody is lent it any more and it goes    *)
(* with the last turn that returns it.                                     *)
(* Children do not depend on each other, but for one: a user is offered    *)
(* one at a time.  A step may move several.                                *)
(***************************************************************************)
CONSTANTS Conn, User, Turn, Owner, None

VARIABLES
    place,   \* "offered" to new turns, "retired", or "none"
    user,    \* whose child it is
    loans,   \* the turns that have it
    dead     \* the children whose process has exited

leaseVars == <<place, user, loans, dead>>

Init ==
    /\ place = [c \in Conn |-> "none"]
    /\ user  = [c \in Conn |-> None]
    /\ loans = [c \in Conn |-> {}]
    /\ dead  = {}

TurnsOf(u) == {t \in Turn : Owner[t] = u}

DeadSame(c) == c \in dead' <=> c \in dead

Becomes(c, p, u, ts) == place'[c] = p /\ user'[c] = u /\ loans'[c] = ts

Same(c) == Becomes(c, place[c], user[c], loans[c]) /\ DeadSame(c)

\* All the turns of its user that waited for it are lent a new child.
Offer(c) ==
    /\ place[c] = "none"
    /\ \E u \in User, ts \in SUBSET Turn :
          ts \subseteq TurnsOf(u) /\ Becomes(c, "offered", u, ts)
    /\ c \notin dead'

Lend(c) ==
    /\ place[c] = "offered" /\ c \notin dead
    /\ \E t \in TurnsOf(user[c]) \ loans[c] :
          Becomes(c, "offered", user[c], loans[c] \cup {t})
    /\ DeadSame(c)

\* Only a child on loan outlives its offer.
Retire(c) ==
    /\ place[c] = "offered" /\ loans[c] # {} /\ c \notin dead
    /\ Becomes(c, "retired", user[c], loans[c])
    /\ DeadSame(c)

Gone(c) == Becomes(c, "none", None, {}) /\ c \notin dead'

\* The pool closes a child it offers, once no turn has it or it has exited.
Close(c) == place[c] = "offered" /\ (loans[c] = {} \/ c \in dead) /\ Gone(c)

Return(c) ==
    \E t \in loans[c] :
        IF place[c] = "retired" /\ loans[c] = {t} THEN Gone(c)
        ELSE Becomes(c, place[c], user[c], loans[c] \ {t}) /\ DeadSame(c)

Exit(c) ==
    /\ place[c] # "none"
    /\ Becomes(c, place[c], user[c], loans[c]) /\ c \in dead'

Step(c) ==
    Same(c) \/ Offer(c) \/ Lend(c) \/ Retire(c) \/ Close(c) \/ Return(c) \/ Exit(c)

OneOffered ==
    \A c, d \in Conn : place[c] = "offered" /\ place[d] = "offered" /\ user[c] = user[d] => c = d

ShutDown == \A c \in Conn : Gone(c)

Next == ShutDown \/ ((\A c \in Conn : Step(c)) /\ OneOffered')

Spec == Init /\ [][Next]_leaseVars
=============================================================================
