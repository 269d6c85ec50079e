------------------------- MODULE HttpSessionsProofs -------------------------
(***************************************************************************)
(* The sessions of /mcp, for any number of principals, requests and        *)
(* sessions and any caps: the counts of requests in flight and of pending  *)
(* initializes, who is served, and who closes a busy session.              *)
(***************************************************************************)
EXTENDS HttpSessions, Sums, FiniteSetTheorems, TLAPS

\* TypeOK without the bounds on the counters.
Typed ==
    /\ owner    \in [Sid -> Principal \cup {None}]
    /\ inFlight \in [Sid -> Nat]
    /\ old      \in [Sid -> BOOLEAN]
    /\ late     \in [Principal -> Nat]
    /\ pending  \in [Principal -> Nat]
    /\ at       \in [Request -> Places]
    /\ kind     \in [Request -> Kinds]
    /\ who      \in [Request -> Principal \cup {None}]
    /\ sid      \in [Request -> Sid \cup {None}]
    /\ closed   \in [Request -> BOOLEAN]
    /\ counted  \in [Request -> BOOLEAN]
    /\ holds    \in [Request -> BOOLEAN]

\* What the listeners of a request, and the session it names, have to do with
\* where it is.  A session being opened has an id of its own.
Shape(r) ==
    /\ at[r] = "none" => ~counted[r] /\ ~holds[r] /\ ~closed[r] /\ sid[r] = None
    /\ at[r] # "none" => who[r] \in Principal
    /\ counted[r] => at[r] = "handling" /\ kind[r] # "delete" /\ ~closed[r] /\ sid[r] # None
    /\ holds[r] <=> at[r] = "opening" /\ ~closed[r]
    /\ at[r] = "opening" =>
          /\ sid[r] # None /\ owner[sid[r]] = None
          /\ \A q \in Request : sid[q] = sid[r] => q = r
    /\ at[r] = "handling" /\ kind[r] = "delete" => sid[r] # None

\* Whoever is served on a session is its principal.
Served(r) ==
    at[r] = "handling" /\ sid[r] # None /\ owner[sid[r]] # None => who[r] = owner[sid[r]]

Users(s)   == {r \in Request : counted[r] /\ sid[r] = s}
Openers(p) == {r \in Request : at[r] = "opening" /\ ~closed[r] /\ who[r] = p}

Counts ==
    /\ \A s \in Sid : owner[s] # None => inFlight[s] = Cardinality(Users(s))
    /\ \A p \in Principal : pending[p] = Cardinality(Openers(p))

HttpInv == Typed /\ (\A r \in Request : Shape(r) /\ Served(r)) /\ Counts

-----------------------------------------------------------------------------
(* Counting.                                                               *)

LEMMA Finite ==
    /\ \A s \in Sid : IsFiniteSet(Users(s)) /\ Cardinality(Users(s)) \in Nat
    /\ \A p \in Principal : IsFiniteSet(Openers(p)) /\ Cardinality(Openers(p)) \in Nat
  BY HttpSessionsAssumption, FS_Subset, FS_CardinalityType DEF Users, Openers

LEMMA NothingRemoved == \A S, x : x \notin S => S \ {x} = S
  OBVIOUS

\* A request that is counted on s is one of the users of s, so they are not none.
LEMMA BusyCount ==
    ASSUME HttpInv, NEW r \in Request, counted[r], sid[r] \in Sid, owner[sid[r]] # None
    PROVE  inFlight[sid[r]] > 0
<1>1. r \in Users(sid[r])
  BY DEF Users
<1>2. Cardinality(Users(sid[r])) # 0
  BY <1>1, Finite, FS_EmptySet
<1>. QED  BY <1>2, Finite DEF HttpInv, Counts

LEMMA HoldsCount ==
    ASSUME HttpInv, NEW r \in Request, holds[r]
    PROVE  who[r] \in Principal /\ pending[who[r]] > 0
<1>1. who[r] \in Principal /\ r \in Openers(who[r])
  BY DEF HttpInv, Shape, Openers
<1>2. Cardinality(Openers(who[r])) # 0
  BY <1>1, Finite, FS_EmptySet
<1>. QED  BY <1>1, <1>2, Finite DEF HttpInv, Counts

\* Nothing that Counts speaks of changes.
LEMMA CountsKept ==
    ASSUME HttpInv, \A s \in Sid : owner'[s] # None => owner[s] # None /\ inFlight'[s] = inFlight[s],
           pending' = pending,
           \A s \in Sid : owner'[s] # None => Users(s)' = Users(s),
           \A p \in Principal : Openers(p)' = Openers(p)
    PROVE  Counts'
  BY DEF HttpInv, Counts

\* A response closes: what its listeners give back is what it counted for.
LEMMA CloseCounts ==
    ASSUME HttpInv, NEW r \in Request, CloseResponse(r),
           \A s \in Sid : Users(s)' = Users(s) \ {r},
           \A p \in Principal : Openers(p)' = Openers(p) \ {r}
    PROVE  /\ Counts' /\ inFlight' \in [Sid -> Nat] /\ old' \in [Sid -> BOOLEAN]
           /\ pending' \in [Principal -> Nat] /\ UNCHANGED <<owner, late>>
<1>. Typed /\ Shape(r)
  BY DEF HttpInv
<1>1. \A s \in Sid : Cardinality(Users(s)') =
          IF r \in Users(s) THEN Cardinality(Users(s)) - 1 ELSE Cardinality(Users(s))
  BY Finite, FS_RemoveElement
<1>2. \A p \in Principal : Cardinality(Openers(p)') =
          IF r \in Openers(p) THEN Cardinality(Openers(p)) - 1 ELSE Cardinality(Openers(p))
  BY Finite, FS_RemoveElement
<1>3. counted[r] => sid[r] \in Sid
  BY DEF Typed, Shape
<1>4. /\ \A s \in Sid : owner[s] # None =>
            inFlight'[s] = IF r \in Users(s) THEN inFlight[s] - 1 ELSE inFlight[s]
      /\ inFlight' \in [Sid -> Nat] /\ old' \in [Sid -> BOOLEAN]
  <2>1. CASE counted[r] /\ owner[sid[r]] # None
    <3>1. inFlight[sid[r]] > 0
      BY <2>1, <1>3, BusyCount
    <3>2. inFlight' = [inFlight EXCEPT ![sid[r]] = @ - 1] /\ old' = [old EXCEPT ![sid[r]] = FALSE]
      BY <2>1, <3>1, <1>3 DEF CloseResponse, Typed
    <3>. QED  BY <2>1, <3>1, <3>2, <1>3 DEF Typed, Users
  <2>2. CASE ~(counted[r] /\ owner[sid[r]] # None)
    BY <2>2 DEF CloseResponse, Typed, Users
  <2>. QED  BY <2>1, <2>2
<1>5. /\ \A p \in Principal :
            pending'[p] = IF r \in Openers(p) THEN pending[p] - 1 ELSE pending[p]
      /\ pending' \in [Principal -> Nat]
  <2>1. CASE holds[r]
    <3>1. who[r] \in Principal /\ pending[who[r]] > 0
      BY <2>1, HoldsCount
    <3>. QED  BY <2>1, <3>1 DEF CloseResponse, Typed, Shape, Openers
  <2>2. CASE ~holds[r]
    BY <2>2 DEF CloseResponse, Typed, Shape, Openers
  <2>. QED  BY <2>1, <2>2
<1>6. UNCHANGED <<owner, late>>
  BY DEF CloseResponse
<1>. QED  BY <1>1, <1>2, <1>4, <1>5, <1>6 DEF Counts, HttpInv

-----------------------------------------------------------------------------
(* Every action keeps HttpInv.                                             *)

LEMMA InitInv == Init => HttpInv
<1>. SUFFICES ASSUME Init PROVE HttpInv
  OBVIOUS
<1>1. Typed
  BY DEF Init, Typed, Places, Kinds
<1>2. \A r \in Request : Shape(r) /\ Served(r)
  BY DEF Init, Shape, Served
<1>3. \A p \in Principal : Openers(p) = {}
  BY DEF Init, Openers
<1>4. Counts
  BY <1>3, FS_EmptySet DEF Init, Counts
<1>. QED  BY <1>1, <1>2, <1>4 DEF HttpInv

\* No session enters the map.
NoneAdded == \A s \in Sid : owner'[s] \in {owner[s], None}

\* A step of one request that adds no session: the invariant of the others
\* stays, as long as r takes no id of theirs.
LEMMA OthersKept ==
    ASSUME HttpInv, NEW r \in Request, NoneAdded,
           \A q \in Request \ {r} : UNCHANGED <<at[q], kind[q], who[q], sid[q], closed[q], counted[q], holds[q]>>,
           sid'[r] \in {sid[r], None} \/ \A q \in Request \ {r} : at[q] = "opening" => sid'[r] # sid[q]
    PROVE  \A q \in Request \ {r} : Shape(q)' /\ Served(q)'
<1>1. ASSUME NEW q \in Request \ {r} PROVE Shape(q)' /\ Served(q)'
  <2>1. Shape(q) /\ Served(q) /\ sid[q] \in Sid \cup {None}
    BY DEF HttpInv, Typed
  <2>2. Served(q)'
    BY <2>1 DEF Served, NoneAdded
  <2>3. Shape(q)'
    BY <2>1 DEF Shape, NoneAdded
  <2>. QED  BY <2>2, <2>3
<1>. QED  BY <1>1

LEMMA ArriveInv ==
    ASSUME HttpInv, NEW r \in Request, NEW k \in Kinds, NEW p \in Principal,
           NEW s \in Live \cup {None}, Arrive(r, k, p, s)
    PROVE  HttpInv'
<1>. Typed /\ Shape(r)
  BY DEF HttpInv
<1>1. Typed'
  BY DEF Typed, Arrive, mapVars, Places, Live
<1>2. \A q \in Request \ {r} : Shape(q)' /\ Served(q)'
  <2>1. \A q \in Request : at[q] = "opening" => sid[q] # s
    BY DEF HttpInv, Shape, Live
  <2>2. /\ sid'[r] = s
        /\ NoneAdded
        /\ \A q \in Request \ {r} :
              UNCHANGED <<at[q], kind[q], who[q], sid[q], closed[q], counted[q], holds[q]>>
    BY DEF Arrive, Typed, mapVars, NoneAdded
  <2>. QED  BY <2>1, <2>2, OthersKept
<1>3. Shape(r)' /\ Served(r)'
  BY DEF Arrive, Typed, mapVars, Shape, Served
<1>4. Counts'
  <2>1. \A z \in Sid : Users(z)' = Users(z)
    BY DEF Arrive, Typed, mapVars, Shape, Users
  <2>2. \A z \in Principal : Openers(z)' = Openers(z)
    BY DEF Arrive, Typed, mapVars, Shape, Openers
  <2>. QED  BY <2>1, <2>2, CountsKept DEF Arrive, mapVars
<1>. QED  BY <1>1, <1>2, <1>3, <1>4 DEF HttpInv

LEMMA HangUpInv ==
    ASSUME HttpInv, NEW r \in Request, HangUp(r)
    PROVE  HttpInv'
<1>. Typed /\ Shape(r) /\ Served(r)
  BY DEF HttpInv
<1>1. \A z \in Sid : Users(z)' = Users(z) \ {r}
  BY DEF HangUp, Typed, Users
<1>2. \A z \in Principal : Openers(z)' = Openers(z) \ {r}
  BY DEF HangUp, Typed, Openers
<1>3. /\ Counts' /\ inFlight' \in [Sid -> Nat] /\ old' \in [Sid -> BOOLEAN]
      /\ pending' \in [Principal -> Nat] /\ UNCHANGED <<owner, late>>
  BY <1>1, <1>2, CloseCounts DEF HangUp
<1>4. Typed'
  BY <1>3 DEF Typed, HangUp
<1>5. \A q \in Request \ {r} : Shape(q)' /\ Served(q)'
  BY <1>3, OthersKept DEF HangUp, Typed, NoneAdded
<1>6. Shape(r)' /\ Served(r)'
  BY <1>3 DEF HangUp, Typed, Shape, Served
<1>. QED  BY <1>3, <1>4, <1>5, <1>6 DEF HttpInv

\* The end of a request, as far as it concerns the requests.
LEMMA EndsInv ==
    ASSUME HttpInv, NEW r \in Request, Ends(r), NoneAdded
    PROVE  /\ \A q \in Request : Shape(q)' /\ Served(q)'
           /\ \A z \in Sid : Users(z)' = Users(z) \ {r}
           /\ \A z \in Principal : Openers(z)' = Openers(z) \ {r}
           /\ at' \in [Request -> Places] /\ kind' \in [Request -> Kinds]
           /\ who' \in [Request -> Principal \cup {None}] /\ sid' \in [Request -> Sid \cup {None}]
           /\ closed' \in [Request -> BOOLEAN] /\ counted' \in [Request -> BOOLEAN]
           /\ holds' \in [Request -> BOOLEAN]
<1>. Typed /\ Shape(r)
  BY DEF HttpInv
<1>1. \A q \in Request \ {r} : Shape(q)' /\ Served(q)'
  BY OthersKept DEF Ends, Typed
<1>2. Shape(r)' /\ Served(r)'
  BY DEF Ends, Typed, Shape, Served
<1>3. /\ \A z \in Sid : Users(z)' = Users(z) \ {r}
      /\ \A z \in Principal : Openers(z)' = Openers(z) \ {r}
  BY DEF Ends, Typed, Users, Openers
<1>4. /\ at' \in [Request -> Places] /\ kind' \in [Request -> Kinds]
      /\ who' \in [Request -> Principal \cup {None}] /\ sid' \in [Request -> Sid \cup {None}]
      /\ closed' \in [Request -> BOOLEAN] /\ counted' \in [Request -> BOOLEAN]
      /\ holds' \in [Request -> BOOLEAN]
  BY DEF Ends, Typed, Places, Kinds
<1>. QED  BY <1>1, <1>2, <1>3, <1>4

\* A request that has not been counted and holds no place: one that is still
\* being authenticated, or a DELETE.
Weightless(r) == at[r] = "auth" \/ (at[r] = "handling" /\ kind[r] = "delete")

\* Such a request ends, and leaves everything as it is.
LEMMA TurnedAwayInv ==
    ASSUME HttpInv, NEW r \in Request, Weightless(r), Ends(r), UNCHANGED mapVars
    PROVE  HttpInv'
<1>1. UNCHANGED <<owner, inFlight, old, late, pending>>
  BY DEF mapVars
<1>2. \A z \in Sid : r \notin Users(z)
  BY DEF HttpInv, Shape, Users, Weightless
<1>3. \A z \in Principal : r \notin Openers(z)
  BY DEF Openers, Weightless
<1>4. NoneAdded
  BY <1>1 DEF NoneAdded
<1>5. /\ \A z \in Sid : Users(z)' = Users(z)
      /\ \A z \in Principal : Openers(z)' = Openers(z)
  <2>1. /\ \A z \in Sid : Users(z)' = Users(z) \ {r}
        /\ \A z \in Principal : Openers(z)' = Openers(z) \ {r}
    BY <1>4, EndsInv
  <2>2. \A z \in Sid : Users(z) \ {r} = Users(z)
    BY <1>2, NothingRemoved
  <2>3. \A z \in Principal : Openers(z) \ {r} = Openers(z)
    BY <1>3, NothingRemoved
  <2>. QED  BY <2>1, <2>2, <2>3
<1>6. Counts'
  BY <1>1, <1>5, CountsKept
<1>7. Typed'
  BY <1>1, <1>4, EndsInv DEF HttpInv, Typed
<1>. QED  BY <1>4, <1>6, <1>7, EndsInv DEF HttpInv

\* A response that is still open closes with the end of its request.
LEMMA FinishedInv ==
    ASSUME HttpInv, NEW r \in Request, Ends(r),
           IF closed[r] THEN UNCHANGED mapVars ELSE CloseResponse(r)
    PROVE  HttpInv'
<1>1. CASE closed[r]
  <2>1. UNCHANGED <<owner, inFlight, old, late, pending>>
    BY <1>1 DEF mapVars
  <2>2. \A z \in Sid : r \notin Users(z)
    BY <1>1 DEF HttpInv, Shape, Users
  <2>3. \A z \in Principal : r \notin Openers(z)
    BY <1>1 DEF Openers
  <2>4. NoneAdded
    BY <2>1 DEF NoneAdded
  <2>5. /\ \A z \in Sid : Users(z)' = Users(z)
        /\ \A z \in Principal : Openers(z)' = Openers(z)
    <3>1. /\ \A z \in Sid : Users(z)' = Users(z) \ {r}
          /\ \A z \in Principal : Openers(z)' = Openers(z) \ {r}
      BY <2>4, EndsInv
    <3>2. \A z \in Sid : Users(z) \ {r} = Users(z)
      BY <2>2, NothingRemoved
    <3>3. \A z \in Principal : Openers(z) \ {r} = Openers(z)
      BY <2>3, NothingRemoved
    <3>. QED  BY <3>1, <3>2, <3>3
  <2>6. Counts'
    BY <2>1, <2>5, CountsKept
  <2>7. Typed'
    BY <2>1, <2>4, EndsInv DEF HttpInv, Typed
  <2>. QED  BY <2>4, <2>6, <2>7, EndsInv DEF HttpInv
<1>2. CASE ~closed[r]
  <2>1. NoneAdded /\ CloseResponse(r)
    BY <1>2 DEF CloseResponse, NoneAdded
  <2>2. /\ Counts' /\ inFlight' \in [Sid -> Nat] /\ old' \in [Sid -> BOOLEAN]
        /\ pending' \in [Principal -> Nat] /\ UNCHANGED <<owner, late>>
    BY <2>1, EndsInv, CloseCounts
  <2>3. Typed'
    BY <2>1, <2>2, EndsInv DEF HttpInv, Typed
  <2>. QED  BY <2>1, <2>2, <2>3, EndsInv DEF HttpInv
<1>. QED  BY <1>1, <1>2

LEMMA UseInv ==
    ASSUME HttpInv, NEW r \in Request, Use(r)
    PROVE  HttpInv'
<1>. Typed /\ Shape(r)
  BY DEF HttpInv
<1>0. /\ sid[r] \in Sid /\ owner[sid[r]] = who[r] /\ owner[sid[r]] # None
      /\ at[r] = "auth" /\ ~counted[r] /\ ~holds[r]
  BY DEF Use, Names, OwnsSession, Typed, Shape
<1>. /\ counted' \in [Request -> BOOLEAN] /\ inFlight' \in [Sid -> Nat]
     /\ counted'[r] = ~closed[r]
     /\ \A q \in Request \ {r} : counted'[q] = counted[q]
  <2>1. CASE closed[r]
    BY <2>1, <1>0 DEF Use, Typed
  <2>2. CASE ~closed[r]
    <3>1. counted' = [counted EXCEPT ![r] = TRUE]
      BY <2>2 DEF Use
    <3>2. inFlight' = [inFlight EXCEPT ![sid[r]] = @ + 1]
      BY <2>2 DEF Use
    <3>3. inFlight' \in [Sid -> Nat]
      BY <3>2, <1>0 DEF Typed
    <3>. QED  BY <2>2, <3>1, <3>3 DEF Typed
  <2>. QED  BY <2>1, <2>2
<1>1. Typed'
  BY <1>0 DEF Typed, Use, Places
<1>2. \A q \in Request \ {r} : Shape(q)' /\ Served(q)'
  <2>1. NoneAdded /\ sid' = sid
    BY DEF Use, NoneAdded
  <2>2. \A q \in Request \ {r} :
           UNCHANGED <<at[q], kind[q], who[q], sid[q], closed[q], counted[q], holds[q]>>
    BY DEF Use, Typed
  <2>. QED  BY <2>1, <2>2, OthersKept
<1>3. Shape(r)' /\ Served(r)'
  <2>1. /\ at'[r] = "handling" /\ kind'[r] # "delete"
        /\ UNCHANGED <<who, sid, closed, holds, owner>>
    BY DEF Use, Typed
  <2>2. ~holds'[r]
    BY <2>1, <1>0
  <2>. QED  BY <2>1, <2>2, <1>0, HttpSessionsAssumption DEF Typed, Shape, Served
<1>4. \A z \in Principal : Openers(z)' = Openers(z)
  BY <1>0 DEF Use, Typed, Openers
<1>5. Counts'
  <2>1. CASE closed[r]
    <3>1. \A z \in Sid : Users(z)' = Users(z)
      BY <2>1 DEF Use, Users
    <3>. QED  BY <2>1, <3>1, <1>4, CountsKept DEF Use
  <2>2. CASE ~closed[r]
    <3>1. \A z \in Sid : Users(z)' = IF z = sid[r] THEN Users(z) \cup {r} ELSE Users(z)
      BY <2>2 DEF Use, Users, Typed
    <3>2. r \notin Users(sid[r])
      BY <1>0 DEF Users
    <3>3. \A z \in Sid : z = sid[r] => Cardinality(Users(z)') = Cardinality(Users(z)) + 1
      <4>1. \A z \in Sid : z = sid[r] => Users(z)' = Users(z) \cup {r}
        BY <3>1
      <4>2. IsFiniteSet(Users(sid[r]))
        BY <1>0, Finite
      <4>3. Cardinality(Users(sid[r]) \cup {r}) = Cardinality(Users(sid[r])) + 1
        BY <4>2, <3>2, FS_AddElement
      <4>. QED  BY <4>1, <4>3
    <3>4. \A z \in Sid : inFlight'[z] = IF z = sid[r] THEN inFlight[z] + 1 ELSE inFlight[z]
      BY <2>2 DEF Use, Typed
    <3>. QED  BY <3>1, <3>3, <3>4, <1>0, <1>4 DEF HttpInv, Counts, Use
  <2>. QED  BY <2>1, <2>2
<1>. QED  BY <1>1, <1>2, <1>3, <1>5 DEF HttpInv

\* A session being opened: the request holds one more place of its principal.
\* A session may be replaced by it, an idle one.
LEMMA OpenInv ==
    ASSUME HttpInv, NEW r \in Request, Asks(r), ~closed[r], Open(r), NoneAdded,
           owner' \in [Sid -> Principal \cup {None}], inFlight' \in [Sid -> Nat],
           old' \in [Sid -> BOOLEAN],
           \A s \in Sid : owner'[s] # None => inFlight'[s] = inFlight[s]
    PROVE  HttpInv'
<1>. Typed /\ Shape(r)
  BY DEF HttpInv
<1>0. /\ at[r] = "auth" /\ who[r] \in Principal /\ ~counted[r] /\ ~holds[r]
  BY DEF Asks, Shape
<1>1. PICK s \in Sid : /\ owner[s] = None /\ \A q \in Request : sid[q] # s
                       /\ sid' = [sid EXCEPT ![r] = s]
  BY DEF Open
<1>2. Typed'
  BY <1>0, <1>1 DEF Open, Typed, Places
<1>3. \A q \in Request \ {r} : Shape(q)' /\ Served(q)'
  <2>1. sid'[r] = s /\ \A q \in Request \ {r} : at[q] = "opening" => sid'[r] # sid[q]
    BY <1>1 DEF Typed
  <2>2. \A q \in Request \ {r} :
           UNCHANGED <<at[q], kind[q], who[q], sid[q], closed[q], counted[q], holds[q]>>
    BY <1>1 DEF Open, Typed
  <2>. QED  BY <2>1, <2>2, OthersKept
<1>4. Shape(r)' /\ Served(r)'
  <2>1. owner'[s] = None /\ s # None
    BY <1>1, HttpSessionsAssumption DEF NoneAdded
  <2>2. \A q \in Request : sid'[q] = s => q = r
    BY <1>1 DEF Typed
  <2>. QED  BY <2>1, <2>2, <1>0, <1>1 DEF Open, Typed, Shape, Served
<1>5. \A z \in Sid : Users(z)' = Users(z)
  BY <1>0, <1>1 DEF Open, Typed, Users
<1>6. \A p \in Principal : pending'[p] = Cardinality(Openers(p)')
  <2>1. \A p \in Principal : Openers(p)' = IF p = who[r] THEN Openers(p) \cup {r} ELSE Openers(p)
    BY <1>0 DEF Open, Typed, Openers
  <2>2. r \notin Openers(who[r])
    BY <1>0 DEF Openers
  <2>3. \A p \in Principal : p = who[r] => Cardinality(Openers(p)') = Cardinality(Openers(p)) + 1
    <3>1. \A p \in Principal : p = who[r] => Openers(p)' = Openers(p) \cup {r}
      BY <2>1
    <3>2. IsFiniteSet(Openers(who[r]))
      BY <1>0, Finite
    <3>3. Cardinality(Openers(who[r]) \cup {r}) = Cardinality(Openers(who[r])) + 1
      BY <3>2, <2>2, FS_AddElement
    <3>. QED  BY <3>1, <3>3
  <2>4. \A p \in Principal : pending'[p] = IF p = who[r] THEN pending[p] + 1 ELSE pending[p]
    BY DEF Open, Typed
  <2>. QED  BY <2>1, <2>3, <2>4, <1>0 DEF HttpInv, Counts
<1>7. Counts'
  BY <1>5, <1>6 DEF HttpInv, Counts, NoneAdded
<1>. QED  BY <1>2, <1>3, <1>4, <1>7 DEF HttpInv

LEMMA DropMap ==
    ASSUME Typed, NEW s \in Sid, Drop(s)
    PROVE  /\ NoneAdded /\ owner' \in [Sid -> Principal \cup {None}]
           /\ inFlight' \in [Sid -> Nat] /\ old' \in [Sid -> BOOLEAN]
           /\ \A z \in Sid : owner'[z] # None =>
                  z # s /\ owner[z] # None /\ inFlight'[z] = inFlight[z]
           /\ \A z \in Sid \ {s} : owner'[z] = owner[z]
  BY DEF Typed, Drop, NoneAdded

LEMMA AdmitInv ==
    ASSUME HttpInv, NEW r \in Request, Admit(r)
    PROVE  HttpInv'
  BY OpenInv DEF Admit, NoneAdded, HttpInv, Typed

LEMMA ReplaceInv ==
    ASSUME HttpInv, NEW r \in Request, Replace(r)
    PROVE  HttpInv'
<1>1. PICK s \in Sid : Drop(s)
  BY DEF Replace, Of, Live
<1>. QED  BY <1>1, DropMap, OpenInv DEF Replace, HttpInv

LEMMA RegisterInv ==
    ASSUME HttpInv, NEW r \in Request, Register(r)
    PROVE  HttpInv'
<1>. Typed /\ Shape(r)
  BY DEF HttpInv
<1>. DEFINE s == sid[r]
<1>0. /\ at[r] = "opening" /\ s \in Sid /\ owner[s] = None /\ who[r] \in Principal
      /\ ~counted[r] /\ who[r] # None
      /\ \A q \in Request : sid[q] = s => q = r
  BY HttpSessionsAssumption DEF Register, Shape, Typed
<1>1. late' \in [Principal -> Nat]
  BY DEF Register, Typed
<1>2. \A p \in Principal : Openers(p)' = Openers(p) \ {r}
  BY <1>0 DEF Register, Typed, Openers
<1>3. pending' \in [Principal -> Nat] /\ \A p \in Principal : pending'[p] = Cardinality(Openers(p)')
  <2>1. \A p \in Principal : Cardinality(Openers(p)') =
            IF r \in Openers(p) THEN Cardinality(Openers(p)) - 1 ELSE Cardinality(Openers(p))
    BY <1>2, Finite, FS_RemoveElement
  <2>2. CASE holds[r]
    <3>1. who[r] \in Principal /\ pending[who[r]] > 0
      BY <2>2, HoldsCount
    <3>2. \A p \in Principal : r \in Openers(p) <=> p = who[r]
      BY <2>2, <1>0 DEF Shape, Openers
    <3>3. pending' = [pending EXCEPT ![who[r]] = @ - 1]
      BY <2>2 DEF Register
    <3>. QED  BY <2>1, <3>1, <3>2, <3>3 DEF HttpInv, Counts, Typed
  <2>3. CASE ~holds[r]
    <3>1. pending' = pending /\ \A p \in Principal : r \notin Openers(p)
      BY <2>3, <1>0 DEF Register, Shape, Openers
    <3>. QED  BY <2>1, <3>1 DEF HttpInv, Counts, Typed
  <2>. QED  BY <2>2, <2>3
<1>4. Typed'
  BY <1>0, <1>1, <1>3 DEF Register, Typed, Places
<1>5. \A z \in Sid : Users(z)' = Users(z)
  BY DEF Register, Users
<1>6. Users(s) = {}
  BY <1>0 DEF Users
<1>7. Counts'
  <2>1. \A z \in Sid \ {s} : owner'[z] = owner[z] /\ inFlight'[z] = inFlight[z]
    BY <1>0 DEF Register, Typed
  <2>2. inFlight'[s] = 0
    BY <1>0 DEF Register, Typed
  <2>. QED  BY <2>1, <2>2, <1>3, <1>5, <1>6, FS_EmptySet DEF HttpInv, Counts
<1>8. ASSUME NEW q \in Request PROVE Shape(q)' /\ Served(q)'
  <2>1. CASE q = r
    BY <2>1, <1>0 DEF Register, Typed, Shape, Served
  <2>2. CASE q # r
    <3>1. Shape(q) /\ Served(q) /\ sid[q] # s /\ sid[q] \in Sid \cup {None}
      BY <2>2, <1>0 DEF HttpInv, Typed
    <3>2. /\ UNCHANGED <<at[q], kind[q], who[q], sid, closed[q], counted[q], holds[q]>>
          /\ sid[q] # None => owner'[sid[q]] = owner[sid[q]]
      BY <2>2, <3>1 DEF Register, Typed
    <3>. QED  BY <3>1, <3>2 DEF Shape, Served
  <2>. QED  BY <2>1, <2>2
<1>. QED  BY <1>4, <1>7, <1>8 DEF HttpInv

LEMMA DeleteInv ==
    ASSUME HttpInv, NEW r \in Request, Delete(r)
    PROVE  HttpInv'
<1>. Typed /\ Shape(r)
  BY DEF HttpInv
<1>1. Typed'
  BY DEF Typed, Delete, mapVars, Places
<1>2. \A q \in Request \ {r} : Shape(q)' /\ Served(q)'
  BY OthersKept DEF Delete, mapVars, Typed, NoneAdded
<1>3. Shape(r)' /\ Served(r)'
  BY DEF Delete, mapVars, Names, OwnsSession, Typed, Shape, Served
<1>4. Counts'
  <2>1. \A z \in Sid : Users(z)' = Users(z)
    BY DEF Delete, Users
  <2>2. \A z \in Principal : Openers(z)' = Openers(z)
    BY DEF Delete, Typed, Openers
  <2>. QED  BY <2>1, <2>2, CountsKept DEF Delete, mapVars
<1>. QED  BY <1>1, <1>2, <1>3, <1>4 DEF HttpInv

LEMMA DeletedInv ==
    ASSUME HttpInv, NEW r \in Request, Deleted(r)
    PROVE  HttpInv'
<1>. Typed /\ Shape(r)
  BY DEF HttpInv
<1>1. sid[r] \in Sid
  BY DEF Deleted, Shape, Typed
<1>. /\ NoneAdded /\ Ends(r) /\ UNCHANGED <<late, pending>>
     /\ owner' \in [Sid -> Principal \cup {None}]
     /\ inFlight' \in [Sid -> Nat] /\ old' \in [Sid -> BOOLEAN]
     /\ \A z \in Sid : owner'[z] # None =>
            z # sid[r] /\ owner[z] # None /\ inFlight'[z] = inFlight[z]
  BY <1>1, DropMap DEF Deleted
<1>2. Typed'
  BY EndsInv DEF Typed
<1>3. \A z \in Sid : owner'[z] # None => Users(z)' = Users(z)
  <2>1. \A z \in Sid : Users(z)' = Users(z) \ {r}
    BY EndsInv
  <2>2. \A z \in Sid : z # sid[r] => r \notin Users(z)
    BY DEF Users
  <2>3. \A z \in Sid : z # sid[r] => Users(z) \ {r} = Users(z)
    BY <2>2, NothingRemoved
  <2>. QED  BY <2>1, <2>3
<1>4. \A p \in Principal : Openers(p)' = Openers(p)
  <2>1. \A p \in Principal : Openers(p)' = Openers(p) \ {r}
    BY EndsInv
  <2>2. \A p \in Principal : r \notin Openers(p)
    BY DEF Deleted, Openers
  <2>3. \A p \in Principal : Openers(p) \ {r} = Openers(p)
    BY <2>2, NothingRemoved
  <2>. QED  BY <2>1, <2>3
<1>5. Counts'
  BY <1>3, <1>4, CountsKept
<1>. QED  BY <1>2, <1>5, EndsInv DEF HttpInv

\* The sessions age, and are swept: no request is concerned.
LEMMA TimerInv ==
    ASSUME HttpInv, NEW s \in Sid, GrowOld(s) \/ Sweep(s)
    PROVE  HttpInv'
<1>. Typed
  BY DEF HttpInv
<1>1. UNCHANGED <<at, kind, who, sid, closed, counted, holds, late, pending>>
  BY DEF GrowOld, Sweep, reqVars
<1>2. /\ NoneAdded /\ owner' \in [Sid -> Principal \cup {None}]
      /\ inFlight' \in [Sid -> Nat] /\ old' \in [Sid -> BOOLEAN]
      /\ \A z \in Sid : owner'[z] # None => owner[z] # None /\ inFlight'[z] = inFlight[z]
  <2>1. CASE GrowOld(s)
    BY <2>1 DEF GrowOld, Typed, NoneAdded
  <2>2. CASE Sweep(s)
    BY <2>2, DropMap DEF Sweep
  <2>. QED  BY <2>1, <2>2
<1>3. Typed'
  BY <1>1, <1>2 DEF Typed
<1>4. ASSUME NEW q \in Request PROVE Shape(q)' /\ Served(q)'
  BY <1>1, <1>2 DEF HttpInv, Typed, Shape, Served, NoneAdded
<1>5. Counts'
  BY <1>1, <1>2, CountsKept DEF Users, Openers
<1>. QED  BY <1>3, <1>4, <1>5 DEF HttpInv

-----------------------------------------------------------------------------
LEMMA NextInv == HttpInv /\ [Next]_vars => HttpInv'
<1>. SUFFICES ASSUME HttpInv, [Next]_vars PROVE HttpInv'
  OBVIOUS
<1>1. CASE UNCHANGED vars
  BY <1>1 DEF vars, HttpInv, Typed, Shape, Served, Counts, Users, Openers
<1>2. ASSUME NEW r \in Request, RequestStep(r) PROVE HttpInv'
  <2>1. ASSUME NEW k \in Kinds, NEW p \in Principal, NEW s \in Live \cup {None},
               Arrive(r, k, p, s)
        PROVE  HttpInv'
    BY <2>1, ArriveInv
  <2>2. CASE HangUp(r)
    BY <2>2, HangUpInv
  <2>3. CASE Refused(r)
    <3>1. Weightless(r) /\ Ends(r) /\ UNCHANGED mapVars
      BY <2>3 DEF Refused, Weightless
    <3>. QED  BY <3>1, TurnedAwayInv
  <2>4. CASE Use(r)
    BY <2>4, UseInv
  <2>5. CASE Answered(r)
    BY <2>5, FinishedInv DEF Answered
  <2>6. CASE Admit(r)
    BY <2>6, AdmitInv
  <2>7. CASE Replace(r)
    BY <2>7, ReplaceInv
  <2>8. CASE Reject(r)
    <3>1. Weightless(r) /\ Ends(r) /\ UNCHANGED mapVars
      BY <2>8 DEF Reject, Asks, Weightless
    <3>. QED  BY <3>1, TurnedAwayInv
  <2>9. CASE Register(r)
    BY <2>9, RegisterInv
  <2>10. CASE InitFails(r)
    BY <2>10, FinishedInv DEF InitFails
  <2>11. CASE Delete(r)
    BY <2>11, DeleteInv
  <2>12. CASE Deleted(r)
    BY <2>12, DeletedInv
  <2>13. CASE DeleteFails(r)
    <3>1. Weightless(r) /\ Ends(r) /\ UNCHANGED mapVars
      BY <2>13 DEF DeleteFails, Weightless
    <3>. QED  BY <3>1, TurnedAwayInv
  <2>. QED
    BY <1>2, <2>1, <2>2, <2>3, <2>4, <2>5, <2>6, <2>7, <2>8, <2>9, <2>10, <2>11, <2>12, <2>13
       DEF RequestStep
<1>3. ASSUME NEW s \in Sid, GrowOld(s) \/ Sweep(s) PROVE HttpInv'
  BY <1>3, TimerInv
<1>. QED  BY <1>1, <1>2, <1>3 DEF Next

\* What the properties below rest on: the invariant of the server's sessions,
\* whatever the callers, their requests and the caps.
THEOREM SessionsInvariant == Spec => []HttpInv
<1>. QED  BY InitInv, NextInv, PTL DEF Spec

\* inFlight is the number of open responses on a session (trackRequest and its
\* 'close' listener), through every order of hang-ups and answers.
THEOREM InFlightCounts == Spec => []InFlightExact
<1>1. HttpInv => InFlightExact
  BY DEF HttpInv, Counts, InFlightExact, Users, Live
<1>. QED  BY <1>1, SessionsInvariant, PTL

\* Whoever is being served on a session is the principal ownsSession compared.
THEOREM OwnersServed == Spec => []ServedToOwner
<1>1. HttpInv => ServedToOwner
  BY DEF HttpInv, Served, ServedToOwner
<1>. QED  BY <1>1, SessionsInvariant, PTL

\* A held initialize (reservePending) is given back however its request ends.
THEOREM PendingReturned == Spec => []PendingExact
<1>1. HttpInv => PendingExact
  BY DEF HttpInv, Counts, PendingExact, Openers
<1>. QED  BY <1>1, SessionsInvariant, PTL

\* Neither the sweep nor an admission closes a session under a request of its
\* principal: a busy session goes with the DELETE of its owner alone.
THEOREM BusyKept == Spec => BusyClosedByOwnerOnly
<1>. DEFINE Kept(s) ==
         /\ owner[s] # None /\ owner'[s] = None
         /\ \E r \in Request : counted[r] /\ sid[r] = s
         => \E d \in Request : /\ kind[d] = "delete" /\ at[d] = "handling" /\ sid[d] = s
                               /\ who[d] = owner[s]
<1>1. ASSUME HttpInv, [Next]_vars, NEW s \in Sid, owner[s] # None, owner'[s] = None,
             NEW u \in Request, counted[u], sid[u] = s
      PROVE  \E d \in Request : /\ kind[d] = "delete" /\ at[d] = "handling" /\ sid[d] = s
                                /\ who[d] = owner[s]
  <2>. Typed
    BY <1>1 DEF HttpInv
  <2>1. ~Idle(s)
    BY <1>1, BusyCount DEF Idle
  <2>2. ASSUME NEW z \in Sid, Idle(z), Drop(z) PROVE FALSE
    BY <2>1, <2>2, <1>1, DropMap
  <2>3. ASSUME NEW r \in Request, RequestStep(r)
        PROVE  Deleted(r) \/ UNCHANGED owner \/ owner'[s] # None \/ Replace(r)
    <3>1. CASE Register(r)
      BY <3>1, <1>1, HttpSessionsAssumption DEF Register, Typed, HttpInv, Shape
    <3>2. CASE HangUp(r) \/ Answered(r) \/ InitFails(r)
      BY <3>2 DEF HangUp, Answered, InitFails, CloseResponse, mapVars
    <3>. QED
      BY <2>3, <3>1, <3>2
         DEF RequestStep, Arrive, Refused, Use, Admit, Reject, Delete, DeleteFails, mapVars
  <2>4. ~\E r \in Request : Replace(r)
    BY <2>2 DEF Replace, Of, Live
  <2>5. ASSUME NEW z \in Sid, GrowOld(z) \/ Sweep(z) PROVE UNCHANGED owner
    BY <2>2, <2>5 DEF GrowOld, Sweep
  <2>6. PICK r \in Request : Deleted(r)
    BY <1>1, <2>3, <2>4, <2>5 DEF Next, vars
  <2>7. sid[r] \in Sid
    BY <2>6, <1>1 DEF Deleted, HttpInv, Shape, Typed
  <2>8. s = sid[r]
    BY <1>1, <2>6, <2>7, DropMap DEF Deleted
  <2>9. who[r] = owner[s] /\ kind[r] = "delete" /\ at[r] = "handling"
    BY <2>6, <2>7, <2>8, <1>1, HttpSessionsAssumption DEF Deleted, HttpInv, Served
  <2>. QED  BY <2>8, <2>9
<1>2. HttpInv /\ [Next]_vars => [\A s \in Sid : Kept(s)]_vars
  BY <1>1
<1>. QED  BY <1>2, SessionsInvariant, PTL DEF Spec, BusyClosedByOwnerOnly

-----------------------------------------------------------------------------
(* The caps, and the bounds of the counters.                               *)

\* The counter of an entry goes with the entry.
Gone == \A s \in Sid : owner[s] = None => inFlight[s] = 0

Caps == Gone /\ OvershootIsLate /\ SumFunction(late) <= MaxLate

LEMMA SidSubsets == \A S \in SUBSET Sid : IsFiniteSet(S) /\ Cardinality(S) \in Nat
<1>1. \A S \in SUBSET Sid : IsFiniteSet(S)
  BY HttpSessionsAssumption, FS_Subset
<1>. QED  BY <1>1, FS_CardinalityType

LEMMA LiveCounted ==
    /\ IsFiniteSet(Live) /\ Cardinality(Live) \in Nat
    /\ \A p \in Principal : IsFiniteSet(Of(p)) /\ Cardinality(Of(p)) \in Nat
<1>1. Live \in SUBSET Sid /\ \A p \in Principal : Of(p) \in SUBSET Sid
  BY DEF Live, Of
<1>. QED  BY <1>1, SidSubsets

LEMMA HeldAndLate ==
    ASSUME Typed
    PROVE  SumFunction(pending) \in Nat /\ SumFunction(late) \in Nat
  BY HttpSessionsAssumption, SumBounds DEF Typed

LEMMA OneChanged ==
    ASSUME NEW f \in [Principal -> Nat], NEW p \in Principal, NEW v \in Nat
    PROVE  SumFunction([f EXCEPT ![p] = v]) = SumFunction(f) - f[p] + v
<1>1. IsFiniteSet(Principal)
  BY HttpSessionsAssumption
<1>. QED  BY <1>1, SumUpdate, Zenon

LEMMA InitCaps == Init => Caps
<1>. SUFFICES ASSUME Init PROVE Caps
  OBVIOUS
<1>1. Live = {} /\ \A p \in Principal : Of(p) = {}
  BY DEF Init, Live, Of
<1>2. SumFunction(pending) = 0 /\ SumFunction(late) = 0
  BY HttpSessionsAssumption, SumZero DEF Init
<1>3. OvershootIsLate
  BY <1>1, <1>2, FS_EmptySet, HttpSessionsAssumption DEF OvershootIsLate, Own, Init
<1>. QED  BY <1>2, <1>3, HttpSessionsAssumption DEF Caps, Gone, Init

LEMMA GoneKept == HttpInv /\ Gone /\ [Next]_vars => Gone'
<1>. SUFFICES ASSUME HttpInv, Gone, [Next]_vars PROVE Gone'
  OBVIOUS
<1>. Typed
  BY DEF HttpInv
<1>1. ASSUME NEW s \in Sid, Drop(s) PROVE Gone'
  BY <1>1 DEF Gone, Drop, Typed
<1>2. ASSUME NEW r \in Request, CloseResponse(r) PROVE Gone'
  BY <1>2 DEF Gone, CloseResponse, Typed
<1>3. ASSUME UNCHANGED <<owner, inFlight>> PROVE Gone'
  BY <1>3 DEF Gone
<1>4. ASSUME NEW r \in Request, RequestStep(r) PROVE Gone'
  <2>1. CASE Use(r)
    BY <2>1 DEF Use, Names, OwnsSession, Gone, Typed
  <2>2. CASE Register(r)
    <3>1. who[r] # None
      BY <2>2, HttpSessionsAssumption DEF Register, HttpInv, Shape
    <3>. QED  BY <2>2, <3>1 DEF Register, Gone, Typed
  <2>3. CASE Replace(r)
    BY <2>3, <1>1 DEF Replace, Of, Live
  <2>4. CASE Deleted(r)
    BY <2>4, <1>1 DEF Deleted, HttpInv, Shape, Typed
  <2>5. CASE HangUp(r) \/ Answered(r) \/ InitFails(r)
    BY <2>5, <1>2, <1>3 DEF HangUp, Answered, InitFails, mapVars
  <2>. QED
    BY <1>4, <1>3, <2>1, <2>2, <2>3, <2>4, <2>5
       DEF RequestStep, Arrive, Refused, Admit, Reject, Delete, DeleteFails, mapVars
<1>5. ASSUME NEW s \in Sid, GrowOld(s) \/ Sweep(s) PROVE Gone'
  BY <1>5, <1>1, <1>3 DEF GrowOld, Sweep
<1>. QED  BY <1>3, <1>4, <1>5 DEF Next, vars

\* Giving back, which most steps do if anything: sessions leave the map, and one
\* initialize lets go of its place.
GivesBack ==
    /\ NoneAdded
    /\ late' = late
    /\ \/ pending' = pending
       \/ \E p \in Principal : pending[p] > 0 /\ pending' = [pending EXCEPT ![p] = @ - 1]

LEMMA GivesBackCaps ==
    ASSUME HttpInv, Caps, GivesBack
    PROVE  OvershootIsLate' /\ SumFunction(late)' <= MaxLate
<1>. Typed
  BY DEF HttpInv
<1>1. Cardinality(Live') <= Cardinality(Live) /\ Cardinality(Live') \in Nat
  <2>1. Live' \in SUBSET Live /\ Live' \in SUBSET Sid
    BY DEF GivesBack, NoneAdded, Live
  <2>2. Cardinality(Live') <= Cardinality(Live)
    BY <2>1, LiveCounted, FS_Subset
  <2>. QED  BY <2>1, <2>2, SidSubsets
<1>2. ASSUME NEW p \in Principal
      PROVE  Cardinality(Of(p)') <= Cardinality(Of(p)) /\ Cardinality(Of(p)') \in Nat
  <2>1. Of(p)' \in SUBSET Of(p) /\ Of(p)' \in SUBSET Sid
    BY HttpSessionsAssumption DEF GivesBack, NoneAdded, Of, Live
  <2>2. Cardinality(Of(p)') <= Cardinality(Of(p))
    BY <2>1, LiveCounted, FS_Subset
  <2>. QED  BY <2>1, <2>2, SidSubsets
<1>3. /\ SumFunction(pending') <= SumFunction(pending) /\ SumFunction(pending') \in Nat
      /\ \A p \in Principal : pending'[p] <= pending[p] /\ pending'[p] \in Nat
  <2>1. CASE pending' = pending
    BY <2>1, HeldAndLate DEF Typed
  <2>2. ASSUME NEW p \in Principal, pending[p] > 0, pending' = [pending EXCEPT ![p] = @ - 1]
        PROVE  /\ SumFunction(pending') <= SumFunction(pending) /\ SumFunction(pending') \in Nat
               /\ \A q \in Principal : pending'[q] <= pending[q] /\ pending'[q] \in Nat
    <3>1. pending[p] - 1 \in Nat /\ pending \in [Principal -> Nat]
      BY <2>2 DEF Typed
    <3>2. pending' \in [Principal -> Nat] /\ \A q \in Principal : pending'[q] <= pending[q]
      BY <3>1, <2>2
    <3>3. SumFunction([pending EXCEPT ![p] = pending[p] - 1])
              = SumFunction(pending) - pending[p] + (pending[p] - 1)
      BY <3>1, OneChanged
    <3>4. SumFunction(pending') \in Nat
      BY <3>2, HttpSessionsAssumption, SumBounds
    <3>. QED  BY <2>2, <3>1, <3>2, <3>3, <3>4, HeldAndLate
  <2>. QED  BY <2>1, <2>2 DEF GivesBack
<1>4. late' = late /\ \A p \in Principal : late[p] \in Nat /\ pending[p] \in Nat
  BY DEF GivesBack, Typed
<1>5. Cardinality(Live') + SumFunction(pending') <= MaxTotal + SumFunction(late')
  BY <1>1, <1>3, <1>4, LiveCounted, HeldAndLate, HttpSessionsAssumption DEF Caps, OvershootIsLate
<1>6. \A p \in Principal : Own(p)' <= MaxPerPrincipal + late'[p]
  BY <1>2, <1>3, <1>4, LiveCounted, HttpSessionsAssumption DEF Caps, OvershootIsLate, Own
<1>. QED  BY <1>4, <1>5, <1>6 DEF Caps, OvershootIsLate

\* An initialize that is let in takes a place of its principal.
LEMMA OpenHolds ==
    ASSUME HttpInv, NEW r \in Request, Asks(r), Open(r)
    PROVE  /\ who[r] \in Principal /\ late' = late
           /\ SumFunction(pending') = SumFunction(pending) + 1
           /\ \A p \in Principal : pending'[p] = IF p = who[r] THEN pending[p] + 1 ELSE pending[p]
<1>1. who[r] \in Principal /\ pending \in [Principal -> Nat]
  BY DEF HttpInv, Typed, Shape, Asks
<1>2. pending' = [pending EXCEPT ![who[r]] = pending[who[r]] + 1] /\ pending[who[r]] + 1 \in Nat
  BY <1>1 DEF Open
<1>3. SumFunction([pending EXCEPT ![who[r]] = pending[who[r]] + 1])
          = SumFunction(pending) - pending[who[r]] + (pending[who[r]] + 1)
  BY <1>1, <1>2, OneChanged
<1>. QED  BY <1>1, <1>2, <1>3, HeldAndLate DEF Open, HttpInv

LEMMA AdmitCaps ==
    ASSUME HttpInv, Caps, NEW r \in Request, Admit(r)
    PROVE  OvershootIsLate' /\ SumFunction(late)' <= MaxLate
<1>. Typed
  BY DEF HttpInv
<1>1. /\ who[r] \in Principal /\ late' = late
      /\ SumFunction(pending') = SumFunction(pending) + 1
      /\ \A p \in Principal : pending'[p] = IF p = who[r] THEN pending[p] + 1 ELSE pending[p]
  BY OpenHolds DEF Admit
<1>2. Live' = Live /\ \A p \in Principal : Of(p)' = Of(p)
  BY DEF Admit, Live, Of
<1>3. Cardinality(Live') + SumFunction(pending') <= MaxTotal + SumFunction(late')
  BY <1>1, <1>2, LiveCounted, HeldAndLate, HttpSessionsAssumption DEF Admit, Total
<1>4. ASSUME NEW p \in Principal PROVE Own(p)' <= MaxPerPrincipal + late'[p]
  <2>1. Own(p)' = IF p = who[r] THEN Own(p) + 1 ELSE Own(p)
    BY <1>1, <1>2, LiveCounted DEF Own, Typed
  <2>2. Own(p) \in Nat /\ late'[p] \in Nat /\ late'[p] = late[p]
    BY <1>1, LiveCounted DEF Own, Typed
  <2>3. Own(p) <= MaxPerPrincipal + late[p]
    BY DEF Caps, OvershootIsLate
  <2>. QED  BY <2>1, <2>2, <2>3, HttpSessionsAssumption DEF Admit
<1>. QED  BY <1>1, <1>3, <1>4 DEF Caps, OvershootIsLate

LEMMA ReplaceCaps ==
    ASSUME HttpInv, Caps, NEW r \in Request, Replace(r)
    PROVE  OvershootIsLate' /\ SumFunction(late)' <= MaxLate
<1>. Typed
  BY DEF HttpInv
<1>1. /\ who[r] \in Principal /\ late' = late
      /\ SumFunction(pending') = SumFunction(pending) + 1
      /\ \A p \in Principal : pending'[p] = IF p = who[r] THEN pending[p] + 1 ELSE pending[p]
  BY OpenHolds DEF Replace
<1>2. PICK s \in Of(who[r]) : Drop(s)
  BY DEF Replace
<1>3. s \in Sid /\ s \in Live /\ owner[s] = who[r]
  BY DEF Of, Live
<1>4. Live' = Live \ {s} /\ \A p \in Principal : Of(p)' = Of(p) \ {s}
  BY <1>2, <1>3, HttpSessionsAssumption DEF Drop, Typed, Live, Of
<1>5. Cardinality(Live') = Cardinality(Live) - 1
  BY <1>3, <1>4, LiveCounted, FS_RemoveElement
<1>6. \A p \in Principal : Cardinality(Of(p)') =
          IF p = who[r] THEN Cardinality(Of(p)) - 1 ELSE Cardinality(Of(p))
  <2>1. \A p \in Principal : s \in Of(p) <=> p = who[r]
    BY <1>3 DEF Of
  <2>. QED  BY <1>4, <2>1, LiveCounted, FS_RemoveElement
<1>7. Cardinality(Live') + SumFunction(pending') <= MaxTotal + SumFunction(late')
  BY <1>1, <1>5, LiveCounted, HeldAndLate, HttpSessionsAssumption DEF Caps, OvershootIsLate
<1>8. ASSUME NEW p \in Principal PROVE Own(p)' <= MaxPerPrincipal + late'[p]
  BY <1>1, <1>6, LiveCounted DEF Caps, OvershootIsLate, Own, Typed
<1>. QED  BY <1>1, <1>7, <1>8 DEF Caps, OvershootIsLate

\* A session enters the map for a place that was held, or late.
LEMMA RegisterCaps ==
    ASSUME HttpInv, Caps, NEW r \in Request, Register(r)
    PROVE  OvershootIsLate' /\ SumFunction(late)' <= MaxLate
<1>. Typed /\ Shape(r)
  BY DEF HttpInv
<1>. DEFINE s == sid[r]
            p0 == who[r]
<1>1. s \in Sid /\ s \notin Live /\ p0 \in Principal /\ p0 # None
  BY HttpSessionsAssumption DEF Register, Shape, Typed, Live
<1>2. Live' = Live \cup {s} /\ \A p \in Principal : Of(p)' = IF p = p0 THEN Of(p) \cup {s} ELSE Of(p)
  BY <1>1 DEF Register, Typed, Live, Of
<1>3. Cardinality(Live') = Cardinality(Live) + 1
  BY <1>1, <1>2, LiveCounted, FS_AddElement
<1>4. \A p \in Principal : Cardinality(Of(p)') =
          IF p = p0 THEN Cardinality(Of(p)) + 1 ELSE Cardinality(Of(p))
  <2>1. \A p \in Principal : s \notin Of(p)
    BY <1>1 DEF Of
  <2>2. \A p \in Principal : Cardinality(Of(p) \cup {s}) = Cardinality(Of(p)) + 1
    BY <2>1, LiveCounted, FS_AddElement
  <2>. QED  BY <1>2, <2>2
<1>5. CASE holds[r]
  <2>1. pending[p0] > 0 /\ pending \in [Principal -> Nat] /\ pending[p0] - 1 \in Nat
    BY <1>5, <1>1, HoldsCount DEF Typed
  <2>2. pending' = [pending EXCEPT ![p0] = pending[p0] - 1] /\ late' = late
    BY <1>5, <2>1 DEF Register, Shape
  <2>3. SumFunction([pending EXCEPT ![p0] = pending[p0] - 1])
            = SumFunction(pending) - pending[p0] + (pending[p0] - 1)
    BY <1>1, <2>1, OneChanged
  <2>4. Cardinality(Live') + SumFunction(pending') = Cardinality(Live) + SumFunction(pending)
    <3>. HIDE DEF p0
    <3>. QED  BY <1>1, <1>3, <2>1, <2>2, <2>3, LiveCounted, HeldAndLate
  <2>5. ASSUME NEW p \in Principal PROVE Own(p)' = Own(p)
    BY <1>4, <2>1, <2>2, LiveCounted DEF Own, Typed
  <2>. QED  BY <2>2, <2>4, <2>5 DEF Caps, OvershootIsLate
<1>6. CASE ~holds[r]
  <2>1. closed[r] /\ late \in [Principal -> Nat]
    BY <1>6 DEF Register, Shape, Typed
  <2>2. /\ pending' = pending /\ late' = [late EXCEPT ![p0] = late[p0] + 1]
        /\ late[p0] + 1 \in Nat /\ SumFunction(late) < MaxLate
    BY <1>1, <1>6, <2>1 DEF Register
  <2>3. SumFunction([late EXCEPT ![p0] = late[p0] + 1]) = SumFunction(late) - late[p0] + (late[p0] + 1)
    BY <1>1, <2>1, <2>2, OneChanged
  <2>4. SumFunction(late') = SumFunction(late) + 1
    <3>. HIDE DEF p0
    <3>. QED  BY <1>1, <2>1, <2>2, <2>3, HeldAndLate
  <2>5. Cardinality(Live') + SumFunction(pending') <= MaxTotal + SumFunction(late')
    BY <1>3, <2>2, <2>4, LiveCounted, HeldAndLate, HttpSessionsAssumption DEF Caps, OvershootIsLate
  <2>6. ASSUME NEW p \in Principal PROVE Own(p)' <= MaxPerPrincipal + late'[p]
    <3>1. Own(p) \in Nat /\ late[p] \in Nat /\ Own(p) <= MaxPerPrincipal + late[p]
      BY LiveCounted DEF Own, Typed, Caps, OvershootIsLate
    <3>2. Own(p)' = IF p = p0 THEN Own(p) + 1 ELSE Own(p)
      BY <1>4, <2>2, LiveCounted DEF Own, Typed
    <3>3. late'[p] = IF p = p0 THEN late[p] + 1 ELSE late[p]
      BY <2>1, <2>2
    <3>. QED  BY <3>1, <3>2, <3>3, HttpSessionsAssumption
  <2>. QED  BY <2>2, <2>4, <2>5, <2>6, HeldAndLate, HttpSessionsAssumption DEF OvershootIsLate
<1>. QED  BY <1>5, <1>6

LEMMA CloseGivesBack ==
    ASSUME HttpInv, NEW r \in Request, CloseResponse(r)
    PROVE  GivesBack
<1>1. CASE holds[r]
  BY <1>1, HoldsCount DEF CloseResponse, GivesBack, NoneAdded
<1>2. CASE ~holds[r]
  BY <1>2 DEF CloseResponse, GivesBack, NoneAdded
<1>. QED  BY <1>1, <1>2

LEMMA NextCaps == HttpInv /\ Caps /\ [Next]_vars => Caps'
<1>. SUFFICES ASSUME HttpInv, Caps, [Next]_vars PROVE OvershootIsLate' /\ SumFunction(late)' <= MaxLate
  BY GoneKept DEF Caps
<1>. Typed
  BY DEF HttpInv
<1>1. ASSUME UNCHANGED <<owner, late, pending>> PROVE GivesBack
  BY <1>1 DEF GivesBack, NoneAdded
<1>2. ASSUME NEW s \in Sid, Drop(s), UNCHANGED <<late, pending>> PROVE GivesBack
  BY <1>2, DropMap DEF GivesBack
<1>3. ASSUME NEW r \in Request, RequestStep(r)
      PROVE  GivesBack \/ Admit(r) \/ Replace(r) \/ Register(r)
  <2>1. CASE Deleted(r)
    <3>1. sid[r] \in Sid
      BY <2>1 DEF Deleted, HttpInv, Shape, Typed
    <3>. QED  BY <2>1, <3>1, <1>2 DEF Deleted
  <2>2. CASE HangUp(r) \/ Answered(r) \/ InitFails(r)
    BY <2>2, <1>1, CloseGivesBack DEF HangUp, Answered, InitFails, mapVars
  <2>. QED
    BY <1>3, <1>1, <2>1, <2>2
       DEF RequestStep, Arrive, Refused, Use, Reject, Delete, DeleteFails, mapVars
<1>4. ASSUME NEW s \in Sid, GrowOld(s) \/ Sweep(s) PROVE GivesBack
  BY <1>4, <1>1, <1>2 DEF GrowOld, Sweep
<1>5. CASE UNCHANGED vars
  BY <1>5, <1>1, GivesBackCaps DEF vars
<1>6. CASE Next
  BY <1>6, <1>3, <1>4, GivesBackCaps, AdmitCaps, ReplaceCaps, RegisterCaps DEF Next
<1>. QED  BY <1>5, <1>6

LEMMA CapsInvariant == Spec => [](HttpInv /\ Caps)
<1>1. Init => HttpInv /\ Caps
  BY InitInv, InitCaps
<1>2. HttpInv /\ Caps /\ [Next]_vars => (HttpInv /\ Caps)'
  BY NextInv, NextCaps
<1>. QED  BY <1>1, <1>2, PTL DEF Spec

\* Sessions and held initializes together stay under both caps of
\* decideSessionAdmission, but for the sessions the SDK registered after their
\* client had hung up, one for one.
THEOREM CapsHeld == Spec => []OvershootIsLate
<1>1. HttpInv /\ Caps => OvershootIsLate
  BY DEF Caps
<1>. QED  BY <1>1, CapsInvariant, PTL

\* The shapes of the map and of the requests; no counter exceeds the number of
\* requests (of a session that has left the map it is zero), and late its bound.
THEOREM SessionTypes == Spec => []TypeOK
<1>1. ASSUME HttpInv, Caps PROVE TypeOK
  <2>. Typed
    BY <1>1 DEF HttpInv
  <2>0. IsFiniteSet(Request) /\ Cardinality(Request) \in Nat
    BY HttpSessionsAssumption, FS_CardinalityType
  <2>1. inFlight \in [Sid -> 0..Cardinality(Request)]
    <3>1. ASSUME NEW s \in Sid PROVE inFlight[s] <= Cardinality(Request)
      <4>1. Users(s) \in SUBSET Request
        BY DEF Users
      <4>2. Cardinality(Users(s)) <= Cardinality(Request)
        BY <2>0, <4>1, FS_Subset
      <4>. QED  BY <1>1, <2>0, <4>2 DEF HttpInv, Counts, Caps, Gone
    <3>. QED  BY <2>0, <3>1 DEF Typed
  <2>2. pending \in [Principal -> 0..Cardinality(Request)]
    <3>1. ASSUME NEW p \in Principal PROVE pending[p] <= Cardinality(Request)
      <4>1. Openers(p) \in SUBSET Request
        BY DEF Openers
      <4>2. Cardinality(Openers(p)) <= Cardinality(Request)
        BY <2>0, <4>1, FS_Subset
      <4>. QED  BY <1>1, <4>2 DEF HttpInv, Counts
    <3>. QED  BY <2>0, <3>1 DEF Typed
  <2>3. late \in [Principal -> 0..MaxLate]
    <3>1. late \in [Principal -> Nat]
      BY DEF Typed
    <3>2. ASSUME NEW p \in Principal PROVE late[p] <= MaxLate
      <4>1. late[p] <= SumFunction(late)
        BY <3>1, HttpSessionsAssumption, SumBounds
      <4>. QED  BY <1>1, <3>1, <4>1, HeldAndLate, HttpSessionsAssumption DEF Caps
    <3>. QED  BY <3>1, <3>2, HttpSessionsAssumption
  <2>. QED  BY <2>1, <2>2, <2>3 DEF Typed, TypeOK
<1>. QED  BY <1>1, CapsInvariant, PTL
-----------------------------------------------------------------------------
(* Sessions left behind.                                                   *)

Unnamed(s) == \A r \in Request : sid[r] # s

\* While no request names a session, nothing is in flight on it and nothing makes
\* it young again: once it is old, the sweep may close it at any time until it is
\* gone.  (What AbandonedSwept needs beside the fairness of the sweep.)
LeftToSweep ==
    [][\A s \in Sid :
         owner[s] # None /\ Unnamed(s) /\ Unnamed(s)' =>
             \/ owner'[s] = None
             \/ owner'[s] = owner[s] /\ inFlight'[s] = 0 /\ (old[s] => old'[s])]_vars

LEMMA UnnamedIdle ==
    ASSUME HttpInv, NEW s \in Sid, owner[s] # None, Unnamed(s)
    PROVE  inFlight[s] = 0
<1>1. Users(s) = {}
  BY DEF Users, Unnamed
<1>. QED  BY <1>1, FS_EmptySet DEF HttpInv, Counts

\* A step that leaves s to itself, of a request that does not name it.
LEMMA UnnamedUntouched ==
    ASSUME HttpInv, NEW s \in Sid, owner[s] # None, Unnamed(s), Unnamed(s)', [Next]_vars
    PROVE  \/ owner'[s] = None
           \/ owner'[s] = owner[s] /\ inFlight'[s] = inFlight[s] /\ (old[s] => old'[s])
<1>. DEFINE Kept == owner'[s] = owner[s] /\ inFlight'[s] = inFlight[s] /\ (old[s] => old'[s])
<1>. Typed
  BY DEF HttpInv
<1>1. ASSUME NEW z \in Sid, Drop(z) PROVE owner'[s] = None \/ Kept
  BY <1>1 DEF Drop, Typed
<1>2. ASSUME NEW r \in Request, CloseResponse(r) PROVE Kept
  BY <1>2 DEF CloseResponse, Unnamed, Typed
<1>3. ASSUME NEW r \in Request, RequestStep(r) PROVE owner'[s] = None \/ Kept
  <2>1. sid[r] # s /\ sid'[r] # s
    BY DEF Unnamed
  <2>2. CASE HangUp(r) \/ Answered(r) \/ InitFails(r)
    BY <1>2, <2>2 DEF HangUp, Answered, InitFails, mapVars
  <2>3. CASE Use(r)
    BY <2>1, <2>3 DEF Use, Typed
  <2>4. CASE Register(r)
    BY <2>1, <2>4 DEF Register, Typed
  <2>5. CASE Replace(r)
    BY <1>1, <2>5 DEF Replace, Of, Live
  <2>6. CASE Deleted(r)
    <3>1. sid[r] \in Sid
      BY <2>6 DEF Deleted, HttpInv, Shape, Typed
    <3>. QED  BY <1>1, <2>6, <3>1 DEF Deleted
  <2>. QED
    BY <1>3, <2>2, <2>3, <2>4, <2>5, <2>6
    DEF RequestStep, Arrive, Refused, Admit, Reject, Delete, DeleteFails, mapVars
<1>4. ASSUME NEW z \in Sid, GrowOld(z) \/ Sweep(z) PROVE owner'[s] = None \/ Kept
  BY <1>1, <1>4 DEF GrowOld, Sweep, Typed
<1>5. CASE UNCHANGED vars
  BY <1>5 DEF vars
<1>. QED  BY <1>3, <1>4, <1>5 DEF Next

\* An abandoned session stays within reach of the sweep, whatever hang-ups came
\* before: no count is left on it, and no other request stamps it.
THEOREM AbandonedSweepable == Spec => LeftToSweep
<1>1. HttpInv /\ [Next]_vars =>
        [\A s \in Sid :
           owner[s] # None /\ Unnamed(s) /\ Unnamed(s)' =>
               \/ owner'[s] = None
               \/ owner'[s] = owner[s] /\ inFlight'[s] = 0 /\ (old[s] => old'[s])]_vars
  BY UnnamedIdle, UnnamedUntouched
<1>. QED  BY <1>1, SessionsInvariant, PTL DEF Spec, LeftToSweep
=============================================================================
