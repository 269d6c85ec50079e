---------------------------- MODULE McpPoolLeases ----------------------------
(***************************************************************************)
(* The pool implements ChildLeases, for any number of users, turns,        *)
(* children and slots.  A step of the pool may do something to one child,  *)
(* retire a second and close a third, so the argument is about one child   *)
(* at a time: what a step may do to the place, the user, the loans and the *)
(* process of a child d.                                                   *)
(***************************************************************************)
EXTENDS McpPoolProofs

\* The abstract state of one child.
UserOf(c)  == IF InMaps(c) THEN child[c].user ELSE None
LoansOf(c) == IF InMaps(c) THEN Holders(c) ELSE {}
DeadIs(c)  == InMaps(c) /\ child[c].proc = "exited"

LEMMA ViewIs ==
    ASSUME NEW d \in Conn
    PROVE  /\ [c \in Conn |-> Place(c)][d] = Place(d)
           /\ [c \in Conn |-> IF InMaps(c) THEN child[c].user ELSE None][d] = UserOf(d)
           /\ [c \in Conn |-> IF InMaps(c) THEN Holders(c) ELSE {}][d] = LoansOf(d)
           /\ d \in {c \in Conn : InMaps(c) /\ child[c].proc = "exited"} <=> DeadIs(d)
  BY DEF UserOf, LoansOf, DeadIs

LEMMA PlaceIs ==
    ASSUME PoolInv, NEW d \in Conn
    PROVE  /\ InMaps(d) <=> Place(d) # "none"
           /\ Place(d) = "offered" <=> \E u \in User : entries[u] = d
           /\ Place(d) = "retired" <=> d \in retired
  BY DEF PoolInv, Sound, RetiredLive, InMaps, Place

-----------------------------------------------------------------------------
(* The steps of ChildLeases, in terms of the pool.                         *)

LEMMA SameStep ==
    ASSUME NEW d \in Conn, Place(d)' = Place(d), UserOf(d)' = UserOf(d),
           LoansOf(d)' = LoansOf(d), DeadIs(d)' <=> DeadIs(d)
    PROVE  Leases!Step(d)
  BY DEF Leases!Step, Leases!Same, Leases!Becomes, Leases!DeadSame, UserOf, LoansOf, DeadIs

LEMMA OfferStep ==
    ASSUME NEW d \in Conn, Place(d) = "none", Place(d)' = "offered", NEW u \in User,
           UserOf(d)' = u, LoansOf(d)' \in SUBSET {t \in Turn : Owner[t] = u}, ~DeadIs(d)'
    PROVE  Leases!Step(d)
  BY DEF Leases!Step, Leases!Offer, Leases!Becomes, Leases!TurnsOf, UserOf, LoansOf, DeadIs

LEMMA LendStep ==
    ASSUME NEW d \in Conn, Place(d) = "offered", ~DeadIs(d), NEW t \in Turn,
           Owner[t] = UserOf(d), t \notin LoansOf(d),
           Place(d)' = "offered", UserOf(d)' = UserOf(d), LoansOf(d)' = LoansOf(d) \cup {t},
           ~DeadIs(d)'
    PROVE  Leases!Step(d)
  BY DEF Leases!Step, Leases!Lend, Leases!Becomes, Leases!TurnsOf, Leases!DeadSame,
         UserOf, LoansOf, DeadIs

LEMMA RetireStep ==
    ASSUME NEW d \in Conn, Place(d) = "offered", ~DeadIs(d), LoansOf(d) # {},
           Place(d)' = "retired", UserOf(d)' = UserOf(d), LoansOf(d)' = LoansOf(d), ~DeadIs(d)'
    PROVE  Leases!Step(d)
  BY DEF Leases!Step, Leases!Retire, Leases!Becomes, Leases!DeadSame, UserOf, LoansOf, DeadIs

LEMMA GoneIs ==
    ASSUME NEW d \in Conn, ~InMaps(d)'
    PROVE  Leases!Gone(d)
  BY DEF Leases!Gone, Leases!Becomes, InMaps, Place

LEMMA CloseStep ==
    ASSUME NEW d \in Conn, Place(d) = "offered", LoansOf(d) = {} \/ DeadIs(d), ~InMaps(d)'
    PROVE  Leases!Step(d)
  BY GoneIs DEF Leases!Step, Leases!Close, LoansOf, DeadIs

LEMMA ReturnStep ==
    ASSUME NEW d \in Conn, NEW t \in LoansOf(d),
           IF Place(d) = "retired" /\ LoansOf(d) = {t} THEN ~InMaps(d)'
           ELSE /\ Place(d)' = Place(d) /\ UserOf(d)' = UserOf(d)
                /\ LoansOf(d)' = LoansOf(d) \ {t} /\ (DeadIs(d)' <=> DeadIs(d))
    PROVE  Leases!Step(d)
  BY GoneIs DEF Leases!Step, Leases!Return, Leases!Becomes, Leases!DeadSame, UserOf, LoansOf, DeadIs

LEMMA ExitStep ==
    ASSUME NEW d \in Conn, InMaps(d), Place(d)' = Place(d), UserOf(d)' = UserOf(d),
           LoansOf(d)' = LoansOf(d), DeadIs(d)'
    PROVE  Leases!Step(d)
  BY DEF Leases!Step, Leases!Exit, Leases!Becomes, UserOf, LoansOf, DeadIs, InMaps, Place

-----------------------------------------------------------------------------
(* What most steps do to a child, if anything.                             *)

Cache(ent, d) == \E u \in User : ent[u] = d

\* The step is about other children.
Kept(d) ==
    /\ Cache(entries', d) <=> Cache(entries, d)
    /\ d \in retired' <=> d \in retired
    /\ InMaps(d) => /\ child'[d].user = child[d].user /\ child'[d].proc = child[d].proc
                    /\ Holders(d)' = Holders(d)

\* It is taken out of entries, unused or exited.
Closed(d) ==
    /\ Cache(entries, d) /\ (child[d].inUse = 0 \/ child[d].proc = "exited")
    /\ ~Cache(entries', d) /\ d \notin retired'

LEMMA KeptStep ==
    ASSUME NEW d \in Conn, Kept(d)
    PROVE  Leases!Step(d)
<1>1. Place(d)' = Place(d) /\ (InMaps(d)' <=> InMaps(d))
  BY DEF Kept, Cache, Place, InMaps
<1>. QED  BY <1>1, SameStep DEF Kept, UserOf, LoansOf, DeadIs

LEMMA ClosedStep ==
    ASSUME PoolInv, NEW d \in Conn, Closed(d)
    PROVE  Leases!Step(d)
<1>1. Place(d) = "offered" /\ InMaps(d) /\ ~InMaps(d)'
  BY DEF Closed, Cache, Place, InMaps
<1>2. LoansOf(d) = {} \/ DeadIs(d)
  <2>1. CASE child[d].inUse = 0
    BY <1>1, <2>1, IdleUnheld DEF LoansOf, Holders
  <2>2. CASE child[d].proc = "exited"
    BY <1>1, <2>2 DEF DeadIs
  <2>. QED  BY <2>1, <2>2 DEF Closed
<1>. QED  BY <1>1, <1>2, CloseStep

\* spawn leaves a child where it finds it, or evicts it idle.
LEMMA SpawnMoves ==
    ASSUME NEW u \in User, NEW k, NEW ent \in [User -> Conn \cup {None}], NEW ret,
           NEW ch \in [Conn -> Children], NEW pcs, Spawn(u, k, ent, ret, ch, pcs), NEW d \in Conn,
           \A v, w \in User : v # w /\ ent[v] # None => ent[v] # ent[w],
           \A v \in User : ent[v] \notin ret,
           d \in ret \/ Cache(ent, d) => ch[d].proc # "gone"
    PROVE  \/ /\ Cache(entries', d) <=> Cache(ent, d)
              /\ d \in retired' <=> d \in ret
              /\ d \in ret \/ Cache(ent, d) => child'[d] = ch[d]
           \/ /\ Cache(ent, d) /\ ch[d].inUse = 0
              /\ ~Cache(entries', d) /\ d \notin retired'
<1>1. CASE SpawnChild(u, k, ent, ret, ch, pcs)
  BY <1>1 DEF SpawnChild, Fresh, Cache
<1>2. CASE EvictForRoom(u, k, ent, ret, ch, pcs)
  <2>1. PICK v \in User :
          /\ Idle(ent, ch, v)
          /\ entries' = [ent EXCEPT ![v] = None]
          /\ child' = [ch EXCEPT ![ent[v]] = Closing]
    BY <1>2 DEF EvictForRoom
  <2>2. ent[v] \in Conn /\ ch[ent[v]].inUse = 0 /\ ent[v] # None
    BY <2>1 DEF Idle
  <2>3. retired' = ret
    BY <1>2 DEF EvictForRoom
  <2>4. CASE d = ent[v]
    BY <2>1, <2>2, <2>3, <2>4, McpPoolAssumption DEF Cache
  <2>5. CASE d # ent[v]
    BY <2>1, <2>2, <2>3, <2>5, McpPoolAssumption DEF Cache
  <2>. QED  BY <2>4, <2>5
<1>3. CASE RefuseStart(u, ent, ret, ch, pcs)
  BY <1>3 DEF RefuseStart
<1>. QED  BY <1>1, <1>2, <1>3 DEF Spawn

\* The pool's maps, as the lemma above wants them.
LEMMA MapsDistinct ==
    ASSUME PoolInv
    PROVE  /\ entries \in [User -> Conn \cup {None}] /\ retired \in SUBSET Conn
           /\ child \in [Conn -> Children] /\ held \in [Turn -> SUBSET Conn]
           /\ \A v, w \in User : v # w /\ entries[v] # None => entries[v] # entries[w]
           /\ \A v \in User : entries[v] \notin retired
           /\ \A d \in Conn : InMaps(d) => child[d].proc \in Live
<1>1. Shaped(entries, retired, start, child, pc, key, held, closing)
  BY DEF PoolInv, Sound
<1>2. \A v, w \in User : v # w /\ entries[v] # None => entries[v] # entries[w]
  BY DEF PoolInv, Sound, CachedLive
<1>3. \A v \in User : entries[v] \notin retired
  BY DEF PoolInv, Sound, RetiredLive
<1>4. \A d \in Conn : InMaps(d) => child[d].proc \in Live
  BY McpPoolAssumption DEF PoolInv, Sound, CachedLive, RetiredLive, InMaps
<1>. QED  BY <1>1, <1>2, <1>3, <1>4 DEF Shaped

-----------------------------------------------------------------------------
(* entryFor.                                                               *)

\* Nothing is in the maps that the code before entryFor has touched.
Same0(ch) == ch \in [Conn -> Children] /\ \A d \in Conn : InMaps(d) => ch[d] = child[d]

LEMMA SpawnFromMaps ==
    ASSUME PoolInv, NEW u \in User, NEW k, NEW ch, Same0(ch), NEW pcs,
           Spawn(u, k, entries, retired, ch, pcs), held' = held, NEW d \in Conn
    PROVE  Kept(d) \/ Closed(d)
<1>1. d \in retired \/ Cache(entries, d) <=> InMaps(d)
  BY DEF Cache, InMaps
<1>2. Holders(d)' = Holders(d)
  BY DEF Holders
<1>3. \/ /\ Cache(entries', d) <=> Cache(entries, d)
         /\ d \in retired' <=> d \in retired
         /\ d \in retired \/ Cache(entries, d) => child'[d] = ch[d]
      \/ /\ Cache(entries, d) /\ ch[d].inUse = 0
         /\ ~Cache(entries', d) /\ d \notin retired'
  BY SMTT(30), <1>1, MapsDistinct, SpawnMoves DEF Same0, Live
<1>. QED  BY <1>1, <1>2, <1>3 DEF Kept, Closed, Same0

\* The busy child is retired, and spawn may evict another.
LEMMA ReplaceBusyMoves ==
    ASSUME PoolInv, NEW u \in User, NEW t, NEW ch, Same0(ch), NEW wait,
           ReplaceBusy(u, t, ch, wait), NEW d \in Conn
    PROVE  Leases!Step(d)
<1>. DEFINE c   == entries[u]
            ent == [entries EXCEPT ![u] = None]
            ret == retired \cup {c}
<1>1. /\ c # None /\ ~ClosesNow(c) /\ held' = held
      /\ Spawn(u, key[t], ent, ret, ch, [pc EXCEPT ![t] = wait])
  BY DEF ReplaceBusy
<1>2. c \in Conn /\ c \notin retired /\ InMaps(c) /\ Cache(entries, c)
  BY <1>1, MapsDistinct DEF InMaps, Cache
<1>3. /\ ent \in [User -> Conn \cup {None}]
      /\ \A v, w \in User : v # w /\ ent[v] # None => ent[v] # ent[w]
      /\ \A v \in User : ent[v] \notin ret
  BY <1>1, <1>2, MapsDistinct, McpPoolAssumption
<1>4. /\ Cache(ent, d) <=> Cache(entries, d) /\ d # c
      /\ d \in ret <=> d \in retired \/ d = c
      /\ d \in ret \/ Cache(ent, d) <=> InMaps(d)
  BY <1>2, MapsDistinct, McpPoolAssumption DEF Cache, InMaps
<1>5. \/ /\ Cache(entries', d) <=> Cache(ent, d)
         /\ d \in retired' <=> d \in ret
         /\ d \in ret \/ Cache(ent, d) => child'[d] = ch[d]
      \/ /\ Cache(ent, d) /\ ch[d].inUse = 0
         /\ ~Cache(entries', d) /\ d \notin retired'
  <2>1. InMaps(d) => ch[d].proc # "gone"
    BY MapsDistinct DEF Same0, Live
  <2>. HIDE DEF ent, ret
  <2>. QED  BY <1>1, <1>3, <1>4, <2>1, SpawnMoves DEF Same0
<1>6. Holders(d)' = Holders(d)
  BY <1>1 DEF Holders
<1>7. CASE d # c
  BY <1>4, <1>5, <1>6, <1>7, KeptStep, ClosedStep DEF Kept, Closed, Same0
<1>8. CASE d = c
  <2>1. ~Cache(entries', d) /\ d \in retired' /\ child'[d] = child[d]
    BY <1>2, <1>4, <1>5, <1>8 DEF Same0
  <2>2. Place(d) = "offered" /\ InMaps(d) /\ Place(d)' = "retired" /\ InMaps(d)'
    BY <1>2, <1>8, <2>1 DEF Place, InMaps, Cache
  <2>3. Holders(d) # {} /\ child[d].proc # "exited"
    <3>1. child[d].inUse # 0 /\ child[d].proc # "exited"
      BY <1>1, <1>8 DEF ClosesNow
    <3>2. Cardinality(Holders(d)) # 0
      BY <2>2, <3>1 DEF PoolInv, Sound, Counted, InMaps, Holders
    <3>. QED  BY <3>1, <3>2, FS_EmptySet
  <2>. QED  BY <1>6, <2>1, <2>2, <2>3, RetireStep DEF UserOf, LoansOf, DeadIs
<1>. QED  BY <1>7, <1>8

LEMMA EntryForMoves ==
    ASSUME PoolInv, PoolInv', NEW t \in Turn, NEW ch, Same0(ch), NEW wait, NEW after,
           entries[Owner[t]] \notin held[t],
           EntryFor(Owner[t], t, ch, wait, after), NEW d \in Conn
    PROVE  Leases!Step(d)
<1>. DEFINE u == Owner[t]
            c == entries[u]
<1>0. u \in User /\ start \in [User -> Starts]
  BY McpPoolAssumption DEF PoolInv, Sound, Shaped
<1>1. CASE Join(u, t, ch, wait)
  BY <1>1, KeptStep DEF Join, Kept, Cache, Same0, Holders
<1>2. CASE Reuse(u, t, ch, after)
  <2>1. /\ start[u] = NoStart /\ c # None /\ child[c].proc # "exited"
        /\ child' = [ch EXCEPT ![c].inUse = @ + 1]
        /\ held' = [held EXCEPT ![t] = @ \cup {c}]
        /\ entries' = entries /\ retired' = retired
    BY <1>2 DEF Reuse, Usable
  <2>2. c \in Conn /\ c \notin retired /\ InMaps(c) /\ child[c].user = u /\ ch[c] \in Children
    BY <1>0, <2>1, MapsDistinct DEF InMaps, PoolInv, Sound, CachedLive, Same0
  <2>3. child'[c].user = child[c].user /\ child'[c].proc = child[c].proc
        /\ \A b \in Conn \ {c} : child'[b] = ch[b]
    BY <2>1, <2>2 DEF Same0, Children
  <2>4. CASE d # c
    <3>1. Holders(d)' = Holders(d)
      BY <2>1, <2>4, MapsDistinct DEF Holders
    <3>. QED  BY <2>1, <2>3, <2>4, <3>1, KeptStep DEF Kept, Cache, Same0
  <2>5. CASE d = c
    <3>1. Holders(d)' = Holders(d) \cup {t} /\ t \notin Holders(d)
      BY <2>1, <2>5, MapsDistinct DEF Holders
    <3>2. Place(d) = "offered" /\ Place(d)' = "offered" /\ InMaps(d)'
      BY <1>0, <2>1, <2>2, <2>5 DEF Place, InMaps
    <3>. QED  BY <2>1, <2>2, <2>3, <2>5, <3>1, <3>2, LendStep DEF UserOf, LoansOf, DeadIs
  <2>. QED  BY <2>4, <2>5
<1>3. CASE StartFirst(u, t, ch, wait)
  BY <1>0, <1>3, SpawnFromMaps, KeptStep, ClosedStep DEF StartFirst
<1>4. CASE ReplaceClosed(u, t, ch, wait)
  <2>1. /\ c # None /\ ClosesNow(c) /\ held' = held /\ retired' = retired
        /\ entries' = [entries EXCEPT ![u] = None]
        /\ child' = [ch EXCEPT ![c] = Closing]
    BY <1>4 DEF ReplaceClosed, Stale
  <2>2. CASE d = c
    BY <1>0, <2>1, <2>2, MapsDistinct, McpPoolAssumption, ClosedStep DEF Closed, Cache, ClosesNow
  <2>3. CASE d # c
    <3>1. Cache(entries', d) <=> Cache(entries, d)
      BY <1>0, <2>1, <2>3, MapsDistinct, McpPoolAssumption DEF Cache
    <3>2. InMaps(d) => child'[d] = child[d]
      BY <2>1, <2>3 DEF Same0
    <3>. QED  BY <2>1, <3>1, <3>2, KeptStep DEF Kept, Holders
  <2>. QED  BY <2>2, <2>3
<1>5. CASE ReplaceBusy(u, t, ch, wait)
  BY <1>0, <1>5, ReplaceBusyMoves
<1>. QED  BY <1>1, <1>2, <1>3, <1>4, <1>5 DEF EntryFor

-----------------------------------------------------------------------------
(* The actions.                                                            *)

LEMMA ClosedAlone ==
    ASSUME PoolInv, NEW u \in User, entries[u] # None, ClosesNow(entries[u]),
           entries' = [entries EXCEPT ![u] = None], NEW p, child' = [child EXCEPT ![entries[u]] = p],
           UNCHANGED <<retired, held>>, NEW d \in Conn
    PROVE  Leases!Step(d)
<1>1. CASE d = entries[u]
  BY <1>1, MapsDistinct, McpPoolAssumption, ClosedStep DEF Closed, Cache, ClosesNow
<1>2. CASE d # entries[u]
  <2>1. Cache(entries', d) <=> Cache(entries, d)
    BY <1>2, MapsDistinct, McpPoolAssumption DEF Cache
  <2>2. child'[d] = child[d]
    BY <1>2, MapsDistinct
  <2>. QED  BY <2>1, <2>2, KeptStep DEF Kept, Holders
<1>. QED  BY <1>1, <1>2

\* A child that closes while somebody waits for it is in no map any more.
LEMMA AfterClose ==
    ASSUME PoolInv, NEW b \in Conn, child[b].proc = "closing"
    PROVE  Same0([child EXCEPT ![b] = Gone])
  BY MapsDistinct DEF Same0, Live, Gone, NoChild, Children, Procs

LEMMA RefreshMoves ==
    ASSUME PoolInv, PoolInv', NEW t \in Turn, RefreshEntry(t) \/ RefreshEvict(t) \/ RefreshEvicted(t),
           NEW d \in Conn
    PROVE  Leases!Step(d)
<1>. DEFINE u == Owner[t]
<1>0. u \in User /\ Same0(child)
  BY MapsDistinct, McpPoolAssumption DEF Same0
<1>1. CASE RefreshEntry(t)
  <2>1. CASE entries[u] = None /\ EntryFor(u, t, child, "rewaiting", "retried")
    <3>1. entries[u] \notin held[t]
      BY <2>1, MapsDistinct, McpPoolAssumption
    <3>. QED  BY <1>0, <2>1, <3>1, EntryForMoves
  <2>2. CASE ReplaceBusy(u, t, child, "rewaiting")
    BY <1>0, <2>2, ReplaceBusyMoves
  <2>. QED  BY <1>1, <2>1, <2>2 DEF RefreshEntry
<1>2. CASE RefreshEvict(t)
  BY <1>0, <1>2, ClosedAlone DEF RefreshEvict
<1>3. CASE RefreshEvicted(t)
  <2>1. closing[t] \in Conn /\ child[closing[t]].proc = "closing" /\ entries[u] \notin held[t]
    BY <1>3 DEF RefreshEvicted, PoolInv, Sound, ClosingOwn, TurnsOK
  <2>2. Same0([child EXCEPT ![closing[t]] = Gone])
    BY <2>1, AfterClose
  <2>. QED  BY <1>3, <2>1, <2>2, EntryForMoves DEF RefreshEvicted
<1>. QED  BY <1>1, <1>2, <1>3

LEMMA AcquireMoves ==
    ASSUME PoolInv, PoolInv', NEW t \in Turn, AcquireEntry(t), NEW d \in Conn
    PROVE  Leases!Step(d)
<1>1. entries[Owner[t]] \notin held[t]
  BY DEF AcquireEntry, PoolInv, Sound, TurnsOK
<1>2. Same0(child)
  BY MapsDistinct DEF Same0
<1>. QED  BY <1>1, <1>2, EntryForMoves DEF AcquireEntry

\* release: of a retired child, the last turn that has it closes it.
LEMMA EndTurnMoves ==
    ASSUME PoolInv, NEW t \in Turn, EndTurn(t), NEW d \in Conn
    PROVE  Leases!Step(d)
<1>1. /\ entries' = entries /\ retired' = retired \ Drained(t)
      /\ \A c \in Conn : c \notin Drained(t) =>
            child'[c].user = child[c].user /\ child'[c].proc = child[c].proc
      /\ Holders(d)' = Holders(d) \ {t}
  <2>1. entries' = entries /\ retired' = retired \ Drained(t) /\ held' = [held EXCEPT ![t] = {}]
    BY DEF EndTurn
  <2>2. \A c \in Conn : c \notin Drained(t) =>
            child'[c].user = child[c].user /\ child'[c].proc = child[c].proc
    BY MapsDistinct DEF EndTurn, Children
  <2>. QED  BY <2>1, <2>2, MapsDistinct DEF Holders
<1>2. CASE ~InMaps(d)
  BY <1>1, <1>2, KeptStep DEF Kept, Cache, InMaps
<1>3. CASE InMaps(d) /\ d \notin held[t]
  BY <1>1, <1>3, KeptStep DEF Kept, Cache, Holders, Drained
<1>4. CASE InMaps(d) /\ d \in held[t]
  <2>1. t \in Holders(d) /\ LoansOf(d) = Holders(d)
    BY <1>4 DEF LoansOf, Holders
  <2>2. child[d].inUse = Cardinality(Holders(d))
    BY <1>4 DEF PoolInv, Sound, Counted, InMaps, Holders
  <2>3. IsFiniteSet(Holders(d)) /\ Cardinality(Holders(d)) \in Nat
    BY HoldersFinite DEF Holders
  <2>4. Cardinality(Holders(d) \ {t}) = Cardinality(Holders(d)) - 1
    BY <2>1, <2>3, FS_RemoveElement
  <2>5. Holders(d) \ {t} = {} <=> UsesLeft(d) = 0
    <3>1. IsFiniteSet(Holders(d) \ {t})
      BY <2>3, FS_Subset
    <3>2. Holders(d) \ {t} = {} <=> Cardinality(Holders(d) \ {t}) = 0
      BY <3>1, FS_EmptySet
    <3>3. Cardinality(Holders(d)) # 0
      BY <2>1, <2>3, FS_EmptySet
    <3>. QED  BY <2>2, <2>3, <2>4, <3>2, <3>3 DEF UsesLeft
  <2>6. d \in Drained(t) <=> Place(d) = "retired" /\ LoansOf(d) = {t}
    <3>1. d \in retired => entries[Owner[t]] # d
      BY MapsDistinct, McpPoolAssumption
    <3>. QED  BY <1>4, <2>1, <2>5, <3>1, PlaceIs DEF Drained
  <2>7. CASE d \in Drained(t)
    <3>1. ~InMaps(d)'
      BY <1>1, <2>6, <2>7, PlaceIs, MapsDistinct DEF InMaps
    <3>. QED  BY <2>1, <2>6, <2>7, <3>1, ReturnStep
  <2>8. CASE d \notin Drained(t)
    <3>1. Place(d)' = Place(d) /\ InMaps(d)'
      BY <1>1, <1>4, <2>8 DEF Place, InMaps
    <3>. QED  BY <1>1, <1>4, <2>1, <2>6, <2>8, <3>1, ReturnStep DEF UserOf, LoansOf, DeadIs
  <2>. QED  BY <2>7, <2>8
<1>. QED  BY <1>2, <1>3, <1>4

LEMMA ConnectMoves ==
    ASSUME PoolInv, NEW u \in User, ConnectSucceeds(u), NEW d \in Conn
    PROVE  Leases!Step(d)
<1>. DEFINE c == start[u].conn
            w == Waiters(pc, u)
<1>1. /\ c \in Conn /\ c # None /\ entries[u] = None
      /\ child[c].proc = "connecting" /\ child[c].user = u /\ \A t \in Turn : c \notin held[t]
  BY McpPoolAssumption
  DEF PoolInv, Sound, Shaped, Claimed, ConnectingOwn, ConnectSucceeds, NoStart, Starts
<1>2. /\ entries' = [entries EXCEPT ![u] = c] /\ retired' = retired
      /\ held' = [t \in Turn |-> IF t \in w THEN held[t] \cup {c} ELSE held[t]]
      /\ child' = [child EXCEPT ![c].proc = "open", ![c].inUse = Cardinality(w)]
  BY DEF ConnectSucceeds
<1>3. child'[c].proc = "open" /\ child'[c].user = u /\ \A b \in Conn \ {c} : child'[b] = child[b]
  BY <1>1, <1>2, MapsDistinct DEF Children
<1>4. ~InMaps(c)
  BY <1>1, MapsDistinct DEF Live
<1>5. CASE d = c
  <2>1. Place(d) = "none" /\ Place(d)' = "offered" /\ InMaps(d)'
    BY <1>2, <1>4, <1>5, MapsDistinct DEF Place, InMaps
  <2>2. Holders(d)' \in SUBSET {t \in Turn : Owner[t] = u}
    BY <1>1, <1>2, <1>5 DEF Holders, Waiters
  <2>. QED  BY <1>3, <1>5, <2>1, <2>2, OfferStep DEF UserOf, LoansOf, DeadIs
<1>6. CASE d # c
  <2>1. Cache(entries', d) <=> Cache(entries, d)
    BY <1>1, <1>2, <1>6, MapsDistinct, McpPoolAssumption DEF Cache
  <2>2. Holders(d)' = Holders(d)
    BY <1>2, <1>6 DEF Holders
  <2>. QED  BY <1>2, <1>3, <1>6, <2>1, <2>2, KeptStep DEF Kept
<1>. QED  BY <1>5, <1>6

LEMMA StartMoves ==
    ASSUME PoolInv, NEW u \in User, StartStep(u), NEW d \in Conn
    PROVE  Leases!Step(d)
<1>1. CASE StartEvicted(u)
  <2>1. start[u].conn \in Conn /\ child[start[u].conn].proc = "closing"
    BY <1>1 DEF StartEvicted, PoolInv, Sound, Shaped, ClosingOwn, Starts, NoStart
  <2>2. Same0([child EXCEPT ![start[u].conn] = Gone])
    BY <2>1, AfterClose
  <2>. QED  BY <1>1, <2>2, SpawnFromMaps, KeptStep, ClosedStep DEF StartEvicted
<1>2. CASE ConnectSucceeds(u)
  BY <1>2, ConnectMoves
<1>3. ASSUME NEW left, StartFails(u, left) PROVE Leases!Step(d)
  <2>1. start[u].conn \in Conn /\ child[start[u].conn].proc = "connecting"
    BY <1>3 DEF StartFails, PoolInv, Sound, Shaped, ConnectingOwn, Starts, NoStart
  <2>2. InMaps(d) => d # start[u].conn
    BY <2>1, MapsDistinct DEF Live
  <2>3. InMaps(d) => child'[d] = child[d]
    BY <1>3, <2>1, <2>2, MapsDistinct DEF StartFails
  <2>. QED  BY <1>3, <2>3, KeptStep DEF StartFails, Kept, Holders
<1>. QED  BY <1>1, <1>2, <1>3 DEF StartStep, ConnectFails, CatalogFails

LEMMA SweepMoves ==
    ASSUME PoolInv, NEW u \in User, Sweep(u), NEW d \in Conn
    PROVE  Leases!Step(d)
  BY ClosedAlone DEF Sweep, Idle, ClosesNow, turnVars

LEMMA DieMoves ==
    ASSUME PoolInv, NEW b \in Conn, Die(b), NEW d \in Conn
    PROVE  Leases!Step(d)
<1>1. UNCHANGED <<entries, retired, held>> /\ child[b].proc = "open"
  BY DEF Die, turnVars
<1>2. CASE d = b /\ InMaps(b)
  <2>1. child'[d].proc = "exited" /\ child'[d].user = child[d].user
    BY <1>2, MapsDistinct DEF Die, Orphan, Children
  <2>2. Place(d)' = Place(d) /\ InMaps(d)' /\ Holders(d)' = Holders(d)
    BY <1>1, <1>2 DEF Place, InMaps, Holders
  <2>. QED  BY <1>2, <2>1, <2>2, ExitStep DEF UserOf, LoansOf, DeadIs
<1>3. CASE ~(d = b /\ InMaps(b))
  <2>1. InMaps(d) => child'[d] = child[d]
    BY <1>3, MapsDistinct DEF Die
  <2>. QED  BY <1>1, <2>1, KeptStep DEF Kept, Holders
<1>. QED  BY <1>2, <1>3

-----------------------------------------------------------------------------
LEMMA OneOfferedEach ==
    ASSUME PoolInv
    PROVE  \A c, d \in Conn :
              Place(c) = "offered" /\ Place(d) = "offered" /\ UserOf(c) = UserOf(d) => c = d
<1>. SUFFICES ASSUME NEW c \in Conn, NEW d \in Conn, Place(c) = "offered", Place(d) = "offered",
                     UserOf(c) = UserOf(d)
              PROVE  c = d
  OBVIOUS
<1>1. PICK u \in User : entries[u] = c
  BY PlaceIs
<1>2. PICK v \in User : entries[v] = d
  BY PlaceIs
<1>3. child[c].user = u /\ child[d].user = v
  BY <1>1, <1>2, McpPoolAssumption DEF PoolInv, Sound, CachedLive
<1>. QED  BY <1>1, <1>2, <1>3 DEF UserOf, InMaps

LEMMA OneOfferedNow == PoolInv => Leases!OneOffered
  BY OneOfferedEach DEF Leases!OneOffered, UserOf

LEMMA OneOfferedNext == PoolInv' => Leases!OneOffered'
  BY OneOfferedNow, PTL

LEMMA StepLeases ==
    ASSUME PoolInv, PoolInv', [Next]_vars
    PROVE  [Leases!Next]_(Leases!leaseVars)
<1>0. Leases!OneOffered'
  BY OneOfferedNext
<1>1. ASSUME NEW t \in Turn, TurnStep(t), NEW d \in Conn PROVE Leases!Step(d)
  <2>1. CASE ReadToken(t) \/ MintEarly(t) \/ RefreshToken(t) \/ RefreshFails(t)
    BY <2>1, KeptStep
    DEF ReadToken, MintEarly, RefreshToken, RefreshFails, poolVars, Kept, Holders
  <2>. QED  BY <1>1, <2>1, AcquireMoves, RefreshMoves, EndTurnMoves DEF TurnStep
<1>2. CASE Shutdown
  <2>1. \A d \in Conn : ~InMaps(d)'
    BY <1>2, McpPoolAssumption DEF Shutdown, InMaps
  <2>. QED  BY <2>1, GoneIs DEF Leases!Next, Leases!ShutDown
<1>3. CASE UNCHANGED vars
  BY <1>3 DEF vars, Leases!leaseVars, Place, InMaps, Holders
<1>4. ASSUME \A d \in Conn : Leases!Step(d) PROVE Leases!Next
  BY <1>0, <1>4 DEF Leases!Next
<1>. QED  BY <1>1, <1>2, <1>3, <1>4, StartMoves, SweepMoves, DieMoves DEF Next

LEMMA InitLeases == Init => Leases!Init
  BY McpPoolAssumption DEF Init, Leases!Init, Place, InMaps, Holders

\* The pool implements ChildLeases: a running child is lent to nobody but the
\* turns of its user, it stays until no turn has it, and a retired one is lent to
\* nobody new and goes with the last turn that returns it.
THEOREM PoolKeepsLeases == SafeSpec => LeasesKept
<1>1. PoolInv /\ PoolInv' /\ [Next]_vars => [Leases!Next]_(Leases!leaseVars)
  BY StepLeases
<1>. QED  BY <1>1, InitLeases, PoolInvariant, PTL DEF SafeSpec, LeasesKept, Leases!Spec
=============================================================================
