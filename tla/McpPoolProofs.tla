--------------------------- MODULE McpPoolProofs ---------------------------
(***************************************************************************)
(* Safety of the MCP pool, for any number of users, turns, children, slots *)
(* and tokens: type correctness, user isolation, the use counts, and that  *)
(* no live child is closed under a turn.                                   *)
(*                                                                         *)
(* The inductive invariant is a predicate of the whole pool state, given   *)
(* as arguments: entryFor and refreshIdentity change the maps (evict) and  *)
(* then call spawn in the same step, so the invariant has to be stated of  *)
(* the state in between too.                                               *)
(***************************************************************************)
EXTENDS McpPool, FiniteSetTheorems, TLAPS

Live == {"open", "exited"}

Shaped(ent, ret, st, ch, pcs, ky, hd, cl) ==
    /\ ent \in [User -> Conn \cup {None}]
    /\ ret \in SUBSET Conn
    /\ st  \in [User -> Starts]
    /\ ch  \in [Conn -> Children]
    /\ pcs \in [Turn -> PCs]
    /\ ky  \in [Turn -> Tokens \cup {0}]
    /\ hd  \in [Turn -> SUBSET Conn]
    /\ cl  \in [Turn -> Conn \cup {None}]

\* A cached child is live and runs with its user's token.
CachedLive(ent, ch) ==
    \A u \in User : ent[u] # None => ch[ent[u]].proc \in Live /\ ch[ent[u]].user = u

\* A retired child is live, in no other map, and held.
RetiredLive(ent, ret, ch, hd) ==
    \A c \in ret : /\ ch[c].proc \in Live
                   /\ \A u \in User : ent[u] # c
                   /\ \E t \in Turn : c \in hd[t]

Counted(ent, ret, ch, hd) ==
    \A c \in Conn : (c \in ret \/ \E u \in User : ent[u] = c)
                      => ch[c].inUse = Cardinality({t \in Turn : c \in hd[t]})

\* A user with a start in flight has no cached child.
Claimed(ent, st) == \A u \in User : st[u] # NoStart => ent[u] = None

\* A connecting child is its start's own, and nobody's yet.
ConnectingOwn(st, ch, hd) ==
    \A u \in User : st[u].phase = "connecting" =>
        /\ ch[st[u].conn].proc = "connecting"
        /\ ch[st[u].conn].user = u
        /\ \A t \in Turn : st[u].conn \notin hd[t]

\* Every close that is waited for is waited for once.
ClosingOwn(st, ch, pcs, cl) ==
    /\ \A u \in User : st[u].phase = "closing" => ch[st[u].conn].proc = "closing"
    /\ \A t \in Turn : pcs[t] = "evicting" => cl[t] \in Conn /\ ch[cl[t]].proc = "closing"
    /\ \A u, v \in User :
          u # v /\ st[u].phase = "closing" /\ st[v].phase = "closing" => st[u].conn # st[v].conn
    /\ \A s, t \in Turn :
          s # t /\ pcs[s] = "evicting" /\ pcs[t] = "evicting" => cl[s] # cl[t]
    /\ \A u \in User, t \in Turn :
          st[u].phase = "closing" /\ pcs[t] = "evicting" => st[u].conn # cl[t]

\* A held child that still runs is in the maps, and its holder's own.
HeldOwn(ent, ret, ch, hd) ==
    \A t \in Turn : \A c \in hd[t] :
        /\ ch[c].proc # "connecting"
        /\ ch[c].proc = "open" => (c \in ret \/ \E u \in User : ent[u] = c)
        /\ ch[c].proc \in Live => ch[c].user = Owner[t]

TurnsOK(ent, pcs, ky, hd) ==
    \A t \in Turn :
        /\ pcs[t] \in {"idle", "keyed", "awaiting"} => hd[t] = {}
        /\ pcs[t] \in {"keyed", "minted", "evicting"} => ky[t] \in Tokens
        /\ pcs[t] = "evicting" => ent[Owner[t]] \notin hd[t]

Sound(ent, ret, st, ch, pcs, ky, hd, cl) ==
    /\ Shaped(ent, ret, st, ch, pcs, ky, hd, cl)
    /\ CachedLive(ent, ch)
    /\ RetiredLive(ent, ret, ch, hd)
    /\ Counted(ent, ret, ch, hd)
    /\ Claimed(ent, st)
    /\ ConnectingOwn(st, ch, hd)
    /\ ClosingOwn(st, ch, pcs, cl)
    /\ HeldOwn(ent, ret, ch, hd)
    /\ TurnsOK(ent, pcs, ky, hd)

\* The inductive invariant: each conjunct says who may refer to a child in each
\* of its states, which is what the closing and counting arguments need.
PoolInv ==
    /\ Sound(entries, retired, start, child, pc, key, held, closing)
    /\ stored \in [User -> Tokens]
    /\ minted \in [User -> Tokens]
    /\ down \in BOOLEAN

-----------------------------------------------------------------------------
(* Facts about use counts.                                                 *)

\* The holders of a child are finitely many.
LEMMA HoldersFinite ==
    ASSUME NEW hd, NEW c
    PROVE  /\ IsFiniteSet({t \in Turn : c \in hd[t]})
           /\ Cardinality({t \in Turn : c \in hd[t]}) \in Nat
<1>1. {t \in Turn : c \in hd[t]} \in SUBSET Turn
  OBVIOUS
<1>2. IsFiniteSet({t \in Turn : c \in hd[t]})
  BY <1>1, FS_Subset, McpPoolAssumption
<1>. QED  BY <1>2, FS_CardinalityType

-----------------------------------------------------------------------------
(* spawn keeps the invariant from any sound state in which its user's start *)
(* is the only thing left open.                                             *)

\* spawn: started, suspended on an eviction, or refused, the state is sound.
LEMMA SpawnSound ==
    ASSUME NEW u \in User, NEW k \in Tokens,
           NEW ent, NEW ret, NEW ch, NEW pcs, NEW ky, NEW cl,
           start \in [User -> Starts],
           Sound(ent, ret, [start EXCEPT ![u] = NoStart], ch, pcs, ky, held, cl),
           ent[u] = None,
           Spawn(u, k, ent, ret, ch, pcs),
           held' = held, key' = ky, closing' = cl
    PROVE  Sound(entries', retired', start', child', pc', key', held', closing')
<1>. DEFINE st == [start EXCEPT ![u] = NoStart]
<1>. USE McpPoolAssumption
<1>0. Shaped(ent, ret, st, ch, pcs, ky, held, cl)
  BY DEF Sound
<1>1. CASE SpawnChild(u, k, ent, ret, ch, pcs)
  <2>1. PICK c \in Fresh(ch) :
          /\ start' = [start EXCEPT ![u] = [phase |-> "connecting", key |-> k, conn |-> c]]
          /\ child' = [ch EXCEPT ![c] = [proc |-> "connecting", user |-> u, token |-> k, inUse |-> 0]]
    BY <1>1 DEF SpawnChild
  <2>2. entries' = ent /\ retired' = ret /\ pc' = pcs
    BY <1>1 DEF SpawnChild
  <2>3. c \in Conn /\ ch[c].proc = "gone" /\ \A t \in Turn : c \notin held[t]
    BY <2>1 DEF Fresh, Holders
  <2>4. \A v \in User : ent[v] # c
    BY <2>3 DEF Sound, CachedLive, Live
  <2>5. c \notin ret
    BY <2>3 DEF Sound, RetiredLive, Live
  <2>6. Shaped(entries', retired', start', child', pc', key', held', closing')
    BY <1>0, <2>1, <2>2, <2>3 DEF Shaped, Starts, Children, Procs, NoStart
  <2>7. CachedLive(entries', child')
    BY <1>0, <2>1, <2>2, <2>4 DEF Sound, CachedLive, Shaped
  <2>8. RetiredLive(entries', retired', child', held')
    BY <1>0, <2>1, <2>2, <2>5 DEF Sound, RetiredLive, Shaped
  <2>9. Counted(entries', retired', child', held')
    BY <1>0, <2>1, <2>2, <2>4, <2>5 DEF Sound, Counted, Shaped
  <2>10. Claimed(entries', start')
    BY <1>0, <2>1, <2>2 DEF Sound, Claimed, Shaped
  <2>11. ConnectingOwn(start', child', held')
    BY <1>0, <2>1, <2>2, <2>3 DEF Sound, ConnectingOwn, Shaped, NoStart, Starts
  <2>12. ClosingOwn(start', child', pc', closing')
    BY <1>0, <2>1, <2>2, <2>3 DEF Sound, ClosingOwn, Shaped, NoStart, Starts
  <2>13. HeldOwn(entries', retired', child', held')
    BY <1>0, <2>1, <2>2, <2>3 DEF Sound, HeldOwn, Shaped
  <2>14. TurnsOK(entries', pc', key', held')
    BY <2>2 DEF Sound, TurnsOK
  <2>. QED  BY <2>6, <2>7, <2>8, <2>9, <2>10, <2>11, <2>12, <2>13, <2>14 DEF Sound
<1>2. CASE EvictForRoom(u, k, ent, ret, ch, pcs)
  <2>1. PICK v \in User :
          /\ Idle(ent, ch, v)
          /\ entries' = [ent EXCEPT ![v] = None]
          /\ child' = [ch EXCEPT ![ent[v]] = Closing]
          /\ start' = [start EXCEPT ![u] = [phase |-> "closing", key |-> k, conn |-> ent[v]]]
    BY <1>2 DEF EvictForRoom
  <2>2. retired' = ret /\ pc' = pcs
    BY <1>2 DEF EvictForRoom
  <2>. DEFINE c == ent[v]
  <2>3. c \in Conn /\ c # None /\ ch[c].proc \in Live /\ ch[c].inUse = 0
    BY <1>0, <2>1 DEF Idle, Sound, CachedLive, Shaped
  <2>4. \A t \in Turn : c \notin held[t]
    <3>. DEFINE H == {t \in Turn : c \in held[t]}
    <3>1. Cardinality(H) = 0
      BY <2>3 DEF Sound, Counted
    <3>2. IsFiniteSet(H)
      BY HoldersFinite
    <3>3. H = {}
      <4>. HIDE DEF H
      <4>. QED  BY <3>1, <3>2, FS_EmptySet
    <3>. QED  BY <3>3
  <2>5. c \notin ret
    BY <2>3 DEF Sound, RetiredLive
  <2>6. \A w \in User : w # v => ent[w] # c
    BY <2>3 DEF Sound, CachedLive
  <2>7. Shaped(entries', retired', start', child', pc', key', held', closing')
    BY <1>0, <2>1, <2>2, <2>3 DEF Shaped, Starts, Children, Procs, NoStart, Closing, NoChild
  <2>8. CachedLive(entries', child')
    BY <1>0, <2>1, <2>2, <2>6 DEF Sound, CachedLive, Shaped
  <2>9. RetiredLive(entries', retired', child', held')
    BY <1>0, <2>1, <2>2, <2>5 DEF Sound, RetiredLive, Shaped
  <2>10. Counted(entries', retired', child', held')
    BY <1>0, <2>1, <2>2, <2>5, <2>6 DEF Sound, Counted, Shaped
  <2>11. Claimed(entries', start')
    BY <1>0, <2>1, <2>2 DEF Sound, Claimed, Shaped
  <2>12. ConnectingOwn(start', child', held')
    BY <1>0, <2>1, <2>2, <2>3 DEF Sound, ConnectingOwn, Shaped, NoStart, Starts, Live
  <2>13. ClosingOwn(start', child', pc', closing')
    BY <1>0, <2>1, <2>2, <2>3
    DEF Sound, ClosingOwn, Shaped, NoStart, Starts, Live, Closing, NoChild
  <2>14. HeldOwn(entries', retired', child', held')
    BY <1>0, <2>1, <2>2, <2>4 DEF Sound, HeldOwn, Shaped
  <2>15. TurnsOK(entries', pc', key', held')
    BY <1>0, <2>1, <2>2 DEF Sound, TurnsOK, Shaped
  <2>. QED  BY <2>7, <2>8, <2>9, <2>10, <2>11, <2>12, <2>13, <2>14, <2>15 DEF Sound
<1>3. CASE RefuseStart(u, ent, ret, ch, pcs)
  <2>1. /\ start' = st
        /\ entries' = ent /\ retired' = ret /\ child' = ch
        /\ pc' = Settle(pcs, u, "idle")
    BY <1>3 DEF RefuseStart
  <2>2. pc' \in [Turn -> PCs]
    BY <1>0, <2>1 DEF Shaped, Settle, PCs
  <2>3. Shaped(entries', retired', start', child', pc', key', held', closing')
    BY <1>0, <2>1, <2>2 DEF Shaped
  <2>4. ClosingOwn(start', child', pc', closing')
    BY <2>1 DEF Sound, ClosingOwn, Settle, Waiters
  <2>5. TurnsOK(entries', pc', key', held')
    BY <2>1 DEF Sound, TurnsOK, Settle, Waiters
  <2>. QED  BY <2>1, <2>3, <2>4, <2>5 DEF Sound
<1>. QED  BY <1>1, <1>2, <1>3 DEF Spawn


-----------------------------------------------------------------------------
(* entryFor.                                                               *)

\* A busy child that is replaced is retired; what is left is sound for spawn.
LEMMA ReplaceBusySound ==
    ASSUME NEW u \in User, NEW t \in Turn, NEW ch, NEW ky, NEW cl, NEW wait,
           Sound(entries, retired, start, ch, [pc EXCEPT ![t] = wait], ky, held, cl),
           key[t] \in Tokens,
           entries[u] # None => ch[entries[u]] = child[entries[u]],
           ReplaceBusy(u, t, ch, wait),
           key' = ky, closing' = cl
    PROVE  Sound(entries', retired', start', child', pc', key', held', closing')
<1>. DEFINE c   == entries[u]
            ent == [entries EXCEPT ![u] = None]
            ret == retired \cup {c}
            pcs == [pc EXCEPT ![t] = wait]
            st  == [start EXCEPT ![u] = NoStart]
<1>. USE McpPoolAssumption
<1>1. Shaped(entries, retired, start, ch, pcs, ky, held, cl)
  BY DEF Sound
<1>2. /\ start[u] = NoStart /\ c # None /\ ~ClosesNow(c)
      /\ Spawn(u, key[t], ent, ret, ch, pcs)
      /\ held' = held
  BY DEF ReplaceBusy
<1>3. st = start
  BY <1>1, <1>2 DEF Shaped
<1>4. c \in Conn /\ ch[c].proc \in Live /\ ch[c].user = u /\ ch[c].inUse # 0
  BY <1>1, <1>2 DEF Sound, CachedLive, Shaped, ClosesNow
<1>5. \E s \in Turn : c \in held[s]
  <2>1. Cardinality({s \in Turn : c \in held[s]}) # 0
    BY <1>4 DEF Sound, Counted
  <2>. QED  BY <2>1, FS_EmptySet
<1>6. \A w \in User : w # u => entries[w] # c
  BY <1>4 DEF Sound, CachedLive
<1>7. Shaped(ent, ret, st, ch, pcs, ky, held, cl)
  BY <1>1, <1>3, <1>4 DEF Shaped
<1>8. CachedLive(ent, ch)
  BY <1>1 DEF Sound, CachedLive, Shaped
<1>9. RetiredLive(ent, ret, ch, held)
  BY <1>1, <1>2, <1>4, <1>5, <1>6 DEF Sound, RetiredLive, Shaped
<1>10. Counted(ent, ret, ch, held)
  BY <1>1, <1>4 DEF Sound, Counted, Shaped
<1>11. Claimed(ent, st)
  BY <1>1, <1>3 DEF Sound, Claimed, Shaped
<1>12. ConnectingOwn(st, ch, held) /\ ClosingOwn(st, ch, pcs, cl)
  BY <1>3 DEF Sound
<1>13. HeldOwn(ent, ret, ch, held)
  BY <1>1 DEF Sound, HeldOwn, Shaped
<1>14. TurnsOK(ent, pcs, ky, held)
  BY <1>1 DEF Sound, TurnsOK, Shaped
<1>15. Sound(ent, ret, st, ch, pcs, ky, held, cl)
  BY <1>7, <1>8, <1>9, <1>10, <1>11, <1>12, <1>13, <1>14 DEF Sound
<1>16. ent[u] = None /\ start \in [User -> Starts]
  BY <1>1 DEF Shaped
<1>. QED  BY <1>2, <1>15, <1>16, SpawnSound

\* entryFor: joined, reused, started or replaced, the state is sound for turn t.
LEMMA EntryForSound ==
    ASSUME NEW t \in Turn, NEW ch, NEW ky, NEW cl,
           NEW wait \in {"awaiting", "rewaiting"}, NEW after \in {"serving", "retried"},
           Sound(entries, retired, start, ch, [pc EXCEPT ![t] = wait], ky, held, cl),
           pc \in [Turn -> PCs],
           key[t] \in Tokens,
           entries[Owner[t]] # None => ch[entries[Owner[t]]] = child[entries[Owner[t]]],
           entries[Owner[t]] \notin held[t],
           EntryFor(Owner[t], t, ch, wait, after),
           key' = ky, closing' = cl
    PROVE  Sound(entries', retired', start', child', pc', key', held', closing')
<1>. DEFINE u   == Owner[t]
            c   == entries[u]
            pcs == [pc EXCEPT ![t] = wait]
<1>. USE McpPoolAssumption
<1>0. u \in User
  OBVIOUS
<1>1. Shaped(entries, retired, start, ch, pcs, ky, held, cl)
  BY DEF Sound
<1>2. CASE Join(u, t, ch, wait)
  BY <1>2 DEF Join
<1>3. CASE Reuse(u, t, ch, after)
  <2>1. /\ start' = start /\ entries' = entries /\ retired' = retired
        /\ c # None /\ child[c].proc # "exited"
        /\ child' = [ch EXCEPT ![c].inUse = @ + 1]
        /\ held' = [held EXCEPT ![t] = @ \cup {c}]
        /\ pc' = [pc EXCEPT ![t] = after]
    BY <1>3 DEF Reuse, Usable
  <2>2. c \in Conn /\ ch[c].proc \in Live /\ ch[c].user = u /\ ch[c].inUse \in Nat
    BY <1>0, <1>1, <2>1 DEF Sound, CachedLive, Shaped, Children
  <2>3. c \notin retired
    BY <1>0 DEF Sound, RetiredLive
  <2>4. child' \in [Conn -> Children]
    BY <1>1, <2>1, <2>2 DEF Shaped, Children
  <2>5. /\ child'[c].proc = ch[c].proc /\ child'[c].user = ch[c].user
        /\ child'[c].inUse = ch[c].inUse + 1
        /\ \A d \in Conn : d # c => child'[d] = ch[d]
    BY <1>1, <2>1, <2>2 DEF Shaped, Children
  <2>6. Shaped(entries', retired', start', child', pc', key', held', closing')
    BY <1>1, <2>1, <2>2, <2>4 DEF Shaped, PCs
  <2>7. CachedLive(entries', child')
    BY <1>1, <2>1, <2>5 DEF Sound, CachedLive, Shaped
  <2>8. RetiredLive(entries', retired', child', held')
    BY <1>1, <2>1, <2>3, <2>5 DEF Sound, RetiredLive, Shaped
  <2>9. Counted(entries', retired', child', held')
    <3>. DEFINE H(d) == {s \in Turn : d \in held[s]}
                HH(d) == {s \in Turn : d \in held'[s]}
    <3>1. HH(c) = H(c) \cup {t}
      BY <1>1, <2>1 DEF Shaped
    <3>2. t \notin H(c)
      OBVIOUS
    <3>3. Cardinality(HH(c)) = Cardinality(H(c)) + 1
      <4>1. IsFiniteSet(H(c))
        BY HoldersFinite
      <4>. HIDE DEF H, HH
      <4>. QED  BY <3>1, <3>2, <4>1, FS_AddElement
    <3>4. \A d \in Conn : d # c => HH(d) = H(d)
      BY <1>1, <2>1 DEF Shaped
    <3>5. ch[c].inUse = Cardinality(H(c))
      BY <1>0, <2>2 DEF Sound, Counted
    <3>6. \A d \in Conn : (d \in retired \/ \E w \in User : entries[w] = d)
                             => child'[d].inUse = Cardinality(HH(d))
      BY <2>5, <3>3, <3>4, <3>5 DEF Sound, Counted
    <3>. QED  BY <2>1, <3>6 DEF Counted
  <2>10. Claimed(entries', start')
    BY <2>1 DEF Sound, Claimed
  <2>11. ConnectingOwn(start', child', held')
    BY <1>1, <2>1, <2>2, <2>5 DEF Sound, ConnectingOwn, Shaped, Live, Starts, NoStart
  <2>12. ClosingOwn(start', child', pc', closing')
    BY <1>1, <2>1, <2>2, <2>5 DEF Sound, ClosingOwn, Shaped, Live, Starts, NoStart
  <2>13. HeldOwn(entries', retired', child', held')
    <3>. SUFFICES ASSUME NEW s \in Turn, NEW d \in held'[s]
                  PROVE  /\ child'[d].proc # "connecting"
                         /\ child'[d].proc = "open" => (d \in retired \/ \E w \in User : entries[w] = d)
                         /\ child'[d].proc \in Live => child'[d].user = Owner[s]
      BY <2>1 DEF HeldOwn
    <3>1. CASE d = c
      <4>1. s = t \/ d \in held[s]
        BY <1>1, <2>1 DEF Shaped
      <4>. QED  BY <1>0, <2>2, <2>5, <3>1, <4>1 DEF Sound, HeldOwn, Live
    <3>2. CASE d # c
      <4>1. d \in held[s] /\ d \in Conn
        BY <1>1, <2>1, <3>2 DEF Shaped
      <4>. QED  BY <2>5, <3>2, <4>1 DEF Sound, HeldOwn
    <3>. QED  BY <3>1, <3>2
  <2>14. TurnsOK(entries', pc', key', held')
    BY <1>1, <2>1 DEF Sound, TurnsOK, Shaped
  <2>. QED  BY <2>6, <2>7, <2>8, <2>9, <2>10, <2>11, <2>12, <2>13, <2>14 DEF Sound
<1>4. CASE StartFirst(u, t, ch, wait)
  <2>1. /\ start[u] = NoStart /\ entries[u] = None /\ held' = held
        /\ Spawn(u, key[t], entries, retired, ch, pcs)
    BY <1>4 DEF StartFirst
  <2>2. start = [start EXCEPT ![u] = NoStart] /\ start \in [User -> Starts]
    BY <1>1, <2>1 DEF Shaped
  <2>. QED  BY <1>0, <2>1, <2>2, SpawnSound
<1>5. CASE ReplaceClosed(u, t, ch, wait)
  <2>1. /\ start[u] = NoStart /\ c # None /\ ClosesNow(c)
        /\ entries' = [entries EXCEPT ![u] = None]
        /\ child' = [ch EXCEPT ![c] = Closing]
        /\ start' = [start EXCEPT ![u] = [phase |-> "closing", key |-> key[t], conn |-> c]]
        /\ pc' = pcs /\ retired' = retired /\ held' = held
    BY <1>5 DEF ReplaceClosed, Stale, Usable
  <2>2. c \in Conn /\ ch[c].proc \in Live /\ (ch[c].proc = "exited" \/ ch[c].inUse = 0)
    BY <1>0, <1>1, <2>1 DEF Sound, CachedLive, Shaped, ClosesNow
  <2>3. c \notin retired /\ \A w \in User : w # u => entries[w] # c
    BY <1>0, <2>2 DEF Sound, RetiredLive, CachedLive
  <2>4. Shaped(entries', retired', start', child', pc', key', held', closing')
    BY <1>0, <1>1, <2>1, <2>2 DEF Shaped, Starts, Children, Procs, NoStart, Closing, NoChild
  <2>5. CachedLive(entries', child')
    BY <1>0, <1>1, <2>1, <2>3 DEF Sound, CachedLive, Shaped
  <2>6. RetiredLive(entries', retired', child', held')
    BY <1>0, <1>1, <2>1, <2>3 DEF Sound, RetiredLive, Shaped
  <2>7. Counted(entries', retired', child', held')
    BY <1>0, <1>1, <2>1, <2>3 DEF Sound, Counted, Shaped
  <2>8. Claimed(entries', start')
    BY <1>0, <1>1, <2>1 DEF Sound, Claimed, Shaped
  <2>9. ConnectingOwn(start', child', held')
    BY <1>0, <1>1, <2>1, <2>2 DEF Sound, ConnectingOwn, Shaped, NoStart, Starts, Live
  <2>10. ClosingOwn(start', child', pc', closing')
    BY <1>0, <1>1, <2>1, <2>2
    DEF Sound, ClosingOwn, Shaped, NoStart, Starts, Live, Closing, NoChild
  <2>11. HeldOwn(entries', retired', child', held')
    BY <1>0, <1>1, <2>1 DEF Sound, HeldOwn, Shaped, Closing, NoChild, Live
  <2>12. TurnsOK(entries', pc', key', held')
    BY <1>0, <1>1, <2>1 DEF Sound, TurnsOK, Shaped
  <2>. QED  BY <2>4, <2>5, <2>6, <2>7, <2>8, <2>9, <2>10, <2>11, <2>12 DEF Sound
<1>6. CASE ReplaceBusy(u, t, ch, wait)
  BY <1>0, <1>6, ReplaceBusySound
<1>. QED  BY <1>2, <1>3, <1>4, <1>5, <1>6 DEF EntryFor


-----------------------------------------------------------------------------
(* Each action keeps the invariant.                                        *)

\* The empty pool satisfies the invariant.
LEMMA InitSound == Init => PoolInv
<1>. SUFFICES ASSUME Init PROVE PoolInv
  OBVIOUS
<1>. USE McpPoolAssumption
<1>1. 1 \in Tokens
  BY DEF Tokens
<1>2. Shaped(entries, retired, start, child, pc, key, held, closing)
  BY DEF Init, Shaped, Starts, Children, Procs, Gone, NoChild, PCs
<1>3. /\ \A u \in User : entries[u] = None /\ start[u] = NoStart
      /\ \A t \in Turn : held[t] = {} /\ pc[t] = "idle"
      /\ retired = {}
  BY DEF Init
<1>4. /\ CachedLive(entries, child) /\ RetiredLive(entries, retired, child, held)
      /\ Counted(entries, retired, child, held)
  BY <1>3 DEF CachedLive, RetiredLive, Counted
<1>5. /\ Claimed(entries, start) /\ ConnectingOwn(start, child, held)
      /\ ClosingOwn(start, child, pc, closing)
  BY <1>3 DEF Claimed, ConnectingOwn, ClosingOwn, NoStart
<1>6. HeldOwn(entries, retired, child, held) /\ TurnsOK(entries, pc, key, held)
  BY <1>3 DEF HeldOwn, TurnsOK
<1>. QED  BY <1>1, <1>2, <1>4, <1>5, <1>6 DEF PoolInv, Sound, Init

\* A step that changes nothing but tokens and the place of one turn.
LEMMA TokenStepSound ==
    ASSUME PoolInv, NEW t \in Turn,
           ReadToken(t) \/ MintEarly(t) \/ RefreshToken(t) \/ RefreshFails(t)
    PROVE  PoolInv'
<1>. USE McpPoolAssumption
<1>1. /\ UNCHANGED <<poolVars, held, closing, down>>
      /\ pc[t] \in {"idle", "serving"}
      /\ \/ pc' = [pc EXCEPT ![t] = "keyed"] /\ pc[t] = "idle"
         \/ pc' = [pc EXCEPT ![t] = "minted"]
         \/ pc' = [pc EXCEPT ![t] = "retried"]
  BY DEF ReadToken, MintEarly, RefreshToken, RefreshFails
<1>2. /\ stored' \in [User -> Tokens] /\ minted' \in [User -> Tokens]
      /\ \E k \in Tokens : key' = [key EXCEPT ![t] = k] \/ (key' = key /\ pc'[t] = "retried")
  <2>1. CASE ReadToken(t)
    BY <2>1 DEF ReadToken, PoolInv, idpVars
  <2>2. CASE RefreshFails(t)
    BY <2>2 DEF RefreshFails, PoolInv, Sound, Shaped, idpVars, Tokens
  <2>3. CASE Mint(t)
    <3>1. minted[Owner[t]] + 1 \in Tokens
      BY <2>3 DEF Mint, PoolInv, Tokens
    <3>. QED  BY <2>3, <3>1 DEF Mint, PoolInv
  <2>. QED  BY <2>1, <2>2, <2>3 DEF MintEarly, RefreshToken
<1>3. Shaped(entries', retired', start', child', pc', key', held', closing')
  BY <1>1, <1>2 DEF PoolInv, Sound, Shaped, PCs, poolVars
<1>4. ClosingOwn(start', child', pc', closing')
  BY <1>1 DEF PoolInv, Sound, Shaped, ClosingOwn, poolVars
<1>5. TurnsOK(entries', pc', key', held')
  BY <1>1, <1>2 DEF PoolInv, Sound, Shaped, TurnsOK, poolVars
<1>. QED  BY <1>1, <1>2, <1>3, <1>4, <1>5 DEF PoolInv, Sound, poolVars

\* Parking turn t on a start keeps the invariant: it holds nothing it may not.
LEMMA ParkSound ==
    ASSUME NEW t \in Turn, NEW wait \in {"awaiting", "rewaiting"}, NEW ky,
           Sound(entries, retired, start, child, pc, key, held, closing),
           ky = key \/ ky = [key EXCEPT ![t] = 0],
           wait = "awaiting" => held[t] = {}
    PROVE  Sound(entries, retired, start, child, [pc EXCEPT ![t] = wait], ky, held, closing)
<1>. DEFINE pcs == [pc EXCEPT ![t] = wait]
<1>1. Shaped(entries, retired, start, child, pcs, ky, held, closing)
  BY DEF Sound, Shaped, PCs
<1>2. ClosingOwn(start, child, pcs, closing)
  BY DEF Sound, Shaped, ClosingOwn
<1>3. TurnsOK(entries, pcs, ky, held)
  BY DEF Sound, Shaped, TurnsOK
<1>. QED  BY <1>1, <1>2, <1>3 DEF Sound

\* acquire, once its token is resolved.
LEMMA AcquireEntrySound ==
    ASSUME PoolInv, NEW t \in Turn, AcquireEntry(t)
    PROVE  PoolInv'
<1>. USE McpPoolAssumption
<1>. DEFINE ky == [key EXCEPT ![t] = 0]
<1>1. /\ pc[t] = "keyed" /\ key' = ky /\ closing' = closing
      /\ EntryFor(Owner[t], t, child, "awaiting", "serving")
      /\ stored' = stored /\ minted' = minted /\ down' = down
  BY DEF AcquireEntry, idpVars
<1>2. Sound(entries, retired, start, child, pc, key, held, closing)
  BY DEF PoolInv
<1>3. held[t] = {} /\ key[t] \in Tokens /\ pc \in [Turn -> PCs]
  BY <1>1, <1>2 DEF Sound, TurnsOK, Shaped
<1>4. Sound(entries, retired, start, child, [pc EXCEPT ![t] = "awaiting"], ky, held, closing)
  BY <1>2, <1>3, ParkSound
<1>5. Sound(entries', retired', start', child', pc', key', held', closing')
  BY <1>1, <1>3, <1>4, EntryForSound
<1>. QED  BY <1>1, <1>5 DEF PoolInv

\* refreshIdentity, when its eviction awaits nothing.
LEMMA RefreshEntrySound ==
    ASSUME PoolInv, NEW t \in Turn, RefreshEntry(t)
    PROVE  PoolInv'
<1>. USE McpPoolAssumption
<1>1. /\ pc[t] = "minted" /\ key' = key /\ closing' = closing
      /\ stored' = stored /\ minted' = minted /\ down' = down
      /\ \/ /\ entries[Owner[t]] = None
            /\ EntryFor(Owner[t], t, child, "rewaiting", "retried")
         \/ ReplaceBusy(Owner[t], t, child, "rewaiting")
  BY DEF RefreshEntry, idpVars
<1>2. Sound(entries, retired, start, child, pc, key, held, closing)
  BY DEF PoolInv
<1>3. key[t] \in Tokens /\ pc \in [Turn -> PCs] /\ Owner[t] \in User /\ None \notin held[t]
  BY <1>1, <1>2 DEF Sound, TurnsOK, Shaped
<1>4. Sound(entries, retired, start, child, [pc EXCEPT ![t] = "rewaiting"], key, held, closing)
  BY <1>2, ParkSound
<1>5. Sound(entries', retired', start', child', pc', key', held', closing')
  <2>1. CASE entries[Owner[t]] = None /\ EntryFor(Owner[t], t, child, "rewaiting", "retried")
    BY <1>1, <1>3, <1>4, <2>1, EntryForSound
  <2>2. CASE ReplaceBusy(Owner[t], t, child, "rewaiting")
    BY <1>1, <1>3, <1>4, <2>2, ReplaceBusySound
  <2>. QED  BY <1>1, <2>1, <2>2
<1>. QED  BY <1>1, <1>5 DEF PoolInv

\* refreshIdentity, up to the close of the evicted child.
LEMMA RefreshEvictSound ==
    ASSUME PoolInv, NEW t \in Turn, RefreshEvict(t)
    PROVE  PoolInv'
<1>. DEFINE u == Owner[t]
            c == entries[u]
<1>. USE McpPoolAssumption
<1>0. u \in User /\ Shaped(entries, retired, start, child, pc, key, held, closing)
  BY DEF PoolInv, Sound
<1>1. /\ pc[t] = "minted" /\ c # None /\ ClosesNow(c)
      /\ entries' = [entries EXCEPT ![u] = None]
      /\ child' = [child EXCEPT ![c] = Closing]
      /\ closing' = [closing EXCEPT ![t] = c]
      /\ pc' = [pc EXCEPT ![t] = "evicting"]
      /\ retired' = retired /\ start' = start /\ key' = key /\ held' = held
      /\ stored' = stored /\ minted' = minted /\ down' = down
  BY DEF RefreshEvict, idpVars
<1>2. c \in Conn /\ child[c].proc \in Live
  BY <1>0, <1>1 DEF PoolInv, Sound, CachedLive, Shaped
<1>3. c \notin retired /\ \A w \in User : w # u => entries[w] # c
  BY <1>0, <1>2 DEF PoolInv, Sound, RetiredLive, CachedLive
<1>4. Shaped(entries', retired', start', child', pc', key', held', closing')
  BY <1>0, <1>1, <1>2 DEF Shaped, PCs, Children, Procs, Closing, NoChild
<1>5. CachedLive(entries', child') /\ RetiredLive(entries', retired', child', held')
  BY <1>0, <1>1, <1>3 DEF PoolInv, Sound, CachedLive, RetiredLive, Shaped
<1>6. Counted(entries', retired', child', held')
  BY <1>0, <1>1, <1>3 DEF PoolInv, Sound, Counted, Shaped
<1>7. Claimed(entries', start') /\ ConnectingOwn(start', child', held')
  BY <1>0, <1>1, <1>2
  DEF PoolInv, Sound, Claimed, ConnectingOwn, Shaped, NoStart, Starts, Live
<1>8. ClosingOwn(start', child', pc', closing')
  BY <1>0, <1>1, <1>2
  DEF PoolInv, Sound, ClosingOwn, Shaped, NoStart, Starts, Live, Closing, NoChild
<1>9. HeldOwn(entries', retired', child', held')
  BY <1>0, <1>1 DEF PoolInv, Sound, HeldOwn, Shaped, Closing, NoChild, Live
<1>10. TurnsOK(entries', pc', key', held')
  BY <1>0, <1>1 DEF PoolInv, Sound, TurnsOK, Shaped
<1>. QED  BY <1>1, <1>4, <1>5, <1>6, <1>7, <1>8, <1>9, <1>10 DEF PoolInv, Sound

\* A child whose close was awaited is gone; nothing else referred to it.
LEMMA EvictedSound ==
    ASSUME NEW c \in Conn, NEW st, NEW pcs, NEW cl, NEW ky,
           Sound(entries, retired, start, child, pc, key, held, closing),
           child[c].proc = "closing",
           Shaped(entries, retired, st, child, pcs, ky, held, cl),
           Claimed(entries, st), ConnectingOwn(st, child, held),
           ClosingOwn(st, child, pcs, cl), TurnsOK(entries, pcs, ky, held),
           \A u \in User : st[u].phase = "closing" => st[u].conn # c,
           \A t \in Turn : pcs[t] = "evicting" => cl[t] # c
    PROVE  Sound(entries, retired, st, [child EXCEPT ![c] = Gone], pcs, ky, held, cl)
<1>. DEFINE ch == [child EXCEPT ![c] = Gone]
<1>. USE McpPoolAssumption
<1>1. (\A u \in User : entries[u] # c) /\ c \notin retired
  BY DEF Sound, CachedLive, RetiredLive, Live
<1>2. Shaped(entries, retired, st, ch, pcs, ky, held, cl)
  BY DEF Shaped, Children, Procs, Gone, NoChild
<1>3. CachedLive(entries, ch) /\ RetiredLive(entries, retired, ch, held)
  BY <1>1 DEF Sound, CachedLive, RetiredLive, Shaped
<1>4. Counted(entries, retired, ch, held)
  BY <1>1 DEF Sound, Counted, Shaped
<1>5. ConnectingOwn(st, ch, held) /\ ClosingOwn(st, ch, pcs, cl)
  BY DEF Shaped, ConnectingOwn, ClosingOwn, Starts, NoStart
<1>6. HeldOwn(entries, retired, ch, held)
  BY DEF Sound, HeldOwn, Shaped, Gone, NoChild, Live
<1>. QED  BY <1>2, <1>3, <1>4, <1>5, <1>6 DEF Sound

\* refreshIdentity, from the close of the evicted child on.
LEMMA RefreshEvictedSound ==
    ASSUME PoolInv, NEW t \in Turn, RefreshEvicted(t)
    PROVE  PoolInv'
<1>. USE McpPoolAssumption
<1>. DEFINE u   == Owner[t]
            c   == closing[t]
            ch  == [child EXCEPT ![c] = Gone]
            cl  == [closing EXCEPT ![t] = None]
            pcs == [pc EXCEPT ![t] = "rewaiting"]
<1>1. /\ pc[t] = "evicting" /\ closing' = cl /\ key' = key
      /\ EntryFor(u, t, ch, "rewaiting", "retried")
      /\ stored' = stored /\ minted' = minted /\ down' = down
  BY DEF RefreshEvicted, idpVars
<1>2. /\ Sound(entries, retired, start, child, pc, key, held, closing)
      /\ Shaped(entries, retired, start, child, pc, key, held, closing)
      /\ u \in User
  BY DEF PoolInv, Sound
<1>3. /\ key[t] \in Tokens /\ pc \in [Turn -> PCs]
      /\ entries[u] \notin held[t]
  BY <1>1, <1>2 DEF Sound, TurnsOK, Shaped
<1>4. c \in Conn /\ child[c].proc = "closing"
  BY <1>1, <1>2 DEF Sound, ClosingOwn
<1>5. Shaped(entries, retired, start, child, pcs, key, held, cl)
  BY <1>2 DEF Shaped, PCs
<1>6. ClosingOwn(start, child, pcs, cl)
  BY <1>2 DEF Sound, ClosingOwn, Shaped
<1>7. TurnsOK(entries, pcs, key, held)
  BY <1>2 DEF Sound, TurnsOK, Shaped
<1>8. /\ \A v \in User : start[v].phase = "closing" => start[v].conn # c
      /\ \A s \in Turn : pcs[s] = "evicting" => cl[s] # c
  BY <1>1, <1>2 DEF Sound, ClosingOwn, Shaped
<1>9. Sound(entries, retired, start, ch, pcs, key, held, cl)
  <2>1. Claimed(entries, start) /\ ConnectingOwn(start, child, held)
    BY <1>2 DEF Sound
  <2>. QED  BY <1>2, <1>4, <1>5, <1>6, <1>7, <1>8, <2>1, EvictedSound
<1>10. entries[u] # None => ch[entries[u]] = child[entries[u]]
  BY <1>2, <1>4 DEF Sound, CachedLive, Live, Shaped
<1>11. Sound(entries', retired', start', child', pc', key', held', closing')
  BY <1>1, <1>3, <1>9, <1>10, EntryForSound
<1>. QED  BY <1>1, <1>11 DEF PoolInv

\* A start whose eviction has ended goes on to spawn, or evicts again.
LEMMA StartEvictedSound ==
    ASSUME PoolInv, NEW u \in User, StartEvicted(u)
    PROVE  PoolInv'
<1>. USE McpPoolAssumption
<1>. DEFINE c  == start[u].conn
            ch == [child EXCEPT ![c] = Gone]
            st == [start EXCEPT ![u] = NoStart]
<1>1. /\ start[u].phase = "closing"
      /\ Spawn(u, start[u].key, entries, retired, ch, pc)
      /\ key' = key /\ held' = held /\ closing' = closing
      /\ stored' = stored /\ minted' = minted /\ down' = down
  BY DEF StartEvicted, idpVars
<1>2. /\ Sound(entries, retired, start, child, pc, key, held, closing)
      /\ Shaped(entries, retired, start, child, pc, key, held, closing)
  BY DEF PoolInv, Sound
<1>3. start \in [User -> Starts] /\ start[u] # NoStart /\ start[u].key \in Tokens /\ c \in Conn
  BY <1>1, <1>2 DEF Shaped, Starts, NoStart
<1>4. entries[u] = None /\ child[c].proc = "closing"
  BY <1>1, <1>2, <1>3 DEF Sound, Claimed, ClosingOwn
<1>5. Shaped(entries, retired, st, child, pc, key, held, closing)
  BY <1>2 DEF Shaped, Starts
<1>6. Claimed(entries, st) /\ ConnectingOwn(st, child, held)
  BY <1>2 DEF Sound, Claimed, ConnectingOwn, Shaped, NoStart
<1>7. ClosingOwn(st, child, pc, closing) /\ TurnsOK(entries, pc, key, held)
  BY <1>2 DEF Sound, ClosingOwn, Shaped, NoStart
<1>8. /\ \A v \in User : st[v].phase = "closing" => st[v].conn # c
      /\ \A t \in Turn : pc[t] = "evicting" => closing[t] # c
  BY <1>1, <1>2 DEF Sound, ClosingOwn, Shaped, NoStart
<1>9. Sound(entries, retired, st, ch, pc, key, held, closing)
  BY <1>2, <1>3, <1>4, <1>5, <1>6, <1>7, <1>8, EvictedSound
<1>10. Sound(entries', retired', start', child', pc', key', held', closing')
  BY <1>1, <1>3, <1>4, <1>9, SpawnSound
<1>. QED  BY <1>1, <1>10 DEF PoolInv

\* Settling the start of u frees its waiters, none of which is mid-eviction.
LEMMA SettleSound ==
    ASSUME NEW u \in User, NEW acquired \in {"idle", "serving"},
           pc \in [Turn -> PCs], pc' = Settle(pc, u, acquired)
    PROVE  /\ pc' \in [Turn -> PCs]
           /\ \A t \in Turn : pc'[t] = "evicting" <=> pc[t] = "evicting"
           /\ \A t \in Turn : pc'[t] = "keyed" <=> pc[t] = "keyed"
           /\ \A t \in Turn : pc'[t] = "minted" <=> pc[t] = "minted"
           /\ \A t \in Turn : pc'[t] = "awaiting" => t \notin Waiters(pc, u) /\ pc[t] = "awaiting"
           /\ \A t \in Turn : pc'[t] = "idle" => pc[t] = "idle" \/ (pc[t] = "awaiting" /\ acquired = "idle")
<1>1. \A t \in Turn : pc'[t] = IF t \notin Waiters(pc, u) THEN pc[t]
                                ELSE IF pc[t] = "awaiting" THEN acquired ELSE "retried"
  BY DEF Settle
<1>2. \A t \in Turn : t \in Waiters(pc, u) <=> Owner[t] = u /\ pc[t] \in {"awaiting", "rewaiting"}
  BY DEF Waiters
<1>3. pc' \in [Turn -> PCs]
  BY <1>1 DEF Settle, PCs
<1>. QED  BY <1>1, <1>2, <1>3, McpPoolAssumption

\* connect() returns: each waiting turn counts one use of the new child.
LEMMA ConnectSucceedsSound ==
    ASSUME PoolInv, NEW u \in User, ConnectSucceeds(u)
    PROVE  PoolInv'
<1>. USE McpPoolAssumption
<1>. DEFINE c == start[u].conn
            w == Waiters(pc, u)
<1>0. Shaped(entries, retired, start, child, pc, key, held, closing)
  BY DEF PoolInv, Sound
<1>1. /\ start[u].phase = "connecting"
      /\ entries' = [entries EXCEPT ![u] = c]
      /\ start' = [start EXCEPT ![u] = NoStart]
      /\ child' = [child EXCEPT ![c].proc = "open", ![c].inUse = Cardinality(w)]
      /\ held'  = [t \in Turn |-> IF t \in w THEN held[t] \cup {c} ELSE held[t]]
      /\ pc'    = Settle(pc, u, "serving")
      /\ retired' = retired /\ key' = key /\ closing' = closing
      /\ stored' = stored /\ minted' = minted /\ down' = down
  BY DEF ConnectSucceeds, idpVars
<1>2. c \in Conn /\ start[u] # NoStart
  BY <1>0, <1>1 DEF Shaped, Starts, NoStart
<1>3. /\ child[c].proc = "connecting" /\ child[c].user = u
      /\ \A t \in Turn : c \notin held[t]
  BY <1>1 DEF PoolInv, Sound, ConnectingOwn
<1>4. c \notin retired /\ (\A v \in User : entries[v] # c) /\ entries[u] = None
  BY <1>2, <1>3 DEF PoolInv, Sound, RetiredLive, CachedLive, Claimed, Live
<1>5. IsFiniteSet(w) /\ Cardinality(w) \in Nat
  <2>1. w \in SUBSET Turn
    BY DEF Waiters
  <2>. QED  BY <2>1, FS_Subset, FS_CardinalityType
<1>6. /\ child' \in [Conn -> Children]
      /\ child'[c].proc = "open" /\ child'[c].user = u /\ child'[c].inUse = Cardinality(w)
      /\ \A d \in Conn : d # c => child'[d] = child[d]
  BY SMTT(30), <1>0, <1>1, <1>2, <1>3, <1>5 DEF Shaped, Children, Procs
<1>7. /\ pc' \in [Turn -> PCs]
      /\ \A t \in Turn : pc'[t] = "evicting" <=> pc[t] = "evicting"
      /\ \A t \in Turn : pc'[t] = "keyed" <=> pc[t] = "keyed"
      /\ \A t \in Turn : pc'[t] = "minted" <=> pc[t] = "minted"
      /\ \A t \in Turn : pc'[t] = "awaiting" => t \notin w /\ pc[t] = "awaiting"
      /\ \A t \in Turn : pc'[t] = "idle" => pc[t] = "idle"
  BY <1>0, <1>1, SettleSound DEF Shaped
<1>8. \A t \in Turn : t \in w => Owner[t] = u /\ pc[t] \in {"awaiting", "rewaiting"}
  BY DEF Waiters
<1>. HIDE DEF w
<1>9. Shaped(entries', retired', start', child', pc', key', held', closing')
  BY <1>0, <1>1, <1>2, <1>6, <1>7 DEF Shaped, Starts
<1>10. CachedLive(entries', child')
  BY <1>0, <1>1, <1>4, <1>6 DEF PoolInv, Sound, CachedLive, Shaped, Live
<1>11. RetiredLive(entries', retired', child', held')
  BY <1>0, <1>1, <1>4, <1>6 DEF PoolInv, Sound, RetiredLive, Shaped
<1>12. Counted(entries', retired', child', held')
  <2>. DEFINE H(d) == {t \in Turn : d \in held[t]}
              HH(d) == {t \in Turn : d \in held'[t]}
  <2>1. HH(c) = w
    BY <1>1, <1>3 DEF Waiters, w
  <2>2. \A d \in Conn : d # c => HH(d) = H(d)
    BY <1>1
  <2>3. \A d \in Conn : d # c /\ (d \in retired \/ \E v \in User : entries'[v] = d)
                           => (d \in retired \/ \E v \in User : entries[v] = d)
    BY <1>0, <1>1 DEF Shaped
  <2>4. \A d \in Conn : (d \in retired \/ \E v \in User : entries'[v] = d)
                           => child'[d].inUse = Cardinality(HH(d))
    BY <1>6, <2>1, <2>2, <2>3 DEF PoolInv, Sound, Counted
  <2>. QED  BY <1>1, <2>4 DEF Counted
<1>13. Claimed(entries', start')
  BY <1>0, <1>1 DEF PoolInv, Sound, Claimed, Shaped
<1>14. ConnectingOwn(start', child', held')
  BY <1>0, <1>1, <1>3, <1>6 DEF PoolInv, Sound, ConnectingOwn, Shaped, Starts, NoStart
<1>15. ClosingOwn(start', child', pc', closing')
  <2>1. /\ \A v \in User : start'[v].phase = "closing" => start'[v] = start[v]
        /\ \A v \in User : start[v].phase = "closing" => start[v].conn \in Conn
    BY <1>0, <1>1 DEF Shaped, Starts, NoStart
  <2>2. \A d \in Conn : child[d].proc = "closing" => child'[d].proc = "closing"
    BY <1>3, <1>6
  <2>3. ClosingOwn(start, child, pc, closing) /\ closing' = closing
    BY <1>1 DEF PoolInv, Sound
  <2>. QED  BY <1>7, <2>1, <2>2, <2>3 DEF ClosingOwn
<1>16. HeldOwn(entries', retired', child', held')
  <2>. SUFFICES ASSUME NEW t \in Turn, NEW d \in held'[t]
                PROVE  /\ child'[d].proc # "connecting"
                       /\ child'[d].proc = "open" => (d \in retired' \/ \E v \in User : entries'[v] = d)
                       /\ child'[d].proc \in Live => child'[d].user = Owner[t]
    BY DEF HeldOwn
  <2>1. CASE d = c
    <3>1. t \in w
      BY <1>1, <1>3, <2>1
    <3>2. entries'[u] = c
      BY <1>0, <1>1 DEF Shaped
    <3>. QED  BY <1>6, <1>8, <2>1, <3>1, <3>2
  <2>2. CASE d # c
    <3>1. d \in held[t] /\ d \in Conn
      BY <1>0, <1>1, <2>2 DEF Shaped
    <3>2. \A v \in User : entries[v] = d => entries'[v] = d
      BY <1>0, <1>1, <1>4, <3>1 DEF Shaped
    <3>. QED  BY <1>1, <1>6, <2>2, <3>1, <3>2 DEF PoolInv, Sound, HeldOwn
  <2>. QED  BY <2>1, <2>2
<1>17. TurnsOK(entries', pc', key', held')
  <2>1. \A t \in Turn : pc'[t] \in {"idle", "keyed", "awaiting"} => held'[t] = {}
    BY <1>0, <1>1, <1>7, <1>8 DEF PoolInv, Sound, TurnsOK, Shaped
  <2>2. \A t \in Turn : pc'[t] \in {"keyed", "minted", "evicting"} => key'[t] \in Tokens
    BY <1>1, <1>7 DEF PoolInv, Sound, TurnsOK
  <2>3. \A t \in Turn : pc'[t] = "evicting" => entries'[Owner[t]] \notin held'[t]
    BY <1>0, <1>1, <1>3, <1>7, <1>8 DEF PoolInv, Sound, TurnsOK, Shaped
  <2>. QED  BY <2>1, <2>2, <2>3 DEF TurnsOK
<1>. QED  BY <1>1, <1>9, <1>10, <1>11, <1>12, <1>13, <1>14, <1>15, <1>16, <1>17 DEF PoolInv, Sound

\* connect() rejects, whether or not its child still runs.
LEMMA StartFailsSound ==
    ASSUME PoolInv, NEW u \in User, NEW left \in {Gone, NoChild("open")}, StartFails(u, left)
    PROVE  PoolInv'
<1>. USE McpPoolAssumption
<1>. DEFINE c == start[u].conn
<1>0. Shaped(entries, retired, start, child, pc, key, held, closing)
  BY DEF PoolInv, Sound
<1>1. /\ start[u].phase = "connecting"
      /\ start' = [start EXCEPT ![u] = NoStart]
      /\ child' = [child EXCEPT ![c] = left]
      /\ pc' = Settle(pc, u, "idle")
      /\ entries' = entries /\ retired' = retired /\ key' = key /\ held' = held
      /\ closing' = closing /\ stored' = stored /\ minted' = minted /\ down' = down
  BY DEF StartFails, idpVars
<1>2. c \in Conn /\ start[u] # NoStart
  BY <1>0, <1>1 DEF Shaped, Starts, NoStart
<1>3. /\ child[c].proc = "connecting" /\ child[c].user = u
      /\ \A t \in Turn : c \notin held[t]
  BY <1>1 DEF PoolInv, Sound, ConnectingOwn
<1>4. c \notin retired /\ (\A v \in User : entries[v] # c)
  BY <1>2, <1>3 DEF PoolInv, Sound, RetiredLive, CachedLive, Live
<1>5. left \in Children
  BY DEF Children, Procs, Gone, NoChild
<1>6. /\ child' \in [Conn -> Children]
      /\ \A d \in Conn : d # c => child'[d] = child[d]
  BY <1>0, <1>1, <1>2, <1>5 DEF Shaped
<1>7. /\ pc' \in [Turn -> PCs]
      /\ \A t \in Turn : pc'[t] = "evicting" <=> pc[t] = "evicting"
      /\ \A t \in Turn : pc'[t] = "keyed" <=> pc[t] = "keyed"
      /\ \A t \in Turn : pc'[t] = "minted" <=> pc[t] = "minted"
      /\ \A t \in Turn : pc'[t] = "awaiting" => pc[t] = "awaiting"
      /\ \A t \in Turn : pc'[t] = "idle" => pc[t] \in {"idle", "awaiting"}
  BY <1>0, <1>1, SettleSound DEF Shaped
<1>8. Shaped(entries', retired', start', child', pc', key', held', closing')
  BY <1>0, <1>1, <1>6, <1>7 DEF Shaped, Starts
<1>9. CachedLive(entries', child') /\ RetiredLive(entries', retired', child', held')
  BY <1>0, <1>1, <1>4, <1>6 DEF PoolInv, Sound, CachedLive, RetiredLive, Shaped
<1>10. Counted(entries', retired', child', held')
  BY <1>1, <1>4, <1>6 DEF PoolInv, Sound, Counted
<1>11. Claimed(entries', start')
  BY <1>0, <1>1 DEF PoolInv, Sound, Claimed, Shaped
<1>12. ConnectingOwn(start', child', held')
  BY <1>0, <1>1, <1>3, <1>6 DEF PoolInv, Sound, ConnectingOwn, Shaped, Starts, NoStart
<1>13. ClosingOwn(start', child', pc', closing')
  BY <1>0, <1>1, <1>3, <1>6, <1>7 DEF PoolInv, Sound, ClosingOwn, Shaped, Starts, NoStart
<1>14. HeldOwn(entries', retired', child', held')
  BY <1>0, <1>1, <1>3, <1>6 DEF PoolInv, Sound, HeldOwn, Shaped
<1>15. TurnsOK(entries', pc', key', held')
  BY <1>1, <1>7 DEF PoolInv, Sound, TurnsOK
<1>. QED  BY <1>1, <1>8, <1>9, <1>10, <1>11, <1>12, <1>13, <1>14, <1>15 DEF PoolInv, Sound

\* release: a child stays in the maps as long as another turn holds it, and its
\* count goes down with its holders.
LEMMA EndTurnSound ==
    ASSUME PoolInv, NEW t \in Turn, EndTurn(t)
    PROVE  PoolInv'
<1>. USE McpPoolAssumption
<1>. DEFINE mine == {c \in held[t] : entries[Owner[t]] = c \/ c \in retired}
            done == {c \in held[t] \cap retired : entries[Owner[t]] # c /\ UsesLeft(c) = 0}
            H(d)  == {s \in Turn : d \in held[s]}
            HH(d) == {s \in Turn : d \in held'[s]}
            In(d) == d \in retired \/ \E u \in User : entries[u] = d
<1>0. Shaped(entries, retired, start, child, pc, key, held, closing)
  BY DEF PoolInv, Sound
<1>1. /\ pc[t] \in {"serving", "retried"}
      /\ child' = [c \in Conn |->
                     IF c \in done THEN Gone
                     ELSE IF c \in mine THEN [child[c] EXCEPT !.inUse = UsesLeft(c)]
                     ELSE child[c]]
      /\ retired' = retired \ done
      /\ held' = [held EXCEPT ![t] = {}]
      /\ key' = [key EXCEPT ![t] = 0]
      /\ pc' = [pc EXCEPT ![t] = "idle"]
      /\ entries' = entries /\ start' = start /\ closing' = closing
      /\ stored' = stored /\ minted' = minted /\ down' = down
  BY DEF EndTurn, Drained, idpVars
<1>2. \A d \in Conn : In(d) => child[d].inUse = Cardinality(H(d)) /\ child[d].proc \in Live
  <2>. SUFFICES ASSUME NEW d \in Conn, In(d)
                PROVE  child[d].inUse = Cardinality(H(d)) /\ child[d].proc \in Live
    OBVIOUS
  <2>1. child[d].inUse = Cardinality(H(d))
    BY DEF PoolInv, Sound, Counted
  <2>2. CASE d \in retired
    BY <2>1, <2>2 DEF PoolInv, Sound, RetiredLive
  <2>3. CASE \E u \in User : entries[u] = d
    BY <2>1, <2>3 DEF PoolInv, Sound, CachedLive
  <2>. QED  BY <2>2, <2>3
<1>3. \A d \in held[t] : In(d) => d \in mine
  BY <1>0 DEF PoolInv, Sound, Shaped, CachedLive, HeldOwn
<1>4. \A d \in mine : In(d) /\ d \in Conn /\ d \in held[t]
  BY <1>0 DEF Shaped
<1>5. \A d \in Conn : /\ d \in held[t] => HH(d) = H(d) \ {t}
                      /\ d \notin held[t] => HH(d) = H(d)
  BY <1>0, <1>1 DEF Shaped
<1>6. \A d \in Conn : IsFiniteSet(H(d)) /\ Cardinality(H(d)) \in Nat
  BY HoldersFinite
<1>7. \A d \in held[t] : Cardinality(HH(d)) = Cardinality(H(d)) - 1 /\ Cardinality(H(d)) > 0
  <2>. SUFFICES ASSUME NEW d \in held[t]
                PROVE  Cardinality(HH(d)) = Cardinality(H(d)) - 1 /\ Cardinality(H(d)) > 0
    OBVIOUS
  <2>1. d \in Conn /\ t \in H(d)
    BY <1>0 DEF Shaped
  <2>2. IsFiniteSet(H(d)) /\ Cardinality(H(d)) \in Nat /\ HH(d) = H(d) \ {t}
    BY <1>5, <1>6, <2>1
  <2>. HIDE DEF H, HH
  <2>3. Cardinality(HH(d)) = Cardinality(H(d)) - 1
    BY <2>1, <2>2, FS_RemoveElement
  <2>4. Cardinality(H(d)) # 0
    BY <2>1, <2>2, FS_EmptySet
  <2>. QED  BY <2>2, <2>3, <2>4
\* What happens to each child.
<1>a. \A d \in mine : UsesLeft(d) = child[d].inUse - 1 /\ UsesLeft(d) \in Nat
  <2>. SUFFICES ASSUME NEW d \in mine
                PROVE  UsesLeft(d) = child[d].inUse - 1 /\ UsesLeft(d) \in Nat
    OBVIOUS
  <2>1. child[d].inUse = Cardinality(H(d)) /\ Cardinality(H(d)) \in Nat /\ Cardinality(H(d)) > 0
    BY <1>2, <1>4, <1>6, <1>7
  <2>. QED  BY <2>1 DEF UsesLeft
<1>8. \A d \in Conn : /\ d \in done => child'[d] = Gone
                      /\ d \in mine \ done => child'[d] = [child[d] EXCEPT !.inUse = UsesLeft(d)]
                      /\ d \notin mine /\ d \notin done => child'[d] = child[d]
  BY <1>1, Zenon
<1>b. \A d \in done : d \in mine /\ d \in Conn /\ d \in retired /\ d \in held[t] /\ UsesLeft(d) = 0
  BY <1>0 DEF Shaped
<1>9. \A d \in done : d \in Conn /\ d \in retired /\ HH(d) = {}
  <2>. SUFFICES ASSUME NEW d \in done PROVE d \in Conn /\ d \in retired /\ HH(d) = {}
    OBVIOUS
  <2>1. d \in Conn /\ d \in retired /\ d \in held[t] /\ child[d].inUse = 1
    <3>1. d \in mine /\ UsesLeft(d) = 0 /\ d \in Conn /\ d \in retired /\ d \in held[t]
      BY <1>b
    <3>2. child[d].inUse = Cardinality(H(d)) /\ Cardinality(H(d)) \in Nat
      BY <1>2, <1>6, <3>1
    <3>3. UsesLeft(d) = child[d].inUse - 1
      BY <1>a, <3>1
    <3>. QED  BY <3>1, <3>2, <3>3
  <2>2. child[d].inUse = Cardinality(H(d))
    BY <1>2, <2>1
  <2>3. Cardinality(HH(d)) = 0
    BY <1>7, <2>1, <2>2
  <2>4. IsFiniteSet(HH(d))
    BY HoldersFinite
  <2>. QED  BY <2>1, <2>3, <2>4, FS_EmptySet
<1>10. \A d \in Conn : /\ child'[d] \in Children
                       /\ \/ child'[d].proc = child[d].proc /\ child'[d].user = child[d].user
                          \/ d \in done /\ child'[d] = Gone
  <2>. SUFFICES ASSUME NEW d \in Conn
                PROVE  /\ child'[d] \in Children
                       /\ \/ child'[d].proc = child[d].proc /\ child'[d].user = child[d].user
                          \/ d \in done /\ child'[d] = Gone
    OBVIOUS
  <2>1. child[d] \in Children
    BY <1>0 DEF Shaped
  <2>2. CASE d \in done
    <3>1. child'[d] = Gone
      BY <1>8, <2>2, Zenon
    <3>. QED  BY <2>2, <3>1 DEF Children, Gone, NoChild, Procs
  <2>3. CASE d \in mine \ done
    <3>1. child'[d] = [child[d] EXCEPT !.inUse = UsesLeft(d)]
      BY <1>8, <2>3, Zenon
    <3>2. UsesLeft(d) \in Nat
      BY <1>a, <2>3
    <3>. DEFINE r == child[d]
                n == UsesLeft(d)
    <3>3. child'[d] = [r EXCEPT !.inUse = n] /\ r \in Children /\ n \in Nat
      BY <2>1, <3>1, <3>2, Zenon
    <3>4. child'[d] \in Children /\ child'[d].proc = r.proc /\ child'[d].user = r.user
      <4>. HIDE DEF r, n
      <4>. QED  BY <3>3 DEF Children
    <3>. QED  BY <3>4
  <2>4. CASE d \notin mine /\ d \notin done
    <3>1. child'[d] = child[d]
      BY <1>8, <2>4, Zenon
    <3>. QED  BY <2>1, <3>1
  <2>. QED  BY <2>2, <2>3, <2>4
<1>11. child' \in [Conn -> Children]
  BY <1>1, <1>10
<1>12. Shaped(entries', retired', start', child', pc', key', held', closing')
  BY <1>0, <1>1, <1>11 DEF Shaped, PCs
<1>13. \A u \in User : entries[u] # None => entries[u] \in Conn /\ entries[u] \notin done
  BY <1>0, <1>9 DEF PoolInv, Sound, RetiredLive, Shaped
<1>. HIDE DEF mine, done
<1>14. CachedLive(entries', child')
  BY <1>1, <1>10, <1>13 DEF PoolInv, Sound, CachedLive
<1>15. RetiredLive(entries', retired', child', held')
  <2>. SUFFICES ASSUME NEW c \in retired, c \notin done
                PROVE  /\ child'[c].proc \in Live
                       /\ \A u \in User : entries[u] # c
                       /\ \E s \in Turn : c \in held'[s]
    BY <1>1 DEF RetiredLive
  <2>1. c \in Conn /\ In(c)
    BY <1>0 DEF Shaped
  <2>2. child'[c].proc \in Live /\ \A u \in User : entries[u] # c
    BY <1>2, <1>10, <2>1 DEF PoolInv, Sound, RetiredLive
  <2>3. CASE c \in held[t]
    <3>1. UsesLeft(c) # 0 /\ c \in mine
      BY <1>3, <2>1, <2>2, <2>3 DEF done
    <3>a. child[c].inUse = Cardinality(H(c)) /\ UsesLeft(c) = child[c].inUse - 1
      BY <1>2, <1>a, <2>1, <3>1
    <3>2. Cardinality(HH(c)) # 0
      <4>. HIDE DEF H, HH
      <4>. QED  BY <1>7, <2>3, <3>1, <3>a
    <3>. QED  BY <2>2, <3>2, FS_EmptySet
  <2>4. CASE c \notin held[t]
    BY <1>0, <1>1, <2>2, <2>4 DEF PoolInv, Sound, RetiredLive, Shaped
  <2>. QED  BY <2>3, <2>4
<1>16. Counted(entries', retired', child', held')
  <2>. SUFFICES ASSUME NEW d \in Conn, In(d), d \notin done
                PROVE  child'[d].inUse = Cardinality(HH(d))
    BY <1>1, <1>13 DEF Counted
  <2>1. CASE d \in held[t]
    <3>1. d \in mine /\ child[d] \in Children
      BY <1>0, <1>3, <2>1 DEF Shaped
    <3>2. child'[d].inUse = child[d].inUse - 1
      <4>1. child'[d] = [child[d] EXCEPT !.inUse = UsesLeft(d)]
        BY <1>8, <3>1, Zenon
      <4>2. UsesLeft(d) = child[d].inUse - 1
        BY <1>a, <3>1
      <4>. DEFINE r == child[d]
                  n == UsesLeft(d)
      <4>3. child'[d] = [r EXCEPT !.inUse = n] /\ r \in Children
        BY <3>1, <4>1, Zenon
      <4>4. child'[d].inUse = n
        <5>. HIDE DEF r, n
        <5>. QED  BY <4>3 DEF Children
      <4>. QED  BY <4>2, <4>4
    <3>3. child[d].inUse = Cardinality(H(d)) /\ Cardinality(HH(d)) = Cardinality(H(d)) - 1
      BY <1>2, <1>7, <2>1
    <3>. QED  BY <3>2, <3>3
  <2>2. CASE d \notin held[t]
    BY <1>2, <1>4, <1>5, <1>8, <2>2
  <2>. QED  BY <2>1, <2>2
<1>17. Claimed(entries', start')
  BY <1>1 DEF PoolInv, Sound, Claimed
<1>18. ConnectingOwn(start', child', held')
  <2>. SUFFICES ASSUME NEW u \in User, start[u].phase = "connecting"
                PROVE  /\ child'[start[u].conn].proc = "connecting"
                       /\ child'[start[u].conn].user = u
                       /\ \A s \in Turn : start[u].conn \notin held'[s]
    BY <1>1 DEF ConnectingOwn
  <2>1. start[u].conn \in Conn
    BY <1>0 DEF Shaped, Starts, NoStart
  <2>2. start[u].conn \notin done
    BY <1>9, <2>1 DEF PoolInv, Sound, ConnectingOwn, RetiredLive, Live
  <2>. QED  BY <1>0, <1>1, <1>10, <2>1, <2>2 DEF PoolInv, Sound, ConnectingOwn, Shaped
<1>19. ClosingOwn(start', child', pc', closing')
  <2>1. \A d \in Conn : child[d].proc = "closing" => child'[d].proc = "closing"
    BY <1>9, <1>10 DEF PoolInv, Sound, RetiredLive, Live
  <2>2. \A u \in User : start[u].phase = "closing" => start[u].conn \in Conn
    BY <1>0 DEF Shaped, Starts, NoStart
  <2>3. \A s \in Turn : pc'[s] = "evicting" => pc[s] = "evicting"
    BY <1>0, <1>1 DEF Shaped
  <2>. QED  BY <1>1, <2>1, <2>2, <2>3 DEF PoolInv, Sound, ClosingOwn
<1>20. HeldOwn(entries', retired', child', held')
  <2>. SUFFICES ASSUME NEW s \in Turn, NEW d \in held'[s]
                PROVE  /\ child'[d].proc # "connecting"
                       /\ child'[d].proc = "open" => (d \in retired' \/ \E u \in User : entries[u] = d)
                       /\ child'[d].proc \in Live => child'[d].user = Owner[s]
    BY <1>1 DEF HeldOwn
  <2>1. d \in held[s] /\ d \in Conn /\ s \in HH(d)
    BY <1>0, <1>1 DEF Shaped
  <2>2. d \notin done
    BY <1>9, <2>1
  <2>. QED  BY <1>1, <1>10, <2>1, <2>2 DEF PoolInv, Sound, HeldOwn
<1>21. TurnsOK(entries', pc', key', held')
  BY <1>0, <1>1 DEF PoolInv, Sound, TurnsOK, Shaped
<1>. QED  BY <1>1, <1>12, <1>14, <1>15, <1>16, <1>17, <1>18, <1>19, <1>20, <1>21 DEF PoolInv, Sound
-----------------------------------------------------------------------------
(* The sweeper, the processes, and shutdown.                               *)

\* sweep evicts a child that, by the counts, no turn holds.
LEMMA SweepSound ==
    ASSUME PoolInv, NEW u \in User, Sweep(u)
    PROVE  PoolInv'
<1>. USE McpPoolAssumption
<1>. DEFINE c == entries[u]
<1>0. Shaped(entries, retired, start, child, pc, key, held, closing)
  BY DEF PoolInv, Sound
<1>1. /\ c # None /\ child[c].inUse = 0
      /\ entries' = [entries EXCEPT ![u] = None]
      /\ child' = [child EXCEPT ![c] = Gone]
      /\ retired' = retired /\ start' = start /\ pc' = pc /\ key' = key /\ held' = held
      /\ closing' = closing /\ stored' = stored /\ minted' = minted /\ down' = down
  BY DEF Sweep, Idle, turnVars, idpVars
<1>2. c \in Conn /\ child[c].proc \in Live
  BY <1>0, <1>1 DEF PoolInv, Sound, CachedLive, Shaped
<1>3. \A t \in Turn : c \notin held[t]
  <2>1. Cardinality({t \in Turn : c \in held[t]}) = 0
    BY <1>1, <1>2 DEF PoolInv, Sound, Counted
  <2>2. IsFiniteSet({t \in Turn : c \in held[t]})
    BY HoldersFinite
  <2>3. {t \in Turn : c \in held[t]} = {}
    BY <2>1, <2>2, FS_EmptySet
  <2>. QED  BY <2>3
<1>4. c \notin retired /\ \A w \in User : w # u => entries[w] # c
  BY <1>2 DEF PoolInv, Sound, RetiredLive, CachedLive
<1>5. child' \in [Conn -> Children] /\ \A d \in Conn : d # c => child'[d] = child[d]
  BY <1>0, <1>1 DEF Shaped, Children, Procs, Gone, NoChild
<1>6. Shaped(entries', retired', start', child', pc', key', held', closing')
  BY <1>0, <1>1, <1>5 DEF Shaped
<1>7. CachedLive(entries', child')
  BY <1>0, <1>1, <1>4, <1>5 DEF PoolInv, Sound, CachedLive, Shaped
<1>8. RetiredLive(entries', retired', child', held')
  BY <1>0, <1>1, <1>4, <1>5 DEF PoolInv, Sound, RetiredLive, Shaped
<1>9. Counted(entries', retired', child', held')
  BY <1>0, <1>1, <1>4, <1>5 DEF PoolInv, Sound, Counted, Shaped
<1>10. Claimed(entries', start')
  BY <1>0, <1>1 DEF PoolInv, Sound, Claimed, Shaped
<1>11. ConnectingOwn(start', child', held')
  BY <1>0, <1>1, <1>2, <1>5 DEF PoolInv, Sound, ConnectingOwn, Shaped, NoStart, Starts, Live
<1>12. ClosingOwn(start', child', pc', closing')
  BY <1>0, <1>1, <1>2, <1>5 DEF PoolInv, Sound, ClosingOwn, Shaped, NoStart, Starts, Live
<1>13. HeldOwn(entries', retired', child', held')
  BY <1>0, <1>1, <1>3, <1>5 DEF PoolInv, Sound, HeldOwn, Shaped
<1>14. TurnsOK(entries', pc', key', held')
  BY <1>0, <1>1 DEF PoolInv, Sound, TurnsOK, Shaped
<1>. QED  BY <1>1, <1>6, <1>7, <1>8, <1>9, <1>10, <1>11, <1>12, <1>13, <1>14 DEF PoolInv, Sound

\* A child that exits keeps its PoolEntry; one that is in no map has none.
LEMMA DieSound ==
    ASSUME PoolInv, NEW c \in Conn, Die(c)
    PROVE  PoolInv'
<1>. USE McpPoolAssumption
<1>0. Shaped(entries, retired, start, child, pc, key, held, closing)
  BY DEF PoolInv, Sound
<1>1. /\ child[c].proc = "open"
      /\ child' = [child EXCEPT ![c] = IF Orphan(c) THEN Gone ELSE [@ EXCEPT !.proc = "exited"]]
      /\ entries' = entries /\ retired' = retired /\ start' = start /\ pc' = pc /\ key' = key
      /\ held' = held /\ closing' = closing /\ stored' = stored /\ minted' = minted /\ down' = down
  BY DEF Die, turnVars, idpVars
<1>2. /\ child' \in [Conn -> Children] /\ \A d \in Conn : d # c => child'[d] = child[d]
      /\ ~InMaps(c) => child'[c] = Gone
      /\ InMaps(c) => /\ child'[c].proc = "exited" /\ child'[c].user = child[c].user
                      /\ child'[c].inUse = child[c].inUse
  BY <1>0, <1>1 DEF Shaped, Children, Procs, Gone, NoChild, Orphan
<1>3. Shaped(entries', retired', start', child', pc', key', held', closing')
  BY <1>0, <1>1, <1>2 DEF Shaped
<1>4. CachedLive(entries', child')
  BY <1>0, <1>1, <1>2 DEF PoolInv, Sound, CachedLive, Shaped, InMaps, Live
<1>5. RetiredLive(entries', retired', child', held')
  BY <1>0, <1>1, <1>2 DEF PoolInv, Sound, RetiredLive, Shaped, InMaps, Live
<1>6. Counted(entries', retired', child', held')
  BY <1>0, <1>1, <1>2 DEF PoolInv, Sound, Counted, Shaped, InMaps
<1>7. ConnectingOwn(start', child', held')
  BY <1>0, <1>1, <1>2 DEF PoolInv, Sound, ConnectingOwn, Shaped, NoStart, Starts
<1>8. ClosingOwn(start', child', pc', closing')
  BY <1>0, <1>1, <1>2 DEF PoolInv, Sound, ClosingOwn, Shaped, NoStart, Starts
<1>9. HeldOwn(entries', retired', child', held')
  <2>. SUFFICES ASSUME NEW t \in Turn, NEW d \in held[t]
                PROVE  /\ child'[d].proc # "connecting"
                       /\ child'[d].proc = "open" => (d \in retired \/ \E u \in User : entries[u] = d)
                       /\ child'[d].proc \in Live => child'[d].user = Owner[t]
    BY <1>1 DEF HeldOwn
  <2>1. CASE d = c
    BY <1>1, <1>2, <2>1 DEF PoolInv, Sound, HeldOwn, Live, Gone, NoChild
  <2>2. CASE d # c
    BY <1>0, <1>1, <1>2, <2>2 DEF PoolInv, Sound, HeldOwn, Shaped
  <2>. QED  BY <2>1, <2>2
<1>. QED  BY <1>1, <1>3, <1>4, <1>5, <1>6, <1>7, <1>8, <1>9 DEF PoolInv, Sound, Claimed, TurnsOK

\* shutdown closes every child in a map, and empties the maps.
LEMMA ShutdownSound ==
    ASSUME PoolInv, Shutdown
    PROVE  PoolInv'
<1>. USE McpPoolAssumption
<1>0. Shaped(entries, retired, start, child, pc, key, held, closing)
  BY DEF PoolInv, Sound
<1>1. /\ child' = [c \in Conn |-> IF InMaps(c) THEN Gone ELSE child[c]]
      /\ entries' = [u \in User |-> None] /\ retired' = {}
      /\ start' = start /\ pc' = pc /\ key' = key /\ held' = held
      /\ closing' = closing /\ stored' = stored /\ minted' = minted /\ down' \in BOOLEAN
  BY DEF Shutdown, turnVars, idpVars
<1>2. \A u \in User : entries'[u] = None
  BY <1>1
<1>3. \A c \in Conn : InMaps(c) => child[c].proc \in Live
  BY <1>0 DEF PoolInv, Sound, CachedLive, RetiredLive, InMaps, Shaped
<1>4. /\ child' \in [Conn -> Children]
      /\ \A d \in Conn : ~InMaps(d) => child'[d] = child[d]
      /\ \A d \in Conn : InMaps(d) => child'[d] = Gone
  BY <1>0, <1>1 DEF Shaped, Children, Procs, Gone, NoChild
<1>5. Shaped(entries', retired', start', child', pc', key', held', closing')
  BY <1>0, <1>1, <1>4 DEF Shaped
<1>6. CachedLive(entries', child') /\ RetiredLive(entries', retired', child', held')
  BY <1>1, <1>2 DEF CachedLive, RetiredLive
<1>7. Counted(entries', retired', child', held')
  BY <1>1, <1>2 DEF Counted
<1>8. Claimed(entries', start')
  BY <1>2 DEF Claimed
<1>9. ConnectingOwn(start', child', held')
  BY <1>0, <1>1, <1>3, <1>4 DEF PoolInv, Sound, ConnectingOwn, Shaped, NoStart, Starts, Live
<1>10. ClosingOwn(start', child', pc', closing')
  <2>1. \A d \in Conn : child[d].proc = "closing" => child'[d].proc = "closing"
    BY <1>3, <1>4 DEF Live
  <2>2. \A u \in User : start[u].phase = "closing" => start[u].conn \in Conn
    BY <1>0 DEF Shaped, Starts, NoStart
  <2>. QED  BY <1>1, <2>1, <2>2 DEF PoolInv, Sound, ClosingOwn
<1>11. HeldOwn(entries', retired', child', held')
  <2>. SUFFICES ASSUME NEW t \in Turn, NEW d \in held[t]
                PROVE  /\ child'[d].proc \notin {"connecting", "open"}
                       /\ child'[d].proc \in Live => child'[d].user = Owner[t]
    BY <1>1 DEF HeldOwn
  <2>1. d \in Conn
    BY <1>0 DEF Shaped
  <2>2. CASE InMaps(d)
    BY <1>4, <2>1, <2>2 DEF Live, Gone, NoChild
  <2>3. CASE ~InMaps(d)
    BY <1>4, <2>1, <2>3 DEF PoolInv, Sound, HeldOwn, InMaps
  <2>. QED  BY <2>2, <2>3
<1>12. TurnsOK(entries', pc', key', held')
  <2>1. \A t \in Turn : None \notin held[t]
    BY <1>0 DEF Shaped
  <2>. QED  BY <1>1, <1>2, <2>1 DEF PoolInv, Sound, TurnsOK
<1>. QED  BY <1>1, <1>5, <1>6, <1>7, <1>8, <1>9, <1>10, <1>11, <1>12 DEF PoolInv, Sound

-----------------------------------------------------------------------------
(* The theorems.                                                           *)

\* Every step of the pool, its turns, its starts and its children keeps the
\* inductive invariant.
LEMMA StepSound ==
    ASSUME PoolInv, [Next]_vars
    PROVE  PoolInv'
<1>1. ASSUME NEW t \in Turn, TurnStep(t) PROVE PoolInv'
  BY <1>1, TokenStepSound, AcquireEntrySound, ParkSound, RefreshEntrySound, RefreshEvictSound,
     RefreshEvictedSound, EndTurnSound DEF TurnStep
<1>2. ASSUME NEW u \in User, StartStep(u) PROVE PoolInv'
  BY <1>2, StartEvictedSound, ConnectSucceedsSound, StartFailsSound
  DEF StartStep, ConnectFails, CatalogFails
<1>3. CASE UNCHANGED vars
  BY <1>3 DEF vars, PoolInv, Sound, Shaped, CachedLive, RetiredLive, Counted, Claimed,
              ConnectingOwn, ClosingOwn, HeldOwn, TurnsOK
<1>. QED  BY <1>1, <1>2, <1>3, SweepSound, DieSound, ShutdownSound DEF Next

\* The inductive invariant holds in every reachable state.
THEOREM PoolInvariant == SafeSpec => []PoolInv
<1>1. Init => PoolInv
  BY InitSound
<1>2. PoolInv /\ [Next]_vars => PoolInv'
  BY StepSound
<1>. QED  BY <1>1, <1>2, PTL DEF SafeSpec

\* Type correctness.
THEOREM TypeCorrect == SafeSpec => []TypeOK
<1>1. PoolInv => TypeOK
  BY DEF PoolInv, Sound, Shaped, TypeOK
<1>. QED  BY <1>1, PoolInvariant, PTL

\* User isolation: no interleaving of turns, refreshes, replacements, evictions
\* and exits gives a turn a live child of another user.
THEOREM Isolation == SafeSpec => []OwnChildOnly
<1>1. PoolInv => OwnChildOnly
  BY DEF PoolInv, Sound, HeldOwn, OwnChildOnly, Live
<1>. QED  BY <1>1, PoolInvariant, PTL

\* inUse is exactly the number of turns that will call release for the child.
THEOREM CountsExact == SafeSpec => []UseCounted
<1>1. PoolInv => UseCounted
  BY DEF PoolInv, Sound, Counted, UseCounted, InMaps, Holders
<1>. QED  BY <1>1, PoolInvariant, PTL

\* The maps never name a child twice, nor keep one that nobody will release.
THEOREM PlacesDistinct == SafeSpec => []OnePlacePerChild
<1>1. ASSUME PoolInv PROVE OnePlacePerChild
  <2>1. Shaped(entries, retired, start, child, pc, key, held, closing)
    BY <1>1 DEF PoolInv, Sound
  <2>2. \A u \in User : start[u] # NoStart => entries[u] = None
    BY <1>1 DEF PoolInv, Sound, Claimed
  <2>3. \A u, v \in User : u # v /\ entries[u] # None => entries[u] # entries[v]
    BY <1>1 DEF PoolInv, Sound, CachedLive
  <2>4. /\ \A u \in User : entries[u] \notin retired
        /\ \A c \in retired : \E t \in Turn : c \in held[t]
    BY <1>1, <2>1 DEF PoolInv, Sound, RetiredLive, Shaped
  <2>. QED  BY <2>2, <2>3, <2>4 DEF OnePlacePerChild
<1>. QED  BY <1>1, PoolInvariant, PTL
-----------------------------------------------------------------------------
(* No child is closed under a turn.                                        *)

\* A child in the maps whose count is zero is held by no turn.
LEMMA IdleUnheld ==
    ASSUME PoolInv, NEW c \in Conn, InMaps(c), child[c].inUse = 0
    PROVE  \A t \in Turn : c \notin held[t]
<1>1. Cardinality({t \in Turn : c \in held[t]}) = 0
  BY DEF PoolInv, Sound, Counted, InMaps
<1>2. {t \in Turn : c \in held[t]} = {}
  BY <1>1, HoldersFinite, FS_EmptySet
<1>. QED  BY <1>2

\* The only live child spawn closes is an idle cached one.
LEMMA SpawnCloses ==
    ASSUME NEW u \in User, NEW k, NEW ent \in [User -> Conn \cup {None}], NEW ret,
           NEW ch \in [Conn -> Children], NEW pcs, Spawn(u, k, ent, ret, ch, pcs),
           NEW c \in Conn, ch[c].proc = "open", child'[c].proc \in {"closing", "gone"}
    PROVE  ch[c].inUse = 0 /\ \E v \in User : ent[v] = c
<1>1. CASE SpawnChild(u, k, ent, ret, ch, pcs)
  BY <1>1 DEF SpawnChild, Fresh
<1>2. CASE EvictForRoom(u, k, ent, ret, ch, pcs)
  BY <1>2 DEF EvictForRoom, Idle
<1>3. CASE RefuseStart(u, ent, ret, ch, pcs)
  BY <1>3 DEF RefuseStart
<1>. QED  BY <1>1, <1>2, <1>3 DEF Spawn

\* entryFor closes no live child but an idle cached one, and takes nobody's hold
\* on it away.
LEMMA EntryForCloses ==
    ASSUME PoolInv, NEW t \in Turn, NEW ch \in [Conn -> Children], NEW wait, NEW after,
           \A d \in Conn : child[d].proc = "open" => ch[d] = child[d],
           EntryFor(Owner[t], t, ch, wait, after),
           NEW c \in Conn, child[c].proc = "open", child'[c].proc \in {"closing", "gone"}
    PROVE  child[c].inUse = 0 /\ InMaps(c) /\ held' = held
<1>. USE McpPoolAssumption
<1>. DEFINE u == Owner[t]
<1>0. u \in User /\ Shaped(entries, retired, start, child, pc, key, held, closing)
  BY DEF PoolInv, Sound
<1>1. ch[c] = child[c] /\ ch[c] \in Children
  OBVIOUS
<1>2. CASE Join(u, t, ch, wait)
  BY <1>1, <1>2 DEF Join
<1>3. CASE Reuse(u, t, ch, after)
  <2>1. child' = [ch EXCEPT ![entries[u]].inUse = @ + 1]
    BY <1>3 DEF Reuse, Usable
  <2>2. child'[c].proc = ch[c].proc
    BY <1>1, <2>1 DEF Children
  <2>. QED  BY <1>1, <2>2
<1>4. CASE StartFirst(u, t, ch, wait)
  <2>1. Spawn(u, key[t], entries, retired, ch, [pc EXCEPT ![t] = wait]) /\ held' = held
    BY <1>4 DEF StartFirst
  <2>2. ch[c].inUse = 0 /\ \E v \in User : entries[v] = c
    BY <1>0, <1>1, <2>1, SpawnCloses DEF Shaped
  <2>. QED  BY <1>1, <2>1, <2>2 DEF InMaps
<1>5. CASE ReplaceClosed(u, t, ch, wait)
  BY <1>0, <1>1, <1>5 DEF ReplaceClosed, ClosesNow, InMaps
<1>6. CASE ReplaceBusy(u, t, ch, wait)
  <2>. DEFINE ent == [entries EXCEPT ![u] = None]
  <2>1. /\ Spawn(u, key[t], ent, retired \cup {entries[u]}, ch, [pc EXCEPT ![t] = wait])
        /\ held' = held
    BY <1>6 DEF ReplaceBusy
  <2>2. ent \in [User -> Conn \cup {None}] /\ None \notin Conn
    BY <1>0 DEF Shaped
  <2>3. ch[c].inUse = 0 /\ \E v \in User : ent[v] = c
    <3>. HIDE DEF ent
    <3>. QED  BY <1>0, <1>1, <2>1, <2>2, SpawnCloses
  <2>4. \E v \in User : entries[v] = c
    BY <1>0, <2>2, <2>3 DEF Shaped
  <2>. QED  BY <1>1, <2>1, <2>3, <2>4 DEF InMaps
<1>. QED  BY <1>2, <1>3, <1>4, <1>5, <1>6 DEF EntryFor

\* A finished turn closes a retired child only as its last holder.
LEMMA EndTurnCloses ==
    ASSUME PoolInv, NEW t \in Turn, EndTurn(t),
           NEW c \in Conn, child[c].proc = "open", child'[c].proc \in {"closing", "gone"}
    PROVE  \A s \in Turn : c \notin held'[s]
<1>. DEFINE mine == {d \in held[t] : entries[Owner[t]] = d \/ d \in retired}
            done == {d \in held[t] \cap retired : entries[Owner[t]] # d /\ UsesLeft(d) = 0}
            H    == {s \in Turn : c \in held[s]}
<1>0. Shaped(entries, retired, start, child, pc, key, held, closing)
  BY DEF PoolInv, Sound
<1>1. /\ child' = [d \in Conn |->
                     IF d \in done THEN Gone
                     ELSE IF d \in mine THEN [child[d] EXCEPT !.inUse = UsesLeft(d)]
                     ELSE child[d]]
      /\ held' = [held EXCEPT ![t] = {}]
  BY DEF EndTurn, Drained
<1>2. c \in done
  <2>. SUFFICES ASSUME c \notin done PROVE child'[c].proc = child[c].proc
    OBVIOUS
  <2>1. child[c] \in Children
    BY <1>0 DEF Shaped
  <2>2. child'[c] = child[c] \/ child'[c] = [child[c] EXCEPT !.inUse = UsesLeft(c)]
    BY <1>1
  <2>. QED  BY <2>1, <2>2 DEF Children
<1>3. c \in held[t] /\ child[c].inUse <= 1 /\ c \in retired
  <2>1. c \in held[t] /\ c \in retired /\ UsesLeft(c) = 0
    BY <1>2
  <2>2. child[c].inUse \in Nat
    BY <1>0 DEF Shaped, Children
  <2>. QED  BY <2>1, <2>2 DEF UsesLeft
<1>4. child[c].inUse = Cardinality(H)
  BY <1>3 DEF PoolInv, Sound, Counted
<1>5. IsFiniteSet(H) /\ Cardinality(H) \in Nat /\ t \in H
  BY <1>3, HoldersFinite
<1>6. H \ {t} = {}
  <2>. HIDE DEF H
  <2>1. Cardinality(H \ {t}) = Cardinality(H) - 1
    BY <1>5, FS_RemoveElement
  <2>2. IsFiniteSet(H \ {t}) /\ Cardinality(H \ {t}) \in Nat
    BY <1>5, FS_Subset, FS_CardinalityType
  <2>3. Cardinality(H \ {t}) = 0
    BY <1>3, <1>4, <1>5, <2>1, <2>2
  <2>. QED  BY <2>2, <2>3, FS_EmptySet
<1>. QED  BY <1>0, <1>1, <1>6 DEF Shaped

\* No step but shutdown closes a live child that a turn still holds after it.
LEMMA StepClosesNone ==
    ASSUME PoolInv, [Next]_vars,
           NEW c \in Conn, child[c].proc = "open", child'[c].proc \in {"closing", "gone"}, down' = down
    PROVE  \A t \in Turn : c \notin held'[t]
<1>. USE McpPoolAssumption
<1>0. Shaped(entries, retired, start, child, pc, key, held, closing)
  BY DEF PoolInv, Sound
<1>1. SUFFICES \/ \A t \in Turn : c \notin held'[t]
               \/ child[c].inUse = 0 /\ InMaps(c) /\ held' = held
  BY IdleUnheld
<1>2. ASSUME NEW t \in Turn, AcquireEntry(t)
      PROVE  child[c].inUse = 0 /\ InMaps(c) /\ held' = held
  BY <1>0, <1>2, EntryForCloses DEF AcquireEntry, Shaped
<1>3. ASSUME NEW t \in Turn, RefreshEntry(t)
      PROVE  child[c].inUse = 0 /\ InMaps(c) /\ held' = held
  <2>1. CASE entries[Owner[t]] = None /\ EntryFor(Owner[t], t, child, "rewaiting", "retried")
    BY <1>0, <2>1, EntryForCloses DEF Shaped
  <2>2. CASE ReplaceBusy(Owner[t], t, child, "rewaiting")
    <3>. DEFINE ent == [entries EXCEPT ![Owner[t]] = None]
    <3>1. /\ Spawn(Owner[t], key[t], ent, retired \cup {entries[Owner[t]]}, child,
                   [pc EXCEPT ![t] = "rewaiting"])
          /\ held' = held
      BY <2>2 DEF ReplaceBusy
    <3>2. ent \in [User -> Conn \cup {None}] /\ None \notin Conn
      BY <1>0 DEF Shaped
    <3>3. child[c].inUse = 0 /\ \E v \in User : ent[v] = c
      <4>1. child \in [Conn -> Children]
        BY <1>0 DEF Shaped
      <4>. HIDE DEF ent
      <4>. QED  BY <1>0, <3>1, <3>2, <4>1, SpawnCloses
    <3>4. \E v \in User : entries[v] = c
      BY <1>0, <3>2, <3>3 DEF Shaped
    <3>. QED  BY <3>1, <3>3, <3>4 DEF InMaps
  <2>. QED  BY <1>3, <2>1, <2>2 DEF RefreshEntry
<1>4. ASSUME NEW t \in Turn, RefreshEvict(t)
      PROVE  child[c].inUse = 0 /\ InMaps(c) /\ held' = held
  BY <1>0, <1>4 DEF RefreshEvict, ClosesNow, InMaps, Shaped
<1>5. ASSUME NEW t \in Turn, RefreshEvicted(t)
      PROVE  child[c].inUse = 0 /\ InMaps(c) /\ held' = held
  <2>. DEFINE ch == [child EXCEPT ![closing[t]] = Gone]
  <2>1. child[closing[t]].proc = "closing" /\ EntryFor(Owner[t], t, ch, "rewaiting", "retried")
    BY <1>5 DEF RefreshEvicted, PoolInv, Sound, ClosingOwn
  <2>2. ch \in [Conn -> Children] /\ \A d \in Conn : child[d].proc = "open" => ch[d] = child[d]
    BY <1>0, <2>1 DEF Shaped, Children, Procs, Gone, NoChild
  <2>. QED  BY <2>1, <2>2, EntryForCloses
<1>6. ASSUME NEW u \in User, StartEvicted(u)
      PROVE  child[c].inUse = 0 /\ InMaps(c) /\ held' = held
  <2>. DEFINE ch == [child EXCEPT ![start[u].conn] = Gone]
  <2>1. /\ child[start[u].conn].proc = "closing" /\ held' = held
        /\ Spawn(u, start[u].key, entries, retired, ch, pc)
    BY <1>6 DEF StartEvicted, PoolInv, Sound, ClosingOwn
  <2>2. ch \in [Conn -> Children] /\ \A d \in Conn : child[d].proc = "open" => ch[d] = child[d]
    BY <1>0, <2>1 DEF Shaped, Children, Procs, Gone, NoChild
  <2>3. ch[c].inUse = 0 /\ \E v \in User : entries[v] = c
    <3>1. entries \in [User -> Conn \cup {None}]
      BY <1>0 DEF Shaped
    <3>. HIDE DEF ch
    <3>. QED  BY <2>1, <2>2, <3>1, SpawnCloses
  <2>. QED  BY <2>1, <2>2, <2>3 DEF InMaps
<1>7. ASSUME NEW u \in User, ConnectSucceeds(u) \/ ConnectFails(u) \/ CatalogFails(u)
      PROVE  FALSE
  <2>1. start[u].phase = "connecting" /\ child[start[u].conn].proc = "connecting"
    BY <1>7 DEF ConnectSucceeds, ConnectFails, CatalogFails, StartFails, PoolInv, Sound, ConnectingOwn
  <2>2. \A d \in Conn : d # start[u].conn => child'[d] = child[d]
    BY <1>0, <1>7 DEF ConnectSucceeds, ConnectFails, CatalogFails, StartFails, Shaped
  <2>. QED  BY <2>1, <2>2
<1>8. ASSUME NEW u \in User, Sweep(u)
      PROVE  child[c].inUse = 0 /\ InMaps(c) /\ held' = held
  BY <1>0, <1>8 DEF Sweep, Idle, InMaps, turnVars, Shaped
<1>9. ASSUME NEW d \in Conn, Die(d)
      PROVE  \A t \in Turn : c \notin held'[t]
  <2>1. c = d /\ held' = held
    BY <1>0, <1>9 DEF Die, Shaped, turnVars
  <2>2. ~InMaps(c)
    BY <1>0, <1>9, <2>1 DEF Die, Orphan, Shaped, Children
  <2>. QED  BY <2>1, <2>2 DEF PoolInv, Sound, HeldOwn, InMaps
<1>10. ASSUME NEW t \in Turn, TurnStep(t)
       PROVE  \/ \A s \in Turn : c \notin held'[s]
              \/ child[c].inUse = 0 /\ InMaps(c) /\ held' = held
  BY <1>1, <1>2, <1>3, <1>4, <1>5, <1>10, EndTurnCloses
  DEF TurnStep, ReadToken, MintEarly, RefreshToken, RefreshFails, poolVars
<1>. QED  BY <1>1, <1>6, <1>7, <1>8, <1>9, <1>10 DEF Next, StartStep, Shutdown, vars

\* A live child is closed only when no turn holds it any more.
THEOREM ClosedOnlyUnheld == SafeSpec => NeverClosedUnderTurn
<1>1. ASSUME PoolInv, [Next]_vars
      PROVE  [\A c \in Conn : child[c].proc = "open" /\ child'[c].proc \in {"closing", "gone"} /\ down' = down
                => \A t \in Turn : c \notin held'[t]]_vars
  BY <1>1, StepClosesNone
<1>. QED  BY <1>1, PoolInvariant, PTL DEF SafeSpec, NeverClosedUnderTurn
-----------------------------------------------------------------------------
(* How many children there can be.                                         *)

Cached(ent)    == {u \in User : ent[u] # None}
Connecting(st) == {u \in User : st[u].phase = "connecting"}

\* OvershootBounded, of a state that is given.
Fits(ent, ret, st) ==
    Sessions(ent, ret) + Cardinality(Connecting(st)) <= MaxSessions + Cardinality(User) - 1

LEMMA UsersCounted ==
    /\ IsFiniteSet(User) /\ Cardinality(User) \in Nat
    /\ \A S \in SUBSET User :
          IsFiniteSet(S) /\ Cardinality(S) \in Nat /\ Cardinality(S) <= Cardinality(User)
    /\ \A S \in SUBSET Conn : IsFiniteSet(S) /\ Cardinality(S) \in Nat
<1>1. IsFiniteSet(User) /\ IsFiniteSet(Conn)
  BY McpPoolAssumption
<1>2. /\ \A S \in SUBSET User : IsFiniteSet(S) /\ Cardinality(S) <= Cardinality(User)
      /\ \A S \in SUBSET Conn : IsFiniteSet(S)
  BY <1>1, FS_Subset
<1>. QED  BY <1>1, <1>2, FS_CardinalityType

\* Nobody is cached, retired or started: there are no more than before.
LEMMA FewerFit ==
    ASSUME NEW ent, NEW ret \in SUBSET Conn, NEW st, Fits(ent, ret, st),
           NEW ent2, NEW ret2 \in SUBSET ret, NEW st2,
           Cached(ent2) \in SUBSET Cached(ent), Connecting(st2) \in SUBSET Connecting(st)
    PROVE  Fits(ent2, ret2, st2)
<1>1. Cached(ent) \in SUBSET User /\ Connecting(st) \in SUBSET User
  BY DEF Cached, Connecting
<1>2. Cardinality(Cached(ent2)) <= Cardinality(Cached(ent)) /\ Cardinality(Cached(ent)) \in Nat
      /\ Cardinality(Cached(ent2)) \in Nat
  BY <1>1, UsersCounted, FS_Subset
<1>3. Cardinality(Connecting(st2)) <= Cardinality(Connecting(st)) /\ Cardinality(Connecting(st)) \in Nat
      /\ Cardinality(Connecting(st2)) \in Nat
  BY <1>1, UsersCounted, FS_Subset
<1>4. Cardinality(ret2) <= Cardinality(ret) /\ Cardinality(ret) \in Nat /\ Cardinality(ret2) \in Nat
  BY UsersCounted, FS_Subset
<1>. QED  BY <1>2, <1>3, <1>4, UsersCounted, McpPoolAssumption DEF Fits, Sessions, Cached

\* The capacity check was passed just now: all the other users may have passed it
\* before, and this one brings the pool to its limit at most.
LEMMA SpawnFits ==
    ASSUME NEW u \in User, NEW k, NEW ent \in [User -> Conn \cup {None}], NEW ret \in SUBSET Conn,
           NEW ch, NEW pcs, start \in [User -> Starts], start[u].phase # "connecting",
           Fits(ent, ret, start), Spawn(u, k, ent, ret, ch, pcs)
    PROVE  Fits(entries', retired', start')
<1>1. CASE SpawnChild(u, k, ent, ret, ch, pcs)
  <2>1. entries' = ent /\ retired' = ret /\ Sessions(ent, ret) < MaxSessions
    BY <1>1 DEF SpawnChild, Room
  <2>2. Connecting(start') \in SUBSET User /\ Cached(ent) \in SUBSET User
    BY DEF Connecting, Cached
  <2>3. /\ Cardinality(Connecting(start')) <= Cardinality(User)
        /\ Cardinality(Connecting(start')) \in Nat /\ Cardinality(Cached(ent)) \in Nat
        /\ Cardinality(ret) \in Nat
    BY <2>2, UsersCounted
  <2>. QED  BY <2>1, <2>3, UsersCounted, McpPoolAssumption DEF Fits, Sessions, Cached
<1>2. CASE EvictForRoom(u, k, ent, ret, ch, pcs)
  <2>1. Cached(entries') \in SUBSET Cached(ent)
    BY <1>2 DEF EvictForRoom, Cached
  <2>2. Connecting(start') \in SUBSET Connecting(start)
    BY <1>2 DEF EvictForRoom, Connecting
  <2>. QED  BY <1>2, <2>1, <2>2, FewerFit DEF EvictForRoom
<1>3. CASE RefuseStart(u, ent, ret, ch, pcs)
  <2>1. Connecting(start') \in SUBSET Connecting(start)
    BY <1>3 DEF RefuseStart, Connecting, NoStart
  <2>. QED  BY <1>3, <2>1, FewerFit DEF RefuseStart
<1>. QED  BY <1>1, <1>2, <1>3 DEF Spawn

\* A busy child that is replaced moves from one map to the other.
LEMMA ReplaceBusyFits ==
    ASSUME PoolInv, OvershootBounded, NEW u \in User, NEW t, NEW ch, NEW wait,
           ReplaceBusy(u, t, ch, wait)
    PROVE  Fits(entries', retired', start')
<1>. DEFINE c   == entries[u]
            ent == [entries EXCEPT ![u] = None]
            ret == retired \cup {c}
<1>1. /\ entries \in [User -> Conn \cup {None}] /\ retired \in SUBSET Conn
      /\ start \in [User -> Starts]
  BY DEF PoolInv, Sound, Shaped
<1>2. /\ start[u] = NoStart /\ c # None
      /\ Spawn(u, key[t], ent, ret, ch, [pc EXCEPT ![t] = wait])
  BY DEF ReplaceBusy
<1>3. c \in Conn /\ c \notin retired
  BY <1>1, <1>2 DEF PoolInv, Sound, RetiredLive
<1>4. Cardinality(ret) = Cardinality(retired) + 1
  BY <1>1, <1>3, UsersCounted, FS_AddElement
<1>5. Cardinality(Cached(ent)) = Cardinality(Cached(entries)) - 1
  <2>1. u \in Cached(entries) /\ Cached(ent) = Cached(entries) \ {u}
    BY <1>1, <1>2 DEF Cached
  <2>2. IsFiniteSet(Cached(entries))
    BY UsersCounted DEF Cached
  <2>. QED  BY <2>1, <2>2, FS_RemoveElement
<1>6. Fits(ent, ret, start)
  <2>1. Cached(entries) \in SUBSET User /\ Connecting(start) \in SUBSET User
    BY DEF Cached, Connecting
  <2>2. /\ Cardinality(Cached(entries)) \in Nat /\ Cardinality(Connecting(start)) \in Nat
        /\ Cardinality(retired) \in Nat
    BY <1>1, <2>1, UsersCounted
  <2>3. Cardinality(Cached(entries)) + Cardinality(retired) + Cardinality(Connecting(start))
            <= MaxSessions + Cardinality(User) - 1
    BY DEF OvershootBounded, Sessions, Cached, Connecting
  <2>4. Sessions(ent, ret) = Cardinality(Cached(ent)) + Cardinality(ret)
    BY DEF Sessions, Cached
  <2>. HIDE DEF ent, ret
  <2>. QED  BY <1>4, <1>5, <2>2, <2>3, <2>4 DEF Fits
<1>7. ent \in [User -> Conn \cup {None}] /\ ret \in SUBSET Conn /\ start[u].phase # "connecting"
  BY <1>1, <1>2, <1>3 DEF NoStart
<1>. HIDE DEF ent, ret
<1>. QED  BY <1>1, <1>2, <1>6, <1>7, SpawnFits

LEMMA EntryForFits ==
    ASSUME PoolInv, OvershootBounded, NEW t \in Turn, NEW ch, NEW wait, NEW after,
           EntryFor(Owner[t], t, ch, wait, after)
    PROVE  Fits(entries', retired', start')
<1>. DEFINE u == Owner[t]
<1>1. /\ u \in User /\ entries \in [User -> Conn \cup {None}] /\ retired \in SUBSET Conn
      /\ start \in [User -> Starts]
  BY McpPoolAssumption DEF PoolInv, Sound, Shaped
<1>2. Fits(entries, retired, start)
  BY DEF Fits, OvershootBounded, Connecting
<1>3. CASE Join(u, t, ch, wait) \/ Reuse(u, t, ch, after)
  BY <1>2, <1>3 DEF Join, Reuse
<1>4. CASE StartFirst(u, t, ch, wait)
  BY <1>1, <1>2, <1>4, SpawnFits DEF StartFirst, NoStart
<1>5. CASE ReplaceClosed(u, t, ch, wait)
  <2>1. /\ Cached(entries') \in SUBSET Cached(entries)
        /\ Connecting(start') \in SUBSET Connecting(start)
    BY <1>1, <1>5 DEF ReplaceClosed, Cached, Connecting
  <2>. QED  BY <1>1, <1>2, <1>5, <2>1, FewerFit DEF ReplaceClosed
<1>6. CASE ReplaceBusy(u, t, ch, wait)
  BY <1>1, <1>6, ReplaceBusyFits
<1>. QED  BY <1>3, <1>4, <1>5, <1>6 DEF EntryFor

LEMMA ConnectSucceedsFits ==
    ASSUME PoolInv, OvershootBounded, NEW u \in User, ConnectSucceeds(u)
    PROVE  Fits(entries', retired', start')
<1>. DEFINE c == start[u].conn
<1>1. /\ entries \in [User -> Conn \cup {None}] /\ retired \in SUBSET Conn
      /\ start \in [User -> Starts] /\ entries[u] = None /\ start[u] # NoStart /\ c \in Conn
  BY DEF PoolInv, Sound, Shaped, Claimed, ConnectSucceeds, NoStart, Starts
<1>2. /\ u \notin Cached(entries) /\ Cached(entries') = Cached(entries) \cup {u}
      /\ u \in Connecting(start) /\ Connecting(start') = Connecting(start) \ {u}
  BY <1>1, McpPoolAssumption DEF ConnectSucceeds, Cached, Connecting, NoStart
<1>3. IsFiniteSet(Cached(entries)) /\ IsFiniteSet(Connecting(start))
  BY UsersCounted DEF Cached, Connecting
<1>4. /\ Cardinality(Cached(entries')) = Cardinality(Cached(entries)) + 1
      /\ Cardinality(Connecting(start')) = Cardinality(Connecting(start)) - 1
  BY <1>2, <1>3, FS_AddElement, FS_RemoveElement
<1>5. /\ Cardinality(Cached(entries)) \in Nat /\ Cardinality(Connecting(start)) \in Nat
      /\ Cardinality(retired) \in Nat /\ retired' = retired
  BY <1>1, <1>3, UsersCounted, FS_CardinalityType DEF ConnectSucceeds
<1>6. Cardinality(Cached(entries)) + Cardinality(retired) + Cardinality(Connecting(start))
          <= MaxSessions + Cardinality(User) - 1
  BY DEF OvershootBounded, Sessions, Cached, Connecting
<1>7. Sessions(entries', retired') = Cardinality(Cached(entries')) + Cardinality(retired')
  BY DEF Sessions, Cached
<1>. QED  BY <1>4, <1>5, <1>6, <1>7 DEF Fits

LEMMA OvershootStep ==
    ASSUME PoolInv, OvershootBounded, [Next]_vars
    PROVE  OvershootBounded'
<1>. SUFFICES Fits(entries', retired', start')
  BY DEF Fits, OvershootBounded, Connecting
<1>1. /\ entries \in [User -> Conn \cup {None}] /\ retired \in SUBSET Conn
      /\ start \in [User -> Starts]
  BY DEF PoolInv, Sound, Shaped
<1>2. Fits(entries, retired, start)
  BY DEF Fits, OvershootBounded, Connecting
<1>3. ASSUME UNCHANGED <<entries, retired, start>> PROVE Fits(entries', retired', start')
  BY <1>2, <1>3
<1>4. ASSUME NEW u \in User, entries' = [entries EXCEPT ![u] = None], UNCHANGED <<retired, start>>
      PROVE  Fits(entries', retired', start')
  <2>1. Cached(entries') \in SUBSET Cached(entries)
    BY <1>1, <1>4 DEF Cached
  <2>. QED  BY <1>1, <1>2, <1>4, <2>1, FewerFit
<1>5. ASSUME NEW t \in Turn, TurnStep(t) PROVE Fits(entries', retired', start')
  <2>1. Owner[t] \in User
    BY McpPoolAssumption
  <2>2. CASE AcquireEntry(t) \/ RefreshEvicted(t)
    BY <2>2, EntryForFits DEF AcquireEntry, RefreshEvicted
  <2>3. CASE RefreshEntry(t)
    BY <2>1, <2>3, EntryForFits, ReplaceBusyFits DEF RefreshEntry
  <2>4. CASE RefreshEvict(t)
    BY <2>1, <2>4, <1>4 DEF RefreshEvict
  <2>5. CASE EndTurn(t)
    BY <1>1, <1>2, <2>5, FewerFit DEF EndTurn
  <2>. QED
    BY <1>5, <1>3, <2>2, <2>3, <2>4, <2>5
    DEF TurnStep, ReadToken, MintEarly, RefreshToken, RefreshFails, poolVars
<1>6. ASSUME NEW u \in User, StartStep(u) PROVE Fits(entries', retired', start')
  <2>1. CASE StartEvicted(u)
    BY <1>1, <1>2, <2>1, SpawnFits DEF StartEvicted
  <2>2. CASE ConnectSucceeds(u)
    BY <2>2, ConnectSucceedsFits
  <2>3. ASSUME NEW left, StartFails(u, left) PROVE Fits(entries', retired', start')
    <3>1. Connecting(start') \in SUBSET Connecting(start)
      BY <1>1, <2>3 DEF StartFails, Connecting, NoStart
    <3>. QED  BY <1>1, <1>2, <2>3, <3>1, FewerFit DEF StartFails
  <2>. QED  BY <1>6, <2>1, <2>2, <2>3 DEF StartStep, ConnectFails, CatalogFails
<1>7. CASE Shutdown
  <2>1. Cached(entries') \in SUBSET Cached(entries)
    BY <1>7 DEF Shutdown, Cached
  <2>. QED  BY <1>1, <1>2, <1>7, <2>1, FewerFit DEF Shutdown
<1>8. CASE UNCHANGED vars
  BY <1>8, <1>3 DEF vars
<1>9. ASSUME NEW u \in User, Sweep(u) PROVE Fits(entries', retired', start')
  BY <1>9, <1>4 DEF Sweep
<1>10. ASSUME NEW c \in Conn, Die(c) PROVE Fits(entries', retired', start')
  BY <1>10, <1>3 DEF Die
<1>. QED  BY <1>5, <1>6, <1>7, <1>8, <1>9, <1>10 DEF Next

\* The capacity check lets the pool run over its slots by no more than one child
\* for each other user: whatever starts overlap, no later step adds to that.
THEOREM OvershootIsBounded == SafeSpec => []OvershootBounded
<1>1. Init => OvershootBounded
  <2>1. ASSUME Init PROVE Cached(entries) = {} /\ Connecting(start) = {} /\ retired = {}
    BY <2>1 DEF Init, Cached, Connecting, NoStart
  <2>. QED
    BY <2>1, FS_EmptySet, UsersCounted, McpPoolAssumption
    DEF OvershootBounded, Sessions, Cached, Connecting
<1>2. PoolInv /\ OvershootBounded /\ [Next]_vars => OvershootBounded'
  BY OvershootStep
<1>. QED  BY <1>1, <1>2, PoolInvariant, PTL DEF SafeSpec
-----------------------------------------------------------------------------
(* Nobody waits for nothing.                                               *)

\* Starts and the turns that wait on them, in a state that is given.
Matched(st, pcs) == \A u \in User : st[u] # NoStart <=> Waiters(pcs, u) # {}

\* A start is in flight for exactly the users that have a turn suspended on one:
\* no turn awaits a promise that has gone, and no child is started for nobody.
StartsAwaited == Matched(start, pc)

\* A turn that did not wait and does not now.
LEMMA TurnMatched ==
    ASSUME PoolInv, StartsAwaited, NEW t \in Turn, NEW p,
           {pc[t], p} \cap {"awaiting", "rewaiting"} = {},
           pc' = [pc EXCEPT ![t] = p], start' = start
    PROVE  Matched(start', pc')
<1>1. pc \in [Turn -> PCs]
  BY DEF PoolInv, Sound, Shaped
<1>2. \A u \in User : Waiters(pc', u) = Waiters(pc, u)
  BY <1>1 DEF Waiters
<1>. QED  BY <1>2 DEF StartsAwaited, Matched

\* Settling frees the waiters of u and nobody else.
LEMMA SettleMatched ==
    ASSUME NEW u \in User, NEW pcs, NEW acquired \in {"idle", "serving"}
    PROVE  \A v \in User :
              Waiters(Settle(pcs, u, acquired), v) = IF v = u THEN {} ELSE Waiters(pcs, v)
<1>1. ASSUME NEW t \in Turn
      PROVE  Settle(pcs, u, acquired)[t] \in {"awaiting", "rewaiting"}
                <=> t \notin Waiters(pcs, u) /\ pcs[t] \in {"awaiting", "rewaiting"}
  BY DEF Settle
<1>. QED  BY <1>1 DEF Waiters

\* A spawn leaves a start behind, or frees the waiters of its user.
LEMMA SpawnMatched ==
    ASSUME NEW u \in User, NEW k, NEW ent, NEW ret, NEW ch, NEW pcs,
           start \in [User -> Starts], Spawn(u, k, ent, ret, ch, pcs),
           Waiters(pcs, u) # {},
           \A v \in User \ {u} : start[v] # NoStart <=> Waiters(pcs, v) # {}
    PROVE  Matched(start', pc')
<1>1. CASE SpawnChild(u, k, ent, ret, ch, pcs) \/ EvictForRoom(u, k, ent, ret, ch, pcs)
  <2>1. pc' = pcs /\ start'[u] # NoStart /\ \A v \in User \ {u} : start'[v] = start[v]
    BY <1>1 DEF SpawnChild, EvictForRoom, NoStart
  <2>. QED  BY <2>1 DEF Matched
<1>2. CASE RefuseStart(u, ent, ret, ch, pcs)
  <2>1. /\ pc' = Settle(pcs, u, "idle") /\ start'[u] = NoStart
        /\ \A v \in User \ {u} : start'[v] = start[v]
    BY <1>2 DEF RefuseStart
  <2>. QED  BY <2>1, SettleMatched DEF Matched
<1>. QED  BY <1>1, <1>2 DEF Spawn

LEMMA ReplaceBusyMatched ==
    ASSUME PoolInv, StartsAwaited, NEW t \in Turn, NEW ch, NEW wait \in {"awaiting", "rewaiting"},
           pc[t] \notin {"awaiting", "rewaiting"}, ReplaceBusy(Owner[t], t, ch, wait)
    PROVE  Matched(start', pc')
<1>. DEFINE u   == Owner[t]
            pcs == [pc EXCEPT ![t] = wait]
<1>1. u \in User /\ start \in [User -> Starts] /\ pc \in [Turn -> PCs]
  BY McpPoolAssumption DEF PoolInv, Sound, Shaped
<1>2. /\ t \in Waiters(pcs, u)
      /\ \A v \in User \ {u} : Waiters(pcs, v) = Waiters(pc, v)
  BY <1>1 DEF Waiters
<1>. QED
  BY <1>1, <1>2, SpawnMatched DEF ReplaceBusy, StartsAwaited, Matched

LEMMA EntryForMatched ==
    ASSUME PoolInv, StartsAwaited, NEW t \in Turn, NEW ch, NEW wait \in {"awaiting", "rewaiting"},
           NEW after \in {"serving", "retried"}, pc[t] \notin {"awaiting", "rewaiting"},
           EntryFor(Owner[t], t, ch, wait, after)
    PROVE  Matched(start', pc')
<1>. DEFINE u   == Owner[t]
            pcs == [pc EXCEPT ![t] = wait]
<1>1. u \in User /\ start \in [User -> Starts] /\ pc \in [Turn -> PCs]
  BY McpPoolAssumption DEF PoolInv, Sound, Shaped
<1>2. /\ t \in Waiters(pcs, u)
      /\ \A v \in User \ {u} : Waiters(pcs, v) = Waiters(pc, v)
  BY <1>1 DEF Waiters
<1>3. CASE Join(u, t, ch, wait)
  BY <1>1, <1>2, <1>3 DEF Join, StartsAwaited, Matched
<1>4. CASE Reuse(u, t, ch, after)
  <2>1. pc' = [pc EXCEPT ![t] = after] /\ start' = start
    BY <1>4 DEF Reuse
  <2>. QED  BY <2>1, TurnMatched
<1>5. CASE StartFirst(u, t, ch, wait)
  BY <1>1, <1>2, <1>5, SpawnMatched DEF StartFirst, StartsAwaited, Matched
<1>6. CASE ReplaceClosed(u, t, ch, wait)
  <2>1. /\ pc' = pcs /\ start'[u] # NoStart /\ \A v \in User \ {u} : start'[v] = start[v]
    BY <1>1, <1>6 DEF ReplaceClosed, NoStart
  <2>. QED  BY <2>1, <1>2 DEF StartsAwaited, Matched
<1>7. CASE ReplaceBusy(u, t, ch, wait)
  BY <1>7, ReplaceBusyMatched
<1>. QED  BY <1>3, <1>4, <1>5, <1>6, <1>7 DEF EntryFor

LEMMA StartsAwaitedStep ==
    ASSUME PoolInv, StartsAwaited, [Next]_vars
    PROVE  StartsAwaited'
<1>. SUFFICES Matched(start', pc')
  BY DEF StartsAwaited, Matched, Waiters
<1>1. start \in [User -> Starts] /\ pc \in [Turn -> PCs]
  BY DEF PoolInv, Sound, Shaped
<1>2. ASSUME UNCHANGED <<start, pc>> PROVE Matched(start', pc')
  BY <1>2 DEF StartsAwaited
<1>3. ASSUME NEW t \in Turn, TurnStep(t) PROVE Matched(start', pc')
  <2>1. ASSUME NEW p, {pc[t], p} \cap {"awaiting", "rewaiting"} = {},
               pc' = [pc EXCEPT ![t] = p], start' = start
        PROVE  Matched(start', pc')
    BY <2>1, TurnMatched
  <2>2. CASE ReadToken(t) \/ MintEarly(t) \/ RefreshToken(t) \/ RefreshFails(t) \/ EndTurn(t)
    BY <2>1, <2>2
    DEF ReadToken, MintEarly, RefreshToken, RefreshFails, EndTurn, poolVars
  <2>3. CASE RefreshEvict(t)
    BY <2>1, <2>3 DEF RefreshEvict
  <2>4. CASE AcquireEntry(t)
    BY <2>4, EntryForMatched DEF AcquireEntry
  <2>5. CASE RefreshEntry(t)
    BY <2>5, EntryForMatched, ReplaceBusyMatched DEF RefreshEntry
  <2>6. CASE RefreshEvicted(t)
    BY <2>6, EntryForMatched DEF RefreshEvicted
  <2>. QED  BY <1>3, <2>2, <2>3, <2>4, <2>5, <2>6 DEF TurnStep
<1>4. ASSUME NEW u \in User, StartStep(u) PROVE Matched(start', pc')
  <2>1. CASE StartEvicted(u)
    <3>1. Waiters(pc, u) # {}
      BY <2>1 DEF StartEvicted, StartsAwaited, Matched, NoStart
    <3>. QED
      BY <1>1, <2>1, <3>1, SpawnMatched DEF StartEvicted, StartsAwaited, Matched
  <2>2. ASSUME NEW acquired \in {"idle", "serving"}, pc' = Settle(pc, u, acquired),
               start' = [start EXCEPT ![u] = NoStart]
        PROVE  Matched(start', pc')
    BY <1>1, <2>2, SettleMatched DEF StartsAwaited, Matched
  <2>. QED
    BY <1>4, <2>1, <2>2 DEF StartStep, ConnectSucceeds, ConnectFails, CatalogFails, StartFails
<1>5. CASE (\E u \in User : Sweep(u)) \/ (\E c \in Conn : Die(c)) \/ Shutdown \/ UNCHANGED vars
  BY <1>2, <1>5 DEF Sweep, Die, Shutdown, vars, turnVars, poolVars
<1>. QED  BY <1>3, <1>4, <1>5 DEF Next

\* Whatever joins, fails, is refused or shut down meanwhile, a turn suspended in
\* acquire or refreshIdentity has a start to wake it, and when that start ends no
\* waiting turn is left behind.
THEOREM NobodyLeftWaiting == SafeSpec => []StartsAwaited
<1>1. Init => StartsAwaited
  BY DEF Init, StartsAwaited, Matched, Waiters
<1>2. PoolInv /\ StartsAwaited /\ [Next]_vars => StartsAwaited'
  BY StartsAwaitedStep
<1>. QED  BY <1>1, <1>2, PoolInvariant, PTL DEF SafeSpec
=============================================================================
