------------------------------ MODULE APlaylist ------------------------------
(***************************************************************************)
(* One playlist of the playlist daemon: the array based structure Pls of   *)
(* mafw-playlist-daemon/aplaylist.c and every operation on it.             *)
(*                                                                         *)
(* Arrays are indexed from 0 as in the code; their allocated but unused    *)
(* tail (alloc) is left out.  pidx and iidx exist while the playlist is    *)
(* shuffled.  A call the code refuses (an index out of range, no items)    *)
(* changes nothing and is a stuttering step.                               *)
(***************************************************************************)
EXTENDS Integers, FiniteSets

CONSTANTS OIDs,      \* object ids an item can have
          MaxLen,    \* bound: longest playlist
          MaxInsert  \* bound: most items inserted by one call

ASSUME BoundsAssumption == MaxLen \in Nat /\ MaxInsert \in Nat

VARIABLES len,       \* number of items
          vidx,      \* vidx[i]: object id of the item shown at position i
          repeat,    \* repeat mode
          shuffled,  \* shuffle mode
          poolst,    \* shuffled: first element of the pool in pidx
          pidx,      \* shuffled: pidx[k] is the position played k-th
          iidx,      \* shuffled: iidx[i] is when position i is played
          dirty,     \* changed since it was last saved
          timer,     \* dirty_timer is running
          reply      \* answer of the last pls_get_{starting,last,next,prev}

content == <<len, vidx, repeat, shuffled, poolst, pidx, iidx>>
vars == <<content, dirty, timer, reply>>

Idx == 0 .. len - 1
NoArray == [i \in {} |-> 0]

NoReply == [op |-> "none", from |-> 0, ok |-> FALSE, index |-> 0]
Found(op, from, i) == [op |-> op, from |-> from, ok |-> TRUE, index |-> i]
NotFound(op, from) == [op |-> op, from |-> from, ok |-> FALSE, index |-> 0]

\* pls_new(): an empty playlist, dirty, with its timer running -- unless it is
\* made while the daemon loads its playlists ("initialize").
Init ==
  /\ len = 0 /\ poolst = 0
  /\ vidx = NoArray /\ pidx = NoArray /\ iidx = NoArray
  /\ repeat \in BOOLEAN
  /\ shuffled = FALSE
  /\ dirty = TRUE
  /\ timer \in BOOLEAN
  /\ reply = NoReply

-----------------------------------------------------------------------------
(* Saving after a while without edits *)

\* Mutant: the timer is not started.
i_am_dirty_no_timer ==
  /\ dirty' = TRUE
  /\ reply' = NoReply
  /\ UNCHANGED timer

\* Every edit marks the playlist dirty and (re)starts the timer.
i_am_dirty ==
  /\ dirty' = TRUE
  /\ timer' = TRUE
  /\ reply' = NoReply

\* Mutant: the timer is left running after a save.
ops_settled_keeps_timer(saved) ==
  /\ timer
  /\ dirty' = ~saved
  /\ timer' = TRUE
  /\ UNCHANGED <<content, reply>>

\* Mutant: a failed save is not tried again.
ops_settled_gives_up(saved) ==
  /\ timer
  /\ dirty' = ~saved
  /\ timer' = FALSE
  /\ UNCHANGED <<content, reply>>

\* The timer expired.  save_me() clears "dirty" if it could write the file;
\* otherwise the timer is started again.
ops_settled(saved) ==
  /\ timer
  /\ dirty' = ~saved
  /\ timer' = ~saved
  /\ UNCHANGED <<content, reply>>

-----------------------------------------------------------------------------
(* Edits *)

\* iidx after "iidx[p[i]] = i" for i = 0 .. n-1, on top of what it held.
Reindexed(p, n, old) ==
  [v \in 0 .. n - 1 |->
     IF \E i \in 0 .. n - 1 : p[i] = v
     THEN CHOOSE i \in 0 .. n - 1 :
            p[i] = v /\ \A j \in i + 1 .. n - 1 : p[j] # v
     ELSE old[v]]

\* pls_insert(s), pls_append(s): n items before position idx; when shuffled
\* they are put at the end of the pool.
pls_inserts(idx, oids, n) ==
  /\ n > 0 /\ idx <= len
  /\ len + n <= MaxLen
  /\ len' = len + n
  /\ vidx' = [i \in 0 .. len + n - 1 |->
                IF i < idx THEN vidx[i]
                ELSE IF i < idx + n THEN oids[i - idx + 1] ELSE vidx[i - n]]
  /\ pidx' = IF ~shuffled THEN NoArray
             ELSE [k \in 0 .. len + n - 1 |->
                     IF k >= len THEN idx + (k - len)
                     ELSE IF pidx[k] >= idx THEN pidx[k] + n ELSE pidx[k]]
  /\ iidx' = IF ~shuffled THEN NoArray ELSE Reindexed(pidx', len + n, iidx)
  /\ i_am_dirty
  /\ UNCHANGED <<repeat, shuffled, poolst>>

\* Mutant: the position after the removed one keeps its number.
Renumbered_skips_next(idx) ==
  [k \in Idx |-> IF pidx[k] > idx + 1 THEN pidx[k] - 1 ELSE pidx[k]]

\* pidx once position idx is gone: positions are renumbered, and the slot opx
\* that held idx is closed by moving up the rest of the played part, or is
\* given to the last element of the pool.
Renumbered(idx) ==
  [k \in Idx |-> IF pidx[k] > idx THEN pidx[k] - 1 ELSE pidx[k]]

\* Mutant: the slot of an element of the pool is closed by moving up too.
RemovedPidx_moves_up(idx) ==
  [k \in 0 .. len - 2 |->
     Renumbered(idx)[IF iidx[idx] <= k /\ k < poolst - 1 THEN k + 1 ELSE k]]

RemovedPidx(idx) ==
  LET opx == iidx[idx]
      p == Renumbered(idx)
  IN  IF opx < poolst
      THEN [k \in 0 .. len - 2 |-> IF opx <= k /\ k < poolst - 1 THEN p[k + 1] ELSE p[k]]
      ELSE [k \in 0 .. len - 2 |-> IF k = opx THEN p[len - 1] ELSE p[k]]

pls_remove(idx) ==
  /\ idx < len
  /\ len' = len - 1
  /\ vidx' = [i \in 0 .. len - 2 |-> IF i < idx THEN vidx[i] ELSE vidx[i + 1]]
  /\ pidx' = IF shuffled THEN RemovedPidx(idx) ELSE NoArray
  /\ iidx' = IF shuffled THEN Reindexed(pidx', len - 1, iidx) ELSE NoArray
  /\ poolst' = IF shuffled /\ iidx[idx] < poolst THEN poolst - 1 ELSE poolst
  /\ i_am_dirty
  /\ UNCHANGED <<repeat, shuffled>>

\* Only object ids move; play order and positions keep their pairing.
pls_move(from, to) ==
  /\ from # to /\ from < len /\ to < len
  /\ vidx' = [i \in Idx |->
                IF i = to THEN vidx[from]
                ELSE IF from <= i /\ i < to THEN vidx[i + 1]
                ELSE IF to < i /\ i <= from THEN vidx[i - 1] ELSE vidx[i]]
  /\ i_am_dirty
  /\ UNCHANGED <<len, repeat, shuffled, poolst, pidx, iidx>>

\* An emptied playlist stays shuffled.
pls_clear ==
  /\ len' = 0 /\ poolst' = 0
  /\ vidx' = NoArray /\ pidx' = NoArray /\ iidx' = NoArray
  /\ i_am_dirty
  /\ UNCHANGED <<repeat, shuffled>>

\* The arrays start as the identity; a shuffled playlist keeps them, but all
\* of it is put back into the pool.
pls_shuffle ==
  /\ pidx' = IF shuffled THEN pidx ELSE [k \in Idx |-> k]
  /\ iidx' = IF shuffled THEN iidx ELSE [k \in Idx |-> k]
  /\ shuffled' = TRUE
  /\ poolst' = 0
  /\ i_am_dirty
  /\ UNCHANGED <<len, vidx, repeat>>

\* Mutant: the arrays are not given up.
pls_unshuffle_keeps_arrays ==
  /\ shuffled
  /\ shuffled' = FALSE
  /\ i_am_dirty
  /\ UNCHANGED <<len, vidx, repeat, poolst, pidx, iidx>>

\* poolst keeps its value.
pls_unshuffle ==
  /\ shuffled
  /\ shuffled' = FALSE
  /\ pidx' = NoArray /\ iidx' = NoArray
  /\ i_am_dirty
  /\ UNCHANGED <<len, vidx, repeat, poolst>>

pls_set_repeat(on) ==
  /\ repeat' = on
  /\ i_am_dirty
  /\ UNCHANGED <<len, vidx, shuffled, poolst, pidx, iidx>>

-----------------------------------------------------------------------------
(* Walking the play order.  An "order" is the part of a shuffled playlist  *)
(* these operations change; they do not mark the playlist dirty.           *)

Order == [pidx |-> pidx, iidx |-> iidx, poolst |-> poolst]

\* swap_elements()
swap_elements(o, a, b) ==
  LET p == [o.pidx EXCEPT ![a] = o.pidx[b], ![b] = o.pidx[a]]
  IN  [o EXCEPT !.pidx = p, !.iidx = [@ EXCEPT ![p[a]] = a, ![p[b]] = b]]

\* swap_elements() of the pool's first element and the one at k, poolst++
Placed(o, k) == [swap_elements(o, o.poolst, k) EXCEPT !.poolst = @ + 1]

\* shuffle_elements(pls, 1): any element of the pool may be drawn.
Drawn(o) == {Placed(o, k) : k \in o.poolst .. len - 1}

\* shuffle_elements(pls, len): the pool in any order.
AllDrawn(o) ==
  {[pidx |-> p, iidx |-> Reindexed(p, len, o.iidx), poolst |-> len] :
     p \in {q \in [Idx -> Idx] :
             /\ \A k \in 0 .. o.poolst - 1 : q[k] = o.pidx[k]
             /\ \A v \in Idx : \E k \in Idx : q[k] = v
             /\ \A j, k \in Idx : q[j] = q[k] => j = k}}

Answer(o, r) ==
  /\ pidx' = o.pidx /\ iidx' = o.iidx /\ poolst' = o.poolst
  /\ reply' = r
  /\ UNCHANGED <<len, vidx, repeat, shuffled, dirty, timer>>

pls_get_starting ==
  /\ len > 0
  /\ IF ~shuffled THEN Answer(Order, Found("starting", 0, 0))
     ELSE \E o \in IF poolst = 0 THEN Drawn(Order) ELSE {Order} :
            Answer(o, Found("starting", 0, o.pidx[0]))

pls_get_last ==
  /\ len > 0
  /\ IF ~shuffled THEN Answer(Order, Found("last", 0, len - 1))
     ELSE \E o \in AllDrawn(Order) : Answer(o, Found("last", 0, o.pidx[len - 1]))

\* Mutant: the element asked about is not given a place.
Shown_unplaced(i) == Order

\* An element of the pool is first given the next place of the order.
Shown(i) == IF iidx[i] >= poolst THEN Placed(Order, iidx[i]) ELSE Order

NextUnshuffled(i) ==
  Answer(Order, IF i < len - 1 THEN Found("next", i, i + 1)
                ELSE IF repeat THEN Found("next", i, 0) ELSE NotFound("next", i))

NextShuffled(i) ==
  IF iidx[i] + 1 < poolst
  THEN Answer(Order, Found("next", i, pidx[iidx[i] + 1]))
  ELSE LET s == Shown(i)
       IN  IF s.poolst < len
           THEN \E o \in Drawn(s) : Answer(o, Found("next", i, o.pidx[o.poolst - 1]))
           ELSE Answer(s, IF repeat THEN Found("next", i, s.pidx[0])
                          ELSE NotFound("next", i))

pls_get_next(i) ==
  \/ i >= len /\ Answer(Order, NotFound("next", i))
  \/ i < len /\ ~shuffled /\ NextUnshuffled(i)
  \/ i < len /\ shuffled /\ NextShuffled(i)

PrevUnshuffled(i) ==
  Answer(Order, IF i > 0 THEN Found("prev", i, i - 1)
                ELSE IF repeat THEN Found("prev", i, len - 1) ELSE NotFound("prev", i))

PrevShuffled(i) ==
  LET s == Shown(i)
      k == s.iidx[i]
  IN  IF k > 0 THEN Answer(s, Found("prev", i, s.pidx[k - 1]))
      ELSE IF ~repeat THEN Answer(s, NotFound("prev", i))
      ELSE \E o \in AllDrawn(s) : Answer(o, Found("prev", i, o.pidx[len - 1]))

pls_get_prev(i) ==
  \/ i >= len /\ Answer(Order, NotFound("prev", i))
  \/ i < len /\ ~shuffled /\ PrevUnshuffled(i)
  \/ i < len /\ shuffled /\ PrevShuffled(i)

-----------------------------------------------------------------------------
Walk ==
  \/ pls_get_starting
  \/ pls_get_last
  \/ \E i \in 0 .. MaxLen : pls_get_next(i) \/ pls_get_prev(i)

\* Every edit but pls_remove().
OtherEdits ==
  \/ \E n \in 1 .. MaxInsert : \E oids \in [1 .. n -> OIDs], idx \in 0 .. len :
       pls_inserts(idx, oids, n)
  \/ \E from, to \in Idx : pls_move(from, to)
  \/ pls_clear
  \/ pls_shuffle
  \/ pls_unshuffle
  \/ \E on \in BOOLEAN : pls_set_repeat(on)

Settle == \E saved \in BOOLEAN : ops_settled(saved)

Next == Walk \/ OtherEdits \/ Settle \/ \E idx \in Idx : pls_remove(idx)
Spec == Init /\ [][Next]_vars

(* Removing an element that has its place in the play order while others   *)
(* still wait in the pool leaves the slot at the end of the played part    *)
(* unfilled and drops the last element of the pool: see PlsCheck and the   *)
(* README.  What the arrays hold afterwards is stale, so everything else   *)
(* is stated of the callers that do not do it.                             *)
LeavesHole(idx) == shuffled /\ iidx[idx] < poolst /\ poolst < len

SafeEdits == OtherEdits \/ \E idx \in Idx : ~LeavesHole(idx) /\ pls_remove(idx)
SafeNext == Walk \/ SafeEdits \/ Settle
SafeSpec == Init /\ [][SafeNext]_vars

-----------------------------------------------------------------------------
(* Properties *)

Reply == [op : {"none", "starting", "last", "next", "prev"},
          from : Nat, ok : BOOLEAN, index : Nat]

\* Every variable has its type; the index arrays exist only when shuffled.
TypeOK ==
  /\ len \in Nat
  /\ vidx \in [Idx -> OIDs]
  /\ repeat \in BOOLEAN
  /\ shuffled \in BOOLEAN
  /\ poolst \in Nat
  /\ shuffled => pidx \in [Idx -> Nat] /\ iidx \in [Idx -> Nat]
  /\ ~shuffled => pidx = NoArray /\ iidx = NoArray
  /\ dirty \in BOOLEAN
  /\ timer \in BOOLEAN
  /\ reply \in Reply

\* pls_check(): when shuffled, pidx and iidx hold every position exactly once,
\* and (what every walk relies on) each is the inverse of the other.
PlsCheck ==
  shuffled =>
    /\ \A k \in Idx : pidx[k] \in Idx /\ iidx[pidx[k]] = k
    /\ \A i \in Idx : iidx[i] \in Idx /\ pidx[iidx[i]] = i

\* When shuffled the pool starts inside the arrays, or at their end, so no
\* draw is made from an empty or negative range.
PoolInRange == shuffled => poolst \in 0 .. len

\* The turn of position i.
Turn(i) == IF shuffled THEN iidx[i] ELSE i

\* A player is told that there is nothing more only at an end of the order of
\* a playlist that does not repeat, and then every element had its turn.
EndIsReal ==
  reply.op \in {"next", "prev"} /\ ~reply.ok /\ reply.from < len =>
    /\ ~repeat
    /\ reply.op = "next" => Turn(reply.from) = len - 1 /\ (shuffled => poolst = len)
    /\ reply.op = "prev" => Turn(reply.from) = 0

\* A position handed to a player has its place in the play order for good, and
\* pls_get_next()/pls_get_prev() answered the neighbour of the one asked about
\* (around the end only with repeat), even when that one was still in the pool.
\* pls_get_starting()/pls_get_last() answered the two ends; and an answer that
\* there is none is true.
ReplyIsNeighbour ==
  /\ EndIsReal
  /\ reply.ok =>
    LET i == reply.index
        from == reply.from
        cyclic == repeat \/ reply.op \in {"starting", "last"}
    IN  /\ i \in Idx
        /\ shuffled => iidx[i] < poolst
        /\ reply.op = "starting" => Turn(i) = 0
        /\ reply.op = "last" => Turn(i) = len - 1
        /\ reply.op = "next" => /\ from \in Idx
                                /\ \/ Turn(i) = Turn(from) + 1
                                   \/ cyclic /\ Turn(from) = len - 1 /\ Turn(i) = 0
        /\ reply.op = "prev" => /\ from \in Idx
                                /\ \/ Turn(from) = Turn(i) + 1
                                   \/ cyclic /\ Turn(i) = len - 1 /\ Turn(from) = 0

\* g_assert(pls->dirty) of ops_settled(): the timer never runs on a clean
\* playlist.
TimerOnlyWhenDirty == timer => dirty

\* The arrays implement the play order of module PlayOrder.
PO == INSTANCE PlayOrder WITH
        items <- [k \in 1 .. len |-> vidx[k - 1]],
        played <- IF shuffled THEN [k \in 1 .. poolst |-> pidx[k - 1]] ELSE [k \in 1 .. 0 |-> 0]
ImplementsPlayOrder == PO!Spec
=============================================================================
