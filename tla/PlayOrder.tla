------------------------------ MODULE PlayOrder ------------------------------
(***************************************************************************)
(* What a playlist promises the players that walk it                       *)
(* (mafw-playlist-daemon/aplaylist.c), without its index arrays.           *)
(*                                                                         *)
(* A playlist is a sequence of items at the positions 0 .. Len(items)-1.   *)
(* When it is shuffled, "played" lists the positions already given a place *)
(* in the play order, in that order, and the other positions form the pool *)
(* from which the next one is drawn at random.  An edit renumbers the      *)
(* positions and leaves the rest of the play order as it was.              *)
(***************************************************************************)
EXTENDS Integers, Sequences

CONSTANTS OIDs,      \* object ids an item can have
          MaxLen,    \* bound: longest playlist
          MaxInsert  \* bound: most items inserted by one call

VARIABLES items,     \* the object ids, in visual order
          repeat,    \* TRUE: the play order wraps around
          shuffled,  \* TRUE: the play order is "played", not 0, 1, 2, ...
          played,    \* shuffled only: the positions placed so far
          reply      \* answer of the last get_* call

vars == <<items, repeat, shuffled, played, reply>>

Positions == 0 .. Len(items) - 1
Pool == Positions \ {played[k] : k \in DOMAIN played}

NoReply == [op |-> "none", from |-> 0, ok |-> FALSE, index |-> 0]
Found(op, from, i) == [op |-> op, from |-> from, ok |-> TRUE, index |-> i]
NotFound(op, from) == [op |-> op, from |-> from, ok |-> FALSE, index |-> 0]

\* Sequences without repetition over a set S of positions that use all of it.
Orders(S) == {q \in UNION {[1 .. n -> S] : n \in 0 .. Len(items)} :
                /\ \A i \in S : \E k \in DOMAIN q : q[k] = i
                /\ \A j, k \in DOMAIN q : j # k => q[j] # q[k]}

Init ==
  /\ items = <<>>
  /\ repeat \in BOOLEAN
  /\ shuffled = FALSE
  /\ played = <<>>
  /\ reply = NoReply

-----------------------------------------------------------------------------
(* Edits.  New items join the pool; a removed one leaves a play order in   *)
(* which the others keep their turns.                                      *)

Insert(at, new) ==
  LET n == Len(new)
  IN  /\ Len(items) + n <= MaxLen
      /\ items' = SubSeq(items, 1, at) \o new \o SubSeq(items, at + 1, Len(items))
      /\ played' = [k \in DOMAIN played |->
                      IF played[k] >= at THEN played[k] + n ELSE played[k]]
      /\ reply' = NoReply
      /\ UNCHANGED <<repeat, shuffled>>

\* The turn of position at, if it has one; and the play order without it.  The
\* others keep their order; the positions after it are one less.
Turns(at) == {k \in DOMAIN played : played[k] = at}

Dropped(at) ==
  LET Stays(k) == IF \E t \in Turns(at) : t <= k THEN k + 1 ELSE k
      Down(p) == IF p > at THEN p - 1 ELSE p
      n == IF Turns(at) = {} THEN Len(played) ELSE Len(played) - 1
  IN  [k \in 1 .. n |-> Down(played[Stays(k)])]

Remove(at) ==
  /\ items' = SubSeq(items, 1, at) \o SubSeq(items, at + 2, Len(items))
  /\ played' = Dropped(at)
  /\ reply' = NoReply
  /\ UNCHANGED <<repeat, shuffled>>

\* A moved item changes its visual position only: the play order is an
\* order of positions.
Move(from, to) ==
  LET rest == SubSeq(items, 1, from) \o SubSeq(items, from + 2, Len(items))
  IN  /\ items' = SubSeq(rest, 1, to) \o <<items[from + 1]>>
                    \o SubSeq(rest, to + 1, Len(rest))
      /\ reply' = NoReply
      /\ UNCHANGED <<repeat, shuffled, played>>

Clear ==
  /\ items' = <<>>
  /\ played' = <<>>
  /\ reply' = NoReply
  /\ UNCHANGED <<repeat, shuffled>>

Shuffle(on) ==
  /\ shuffled' = on
  /\ played' = <<>>
  /\ reply' = NoReply
  /\ UNCHANGED <<items, repeat>>

SetRepeat(on) ==
  /\ repeat' = on
  /\ reply' = NoReply
  /\ UNCHANGED <<items, shuffled, played>>

-----------------------------------------------------------------------------
(* Walking the play order.  A shuffled order is only ever extended at its  *)
(* end, with positions of the pool.                                        *)

\* The order once position i has a place in it.
Placing(i) == IF i \in Pool THEN Append(played, i) ELSE played

\* The order in which the walk continues after i is q; r is the reply.
Walk(q, r) ==
  /\ played' = q
  /\ reply' = r
  /\ UNCHANGED <<items, repeat, shuffled>>

First ==
  /\ items # <<>>
  /\ IF ~shuffled
     THEN Walk(played, Found("starting", 0, 0))
     ELSE \E q \in IF played = <<>> THEN {<<i>> : i \in Positions} ELSE {played} :
            Walk(q, Found("starting", 0, q[1]))

Last ==
  /\ items # <<>>
  /\ IF ~shuffled
     THEN Walk(played, Found("last", 0, Len(items) - 1))
     ELSE \E rest \in Orders(Pool) :
            Walk(played \o rest, Found("last", 0, (played \o rest)[Len(items)]))

After(i) ==
  LET q == Placing(i)
      more == Pool \ {i}
  IN  IF ~shuffled
      THEN Walk(played, IF i < Len(items) - 1 THEN Found("next", i, i + 1)
                        ELSE IF repeat THEN Found("next", i, 0)
                        ELSE NotFound("next", i))
      ELSE \/ \E k \in 1 .. Len(q) - 1 :
                q[k] = i /\ Walk(q, Found("next", i, q[k + 1]))
           \/ \E j \in more :
                q[Len(q)] = i /\ Walk(Append(q, j), Found("next", i, j))
           \/ /\ q[Len(q)] = i /\ more = {}
              /\ Walk(q, IF repeat THEN Found("next", i, q[1])
                         ELSE NotFound("next", i))

Before(i) ==
  LET q == Placing(i)
  IN  IF ~shuffled
      THEN Walk(played, IF i > 0 THEN Found("prev", i, i - 1)
                        ELSE IF repeat THEN Found("prev", i, Len(items) - 1)
                        ELSE NotFound("prev", i))
      ELSE \/ \E k \in 2 .. Len(q) :
                q[k] = i /\ Walk(q, Found("prev", i, q[k - 1]))
           \/ /\ q[1] = i /\ repeat
              /\ \E rest \in Orders(Pool \ {i}) :
                   Walk(q \o rest, Found("prev", i, (q \o rest)[Len(items)]))
           \/ q[1] = i /\ ~repeat /\ Walk(q, NotFound("prev", i))

\* A player asked for a neighbour of a position that does not exist.
Nowhere(op, i) == Walk(played, NotFound(op, i))

-----------------------------------------------------------------------------
Next ==
  \/ \E n \in 1 .. MaxInsert : \E new \in [1 .. n -> OIDs] :
       \E at \in 0 .. Len(items) : Insert(at, new)
  \/ \E at \in Positions : Remove(at)
  \/ \E from, to \in Positions : Move(from, to)
  \/ Clear
  \/ \E on \in BOOLEAN : Shuffle(on) \/ SetRepeat(on)
  \/ First \/ Last
  \/ \E i \in Positions : After(i) \/ Before(i)
  \/ \E i \in Len(items) .. MaxLen, op \in {"next", "prev"} : Nowhere(op, i)

Spec == Init /\ [][Next]_vars
=============================================================================
