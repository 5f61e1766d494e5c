--------------------------- MODULE Playlist_proofs ---------------------------
(***************************************************************************)
(* Theorems about one playlist (APlaylist) and its file (PlaylistFile):    *)
(*   - the index arrays of a shuffled playlist stay inverse permutations,  *)
(*     the removal of an already played element while others wait in the   *)
(*     pool excepted;                                                      *)
(*   - a player is told the neighbours of the element it asks about, and   *)
(*     the arrays implement the play order of module PlayOrder;            *)
(*   - a playlist loaded from a file is as well formed as an edited one,   *)
(*     no edit is forgotten, and what was saved comes back.                *)
(***************************************************************************)
EXTENDS PlaylistFile, FiniteSetTheorems, SequenceTheorems, TLAPS

\* p lists every position below n exactly once.
Permutation(p, n) ==
  /\ p \in [0 .. n - 1 -> 0 .. n - 1]
  /\ \A v \in 0 .. n - 1 : \E k \in 0 .. n - 1 : p[k] = v
  /\ \A j, k \in 0 .. n - 1 : p[j] = p[k] => j = k

\* Each of p and q says where the other has a number.
Inverses(p, q, n) ==
  /\ p \in [0 .. n - 1 -> 0 .. n - 1]
  /\ q \in [0 .. n - 1 -> 0 .. n - 1]
  /\ \A k \in 0 .. n - 1 : q[p[k]] = k
  /\ \A v \in 0 .. n - 1 : p[q[v]] = v

\* The order of a shuffled playlist of n items is well formed.
OrderOK(o, n) ==
  /\ o = [pidx |-> o.pidx, iidx |-> o.iidx, poolst |-> o.poolst]
  /\ Inverses(o.pidx, o.iidx, n)
  /\ o.poolst \in 0 .. n

\* The inductive invariant.
Inv == TypeOK /\ PlsCheck /\ PoolInRange /\ TimerOnlyWhenDirty

-----------------------------------------------------------------------------
(* Lemmas about the helpers *)

\* Rebuilding iidx from a permutation gives its inverse, whatever iidx held.
LEMMA ReindexedIsInverse ==
  ASSUME NEW n \in Nat, NEW p, NEW old, Permutation(p, n)
  PROVE  Inverses(p, Reindexed(p, n, old), n)
<1> DEFINE q == Reindexed(p, n, old)
<1>1. ASSUME NEW v \in 0 .. n - 1, NEW k \in 0 .. n - 1, p[k] = v
      PROVE  q[v] = k
  <2>1. \E i \in 0 .. n - 1 : p[i] = v
    BY <1>1
  <2>2. \A i \in 0 .. n - 1 : p[i] = v <=> i = k
    BY <1>1 DEF Permutation
  <2>3. \A j \in k + 1 .. n - 1 : p[j] # v
    <3> SUFFICES ASSUME NEW j \in k + 1 .. n - 1, p[j] = v PROVE FALSE
      OBVIOUS
    <3>1. j \in 0 .. n - 1 /\ j # k
      OBVIOUS
    <3> QED BY <3>1, <2>2
  <2>4. q[v] = CHOOSE i \in 0 .. n - 1 :
                 p[i] = v /\ \A j \in i + 1 .. n - 1 : p[j] # v
    BY <2>1, SMTT(30) DEF Reindexed
  <2> QED BY <2>2, <2>3, <2>4
<1>2. q \in [0 .. n - 1 -> 0 .. n - 1]
  <2>1. \A v \in 0 .. n - 1 : q[v] \in 0 .. n - 1
    BY <1>1 DEF Permutation
  <2> QED BY <2>1 DEF Reindexed
<1>3. \A k \in 0 .. n - 1 : q[p[k]] = k
  BY <1>1 DEF Permutation
<1>4. \A v \in 0 .. n - 1 : p[q[v]] = v
  BY <1>1 DEF Permutation
<1> QED BY <1>2, <1>3, <1>4 DEF Inverses, Permutation

LEMMA InverseIsPermutation ==
  ASSUME NEW n \in Nat, NEW p, NEW q, Inverses(p, q, n)
  PROVE  Permutation(p, n)
BY DEF Inverses, Permutation

\* Swapping two elements of one array and their turns in the other keeps the
\* arrays inverse.
LEMMA SwapKeepsInverses ==
  ASSUME NEW n \in Nat, NEW p, NEW q, Inverses(p, q, n),
         NEW a \in 0 .. n - 1, NEW b \in 0 .. n - 1,
         NEW p1, p1 = [p EXCEPT ![a] = p[b], ![b] = p[a]],
         NEW q1, q1 = [q EXCEPT ![p1[a]] = a, ![p1[b]] = b]
  PROVE  Inverses(p1, q1, n)
<1>1. p1 \in [0 .. n - 1 -> 0 .. n - 1]
  BY DEF Inverses
<1>2. p1[a] = p[b] /\ p1[b] = p[a]
  BY DEF Inverses
<1>3. \A k \in 0 .. n - 1 : k # a /\ k # b => p1[k] = p[k]
  BY DEF Inverses
<1>4. q1 \in [0 .. n - 1 -> 0 .. n - 1]
  BY <1>1 DEF Inverses
<1>5. q1[p[b]] = a /\ q1[p[a]] = b
  BY <1>2 DEF Inverses
<1>6. \A v \in 0 .. n - 1 : v # p[a] /\ v # p[b] => q1[v] = q[v]
  BY <1>2 DEF Inverses
<1>7. \A k \in 0 .. n - 1 : q1[p1[k]] = k
  <2> TAKE k \in 0 .. n - 1
  <2>1. CASE k = a
    BY <2>1, <1>2, <1>5
  <2>2. CASE k = b
    BY <2>2, <1>2, <1>5
  <2>3. CASE k # a /\ k # b
    <3>1. p1[k] = p[k] /\ p[k] \in 0 .. n - 1 /\ q[p[k]] = k
      BY <2>3, <1>3 DEF Inverses
    <3>2. p[k] # p[a] /\ p[k] # p[b]
      BY <2>3, <3>1 DEF Inverses
    <3> QED BY <3>1, <3>2, <1>6
  <2> QED BY <2>1, <2>2, <2>3
<1>8. \A v \in 0 .. n - 1 : p1[q1[v]] = v
  <2> TAKE v \in 0 .. n - 1
  <2>1. CASE v = p[b]
    BY <2>1, <1>2, <1>5
  <2>2. CASE v = p[a]
    BY <2>2, <1>2, <1>5
  <2>3. CASE v # p[a] /\ v # p[b]
    <3>1. q1[v] = q[v] /\ q[v] \in 0 .. n - 1 /\ p[q[v]] = v
      BY <2>3, <1>6 DEF Inverses
    <3>2. q[v] # a /\ q[v] # b
      BY <2>3, <3>1
    <3> QED BY <3>1, <3>2, <1>3
  <2> QED BY <2>1, <2>2, <2>3
<1> QED BY <1>1, <1>4, <1>7, <1>8 DEF Inverses

LEMMA InversesAreNat ==
  ASSUME NEW n \in Nat, NEW p, NEW q, Inverses(p, q, n)
  PROVE  p \in [0 .. n - 1 -> Nat] /\ q \in [0 .. n - 1 -> Nat]
BY DEF Inverses

\* swap_elements() keeps an order well formed and its pool where it was.
LEMMA SwapKeepsOrder ==
  ASSUME NEW n \in Nat, NEW o, OrderOK(o, n),
         NEW a \in 0 .. n - 1, NEW b \in 0 .. n - 1
  PROVE  /\ OrderOK(swap_elements(o, a, b), n)
         /\ swap_elements(o, a, b).poolst = o.poolst
<1>1. PICK p : p = [o.pidx EXCEPT ![a] = o.pidx[b], ![b] = o.pidx[a]]
  OBVIOUS
<1>2. PICK q : q = [o.iidx EXCEPT ![p[a]] = a, ![p[b]] = b]
  OBVIOUS
<1>3. Inverses(p, q, n)
  BY <1>1, <1>2, SwapKeepsInverses DEF OrderOK
<1>4. swap_elements(o, a, b) = [[o EXCEPT !.pidx = p] EXCEPT !.iidx = q]
  BY <1>1, <1>2 DEF swap_elements
<1>5. swap_elements(o, a, b) = [pidx |-> p, iidx |-> q, poolst |-> o.poolst]
  BY <1>4 DEF OrderOK
<1> QED BY <1>3, <1>5 DEF OrderOK

\* Giving an element of the pool the next place of the order keeps it well
\* formed, with one element more in its played part.
LEMMA PlacedKeepsOrder ==
  ASSUME NEW n \in Nat, NEW o, OrderOK(o, n), NEW k \in o.poolst .. n - 1
  PROVE  /\ OrderOK(Placed(o, k), n)
         /\ Placed(o, k).poolst = o.poolst + 1
<1>1. o.poolst \in 0 .. n - 1 /\ k \in 0 .. n - 1
  BY DEF OrderOK
<1>2. PICK s : s = swap_elements(o, o.poolst, k)
  OBVIOUS
<1>3. OrderOK(s, n) /\ s.poolst = o.poolst
  BY <1>1, <1>2, SwapKeepsOrder
<1>4. Placed(o, k) = [s EXCEPT !.poolst = o.poolst + 1]
  BY <1>2, <1>3 DEF Placed
<1>5. Placed(o, k) = [pidx |-> s.pidx, iidx |-> s.iidx, poolst |-> o.poolst + 1]
  BY <1>3, <1>4 DEF OrderOK
<1> QED BY <1>1, <1>3, <1>5 DEF OrderOK

\* The same for one random draw ...
LEMMA DrawnKeepsOrder ==
  ASSUME len \in Nat, NEW o, OrderOK(o, len), NEW d \in Drawn(o)
  PROVE  OrderOK(d, len) /\ d.poolst = o.poolst + 1
BY PlacedKeepsOrder DEF Drawn

\* ... and for drawing the whole pool.
LEMMA AllDrawnKeepsOrder ==
  ASSUME len \in Nat, NEW o, OrderOK(o, len), NEW d \in AllDrawn(o)
  PROVE  OrderOK(d, len) /\ d.poolst = len
<1>1. PICK p \in [Idx -> Idx] :
        /\ d = [pidx |-> p, iidx |-> Reindexed(p, len, o.iidx), poolst |-> len]
        /\ \A v \in Idx : \E k \in Idx : p[k] = v
        /\ \A j, k \in Idx : p[j] = p[k] => j = k
  BY DEF AllDrawn
<1>2. Permutation(p, len)
  BY <1>1 DEF Permutation, Idx
<1>3. PICK q : q = Reindexed(p, len, o.iidx)
  OBVIOUS
<1>4. Inverses(p, q, len)
  BY <1>2, <1>3, ReindexedIsInverse
<1>5. d = [pidx |-> p, iidx |-> q, poolst |-> len]
  BY <1>1, <1>3
<1> QED BY <1>4, <1>5 DEF OrderOK

\* Inserting n positions at idx: the old ones are renumbered, the new ones
\* follow at the end of the pool.
LEMMA InsertKeepsPermutation ==
  ASSUME NEW m \in Nat, NEW n \in Nat, NEW idx \in 0 .. m,
         NEW p, NEW q, Inverses(p, q, m),
         NEW p1, p1 = [k \in 0 .. m + n - 1 |->
                         IF k >= m THEN idx + (k - m)
                         ELSE IF p[k] >= idx THEN p[k] + n ELSE p[k]]
  PROVE  Permutation(p1, m + n)
<1>1. \A k \in 0 .. m - 1 : p[k] \in 0 .. m - 1 /\ q[k] \in 0 .. m - 1
                            /\ q[p[k]] = k /\ p[q[k]] = k
  BY DEF Inverses
<1>2. \A k \in 0 .. m - 1 : p1[k] = IF p[k] >= idx THEN p[k] + n ELSE p[k]
  BY <1>1
<1>3. \A k \in m .. m + n - 1 : p1[k] = idx + (k - m)
  BY <1>1
<1>4. p1 \in [0 .. m + n - 1 -> 0 .. m + n - 1]
  BY <1>1
<1>5. ASSUME NEW v \in 0 .. m + n - 1
      PROVE  \E k \in 0 .. m + n - 1 : p1[k] = v
  <2>1. CASE v < idx
    <3>1. v \in 0 .. m - 1
      BY <2>1
    <3>2. p1[q[v]] = v /\ q[v] \in 0 .. m + n - 1
      BY <2>1, <3>1, <1>1, <1>2
    <3> QED BY <3>2
  <2>2. CASE idx <= v /\ v < idx + n
    <3>1. m + (v - idx) \in m .. m + n - 1
      BY <2>2
    <3>2. p1[m + (v - idx)] = v
      BY <3>1, <1>3
    <3>3. m + (v - idx) \in 0 .. m + n - 1
      BY <3>1
    <3> QED BY <3>2, <3>3
  <2>3. CASE v >= idx + n
    <3>1. v - n \in 0 .. m - 1 /\ v - n >= idx
      BY <2>3
    <3>2. p1[q[v - n]] = v /\ q[v - n] \in 0 .. m + n - 1
      BY <3>1, <1>1, <1>2
    <3> QED BY <3>2
  <2> QED BY <2>1, <2>2, <2>3
<1>6. ASSUME NEW j \in 0 .. m + n - 1, NEW k \in 0 .. m + n - 1, p1[j] = p1[k]
      PROVE  j = k
  <2>1. CASE j < m /\ k < m
    <3>1. p[j] = p[k]
      BY <2>1, <1>1, <1>2, <1>6
    <3> QED BY <2>1, <3>1, <1>1
  <2>2. CASE j >= m /\ k >= m
    BY <2>2, <1>3, <1>6
  <2>3. CASE j < m /\ k >= m
    BY <2>3, <1>1, <1>2, <1>3, <1>6
  <2>4. CASE j >= m /\ k < m
    BY <2>4, <1>1, <1>2, <1>3, <1>6
  <2> QED BY <2>1, <2>2, <2>3, <2>4
<1> QED BY <1>4, <1>5, <1>6 DEF Permutation

\* Removing position idx: the slot it held is closed without a hole if the
\* pool is empty or idx was still in the pool.
LEMMA RemoveKeepsPermutation ==
  ASSUME len \in Nat, NEW idx \in Idx, Inverses(pidx, iidx, len),
         poolst \in 0 .. len, shuffled, ~LeavesHole(idx)
  PROVE  Permutation(RemovedPidx(idx), len - 1)
<1> DEFINE opx == iidx[idx]
           Down(v) == IF v > idx THEN v - 1 ELSE v
           Up(v) == IF v < idx THEN v ELSE v + 1
           p1 == RemovedPidx(idx)
<1>1. \A k \in 0 .. len - 1 : pidx[k] \in 0 .. len - 1 /\ iidx[k] \in 0 .. len - 1
                              /\ iidx[pidx[k]] = k /\ pidx[iidx[k]] = k
  BY DEF Inverses
<1>2. opx \in 0 .. len - 1 /\ idx \in 0 .. len - 1 /\ pidx[opx] = idx
  BY <1>1 DEF Idx
<1>3. opx < poolst => poolst = len
  BY <1>2 DEF LeavesHole
<1>4. \A k \in 0 .. len - 1 : k # opx => pidx[k] # idx
  BY <1>1, <1>2
<1>5. \A v \in 0 .. len - 2 : /\ Up(v) \in 0 .. len - 1 /\ Up(v) # idx
                              /\ Down(Up(v)) = v
  BY <1>2
<1>6. \A k \in 0 .. len - 1 : k # opx => Down(pidx[k]) \in 0 .. len - 2
  BY <1>1, <1>2, <1>4
<1>7. \A j, k \in 0 .. len - 1 :
        j # opx /\ k # opx /\ Down(pidx[j]) = Down(pidx[k]) => j = k
  <2> SUFFICES ASSUME NEW j \in 0 .. len - 1, NEW k \in 0 .. len - 1,
                      j # opx, k # opx, Down(pidx[j]) = Down(pidx[k])
               PROVE  j = k
    OBVIOUS
  <2>1. pidx[j] = pidx[k]
    BY <1>1, <1>2, <1>4
  <2> QED BY <2>1, <1>1
<1>8. \A k \in 0 .. len - 1 : Renumbered(idx)[k] = Down(pidx[k])
  BY DEF Renumbered, Idx
<1>9. CASE opx < poolst
  <2> DEFINE From(k) == IF k < opx THEN k ELSE k + 1
  <2>1. \A k \in 0 .. len - 2 : From(k) \in 0 .. len - 1 /\ From(k) # opx
    BY <1>2
  <2>2. p1 = [k \in 0 .. len - 2 |->
                IF opx <= k /\ k < poolst - 1 THEN Renumbered(idx)[k + 1]
                ELSE Renumbered(idx)[k]]
    BY <1>9 DEF RemovedPidx
  <2>3. \A k \in 0 .. len - 2 : p1[k] = Down(pidx[From(k)])
    BY <2>2, <1>3, <1>8, <1>9, <1>2
  <2> HIDE DEF p1
  <2>4. p1 \in [0 .. len - 2 -> 0 .. len - 2]
    BY <2>1, <2>2, <2>3, <1>6
  <2>5. ASSUME NEW v \in 0 .. len - 2
        PROVE  \E k \in 0 .. len - 2 : p1[k] = v
    <3> DEFINE k0 == iidx[Up(v)]
               k1 == IF k0 < opx THEN k0 ELSE k0 - 1
    <3>1. k0 \in 0 .. len - 1 /\ k0 # opx /\ pidx[k0] = Up(v)
      BY <1>1, <1>2, <1>5
    <3>2. k1 \in 0 .. len - 2 /\ From(k1) = k0
      BY <3>1, <1>2
    <3>3. p1[k1] = v
      BY <3>1, <3>2, <2>3, <1>5
    <3> QED BY <3>2, <3>3
  <2>6. ASSUME NEW j \in 0 .. len - 2, NEW k \in 0 .. len - 2, p1[j] = p1[k]
        PROVE  j = k
    <3>1. From(j) = From(k)
      BY <2>1, <2>3, <2>6, <1>7
    <3> QED BY <3>1, <1>2
  <2>7. len - 1 - 1 = len - 2
    OBVIOUS
  <2> QED BY <2>4, <2>5, <2>6, <2>7 DEF Permutation, p1
<1>10. CASE ~(opx < poolst)
  <2> DEFINE From(k) == IF k = opx THEN len - 1 ELSE k
  <2>1. \A k \in 0 .. len - 2 : From(k) \in 0 .. len - 1 /\ From(k) # opx
    BY <1>2
  <2>2. p1 = [k \in 0 .. len - 2 |-> IF k = opx THEN Renumbered(idx)[len - 1]
                                     ELSE Renumbered(idx)[k]]
    BY <1>10 DEF RemovedPidx
  <2>3. \A k \in 0 .. len - 2 : p1[k] = Down(pidx[From(k)])
    BY <2>2, <1>8, <1>2
  <2> HIDE DEF p1
  <2>4. p1 \in [0 .. len - 2 -> 0 .. len - 2]
    BY <2>1, <2>2, <2>3, <1>6
  <2>5. ASSUME NEW v \in 0 .. len - 2
        PROVE  \E k \in 0 .. len - 2 : p1[k] = v
    <3> DEFINE k0 == iidx[Up(v)]
               k1 == IF k0 = len - 1 THEN opx ELSE k0
    <3>1. k0 \in 0 .. len - 1 /\ k0 # opx /\ pidx[k0] = Up(v)
      BY <1>1, <1>2, <1>5
    <3>2. k1 \in 0 .. len - 2 /\ From(k1) = k0
      BY <3>1, <1>2
    <3>3. p1[k1] = v
      BY <3>1, <3>2, <2>3, <1>5
    <3> QED BY <3>2, <3>3
  <2>6. ASSUME NEW j \in 0 .. len - 2, NEW k \in 0 .. len - 2, p1[j] = p1[k]
        PROVE  j = k
    <3>1. From(j) = From(k)
      BY <2>1, <2>3, <2>6, <1>7
    <3> QED BY <3>1, <1>2
  <2>7. len - 1 - 1 = len - 2
    OBVIOUS
  <2> QED BY <2>4, <2>5, <2>6, <2>7 DEF Permutation, p1
<1> QED BY <1>9, <1>10

-----------------------------------------------------------------------------
(* The invariant *)

\* A shuffled playlist is an order that is well formed.
LEMMA OrderOfInv ==
  ASSUME Inv, shuffled
  PROVE  OrderOK(Order, len) /\ Inverses(pidx, iidx, len)
<1>1. Inverses(pidx, iidx, len)
  BY DEF Inv, TypeOK, PlsCheck, Inverses, Idx
<1> QED BY <1>1 DEF Inv, TypeOK, PoolInRange, OrderOK, Order

\* Any walk that answers r and leaves a well-formed order keeps the invariant.
LEMMA AnswerKeepsInv ==
  ASSUME Inv, NEW o, shuffled => OrderOK(o, len), ~shuffled => o = Order,
         NEW r \in Reply, Answer(o, r)
  PROVE  Inv'
<1>1. /\ len' = len /\ vidx' = vidx /\ repeat' = repeat /\ shuffled' = shuffled
      /\ dirty' = dirty /\ timer' = timer /\ reply' = r
      /\ pidx' = o.pidx /\ iidx' = o.iidx /\ poolst' = o.poolst
  BY DEF Answer
<1>2. shuffled => Inverses(pidx', iidx', len) /\ poolst' \in 0 .. len
  BY <1>1 DEF OrderOK
<1>3. ~shuffled => pidx' = pidx /\ iidx' = iidx /\ poolst' = poolst
  BY <1>1 DEF Order
<1>4. TypeOK'
  <2>1. shuffled => pidx' \in [0 .. len - 1 -> Nat] /\ iidx' \in [0 .. len - 1 -> Nat]
    BY <1>2 DEF Inverses
  <2>2. poolst' \in Nat
    BY <1>2, <1>3 DEF Inv, TypeOK
  <2> QED BY <1>1, <1>3, <2>1, <2>2 DEF Inv, TypeOK, Idx
<1>5. PlsCheck'
  BY <1>1, <1>2 DEF Inverses, PlsCheck, Idx
<1>6. PoolInRange' /\ TimerOnlyWhenDirty'
  BY <1>1, <1>2 DEF Inv, PoolInRange, TimerOnlyWhenDirty
<1> QED BY <1>4, <1>5, <1>6 DEF Inv

\* A new playlist, and then every edit, has the invariant.
LEMMA InitInv == Init => Inv
<1> SUFFICES ASSUME Init PROVE Inv
  OBVIOUS
<1>1. TypeOK
  <2>1. vidx \in [Idx -> OIDs]
    BY DEF Init, NoArray, Idx
  <2>2. reply \in Reply
    BY DEF Init, NoReply, Reply
  <2> QED BY <2>1, <2>2 DEF Init, TypeOK
<1> QED BY <1>1 DEF Init, Inv, PlsCheck, PoolInRange, TimerOnlyWhenDirty

\* An edit that leaves the playlist shuffled and its arrays inverse keeps the
\* invariant; so does one that leaves it unshuffled.
LEMMA EditKeepsInv ==
  ASSUME i_am_dirty, len' \in Nat, vidx' \in [0 .. len' - 1 -> OIDs],
         repeat' \in BOOLEAN, shuffled' \in BOOLEAN, poolst' \in Nat,
         \/ /\ shuffled' /\ poolst' \in 0 .. len'
            /\ Inverses(pidx', iidx', len')
         \/ ~shuffled' /\ pidx' = NoArray /\ iidx' = NoArray
  PROVE  Inv'
<1>1. (TimerOnlyWhenDirty /\ PoolInRange)'
  BY DEF i_am_dirty, TimerOnlyWhenDirty, PoolInRange
<1>2. dirty' \in BOOLEAN /\ timer' \in BOOLEAN
  BY DEF i_am_dirty
<1>3. reply' \in Reply
  BY DEF i_am_dirty, NoReply, Reply
<1>4. shuffled' => pidx' \in [0 .. len' - 1 -> Nat] /\ iidx' \in [0 .. len' - 1 -> Nat]
  <2> SUFFICES ASSUME shuffled'
               PROVE  pidx' \in [0 .. len' - 1 -> Nat] /\ iidx' \in [0 .. len' - 1 -> Nat]
    OBVIOUS
  <2>1. Inverses(pidx', iidx', len')
    OBVIOUS
  <2> QED BY <2>1, InversesAreNat
<1>5. TypeOK'
  BY <1>2, <1>3, <1>4 DEF TypeOK, Idx
<1>6. PlsCheck'
  BY DEF PlsCheck, Inverses, Idx
<1> QED BY <1>1, <1>5, <1>6 DEF Inv

\* Unshuffled playlists have no arrays.
LEMMA NoArrays ==
  ASSUME Inv, ~shuffled
  PROVE  pidx = NoArray /\ iidx = NoArray
BY DEF Inv, TypeOK, NoArray

LEMMA InsertsKeepsInv ==
  ASSUME Inv, NEW n \in Nat, NEW oids \in [1 .. n -> OIDs], NEW idx \in 0 .. len,
         pls_inserts(idx, oids, n)
  PROVE  Inv'
<1> USE DEF Inv, TypeOK
<1>1. vidx' \in [0 .. len' - 1 -> OIDs]
  <2>1. \A i \in 0 .. len + n - 1 :
          (IF i < idx THEN vidx[i]
           ELSE IF i < idx + n THEN oids[i - idx + 1] ELSE vidx[i - n]) \in OIDs
    BY DEF pls_inserts, Idx
  <2> QED BY <2>1 DEF pls_inserts
<1>2. CASE shuffled
  <2>1. Permutation(pidx', len + n)
    BY <1>2, OrderOfInv, InsertKeepsPermutation DEF pls_inserts
  <2>2. iidx' = Reindexed(pidx', len + n, iidx)
    BY <1>2 DEF pls_inserts
  <2>3. Inverses(pidx', iidx', len + n)
    BY <2>1, <2>2, ReindexedIsInverse
  <2>4. poolst' \in 0 .. len'
    BY <1>2 DEF pls_inserts, PoolInRange
  <2> QED BY <1>1, <1>2, <2>3, <2>4, EditKeepsInv DEF pls_inserts
<1>3. CASE ~shuffled
  BY <1>1, <1>3, EditKeepsInv DEF pls_inserts
<1> QED BY <1>2, <1>3

LEMMA RemoveKeepsInv ==
  ASSUME Inv, NEW idx \in Idx, ~LeavesHole(idx), pls_remove(idx)
  PROVE  Inv'
<1> USE DEF Inv, TypeOK
<1>1. len' = len - 1 /\ len' \in Nat /\ idx \in 0 .. len - 1
  BY DEF pls_remove, Idx
<1>2. vidx' \in [0 .. len' - 1 -> OIDs]
  <2>1. \A i \in 0 .. len - 2 : (IF i < idx THEN vidx[i] ELSE vidx[i + 1]) \in OIDs
    BY <1>1 DEF Idx
  <2>2. len' - 1 = len - 2
    BY <1>1
  <2>3. vidx' = [i \in 0 .. len - 2 |-> IF i < idx THEN vidx[i] ELSE vidx[i + 1]]
    BY DEF pls_remove
  <2> QED BY <2>1, <2>2, <2>3
<1>3. CASE shuffled
  <2>1. Inverses(pidx, iidx, len) /\ poolst \in 0 .. len
    BY <1>3, OrderOfInv DEF PoolInRange
  <2>2. pidx' = RemovedPidx(idx) /\ iidx' = Reindexed(pidx', len - 1, iidx)
    BY <1>3 DEF pls_remove
  <2>3. Permutation(pidx', len - 1)
    BY <1>3, <2>1, <2>2, RemoveKeepsPermutation
  <2>4. Inverses(pidx', iidx', len')
    BY <1>1, <2>2, <2>3, ReindexedIsInverse
  <2>5. iidx[idx] \in 0 .. len - 1
    BY <1>1, <2>1 DEF Inverses
  <2>6. poolst' = IF iidx[idx] < poolst THEN poolst - 1 ELSE poolst
    BY <1>3 DEF pls_remove
  <2>7. poolst' \in 0 .. len'
    BY <1>1, <1>3, <2>1, <2>5, <2>6 DEF LeavesHole
  <2> QED BY <1>1, <1>2, <1>3, <2>4, <2>7, EditKeepsInv DEF pls_remove
<1>4. CASE ~shuffled
  BY <1>1, <1>2, <1>4, EditKeepsInv DEF pls_remove
<1> QED BY <1>3, <1>4

LEMMA OtherEditsKeepInv ==
  ASSUME Inv, OtherEdits
  PROVE  Inv'
<1> USE DEF Inv, TypeOK
<1>1. ASSUME NEW n \in 1 .. MaxInsert, NEW oids \in [1 .. n -> OIDs],
             NEW idx \in 0 .. len, pls_inserts(idx, oids, n)
      PROVE  Inv'
  BY <1>1, InsertsKeepsInv, BoundsAssumption
<1>2. ASSUME NEW from \in Idx, NEW to \in Idx, pls_move(from, to)
      PROVE  Inv'
  <2>1. vidx' \in [0 .. len' - 1 -> OIDs]
    BY <1>2 DEF pls_move, Idx
  <2>2. shuffled => Inverses(pidx, iidx, len) /\ poolst \in 0 .. len
    BY OrderOfInv DEF PoolInRange
  <2> QED BY <1>2, <2>1, <2>2, NoArrays, EditKeepsInv DEF pls_move
<1>3. CASE pls_clear
  <2>1. Inverses(NoArray, NoArray, 0)
    BY DEF Inverses, NoArray
  <2>2. vidx' \in [0 .. len' - 1 -> OIDs]
    BY <1>3 DEF pls_clear, NoArray
  <2> QED BY <1>3, <2>1, <2>2, EditKeepsInv DEF pls_clear
<1>4. CASE pls_shuffle
  <2>1. Inverses(pidx', iidx', len)
    <3>1. CASE shuffled
      BY <1>4, <3>1, OrderOfInv DEF pls_shuffle
    <3>2. CASE ~shuffled
      BY <1>4, <3>2 DEF pls_shuffle, Inverses, Idx
    <3> QED BY <3>1, <3>2
  <2> QED BY <1>4, <2>1, EditKeepsInv DEF pls_shuffle, Idx
<1>5. CASE pls_unshuffle
  BY <1>5, EditKeepsInv DEF pls_unshuffle, Idx
<1>6. ASSUME NEW on \in BOOLEAN, pls_set_repeat(on)
      PROVE  Inv'
  <2>1. shuffled => Inverses(pidx, iidx, len) /\ poolst \in 0 .. len
    BY OrderOfInv DEF PoolInRange
  <2> QED BY <1>6, <2>1, NoArrays, EditKeepsInv DEF pls_set_repeat, Idx
<1> QED BY <1>1, <1>2, <1>3, <1>4, <1>5, <1>6 DEF OtherEdits

LEMMA SettleKeepsInv ==
  ASSUME Inv, Settle
  PROVE  Inv'
BY DEF Settle, ops_settled, content, Inv, TypeOK, PlsCheck, PoolInRange,
       TimerOnlyWhenDirty, Idx

LEMMA SafeEditsKeepInv ==
  ASSUME Inv, SafeEdits
  PROVE  Inv'
BY OtherEditsKeepInv, RemoveKeepsInv DEF SafeEdits

\* Every reply the walks give is a reply.
LEMMA RepliesAreReplies ==
  ASSUME NEW op \in {"starting", "last", "next", "prev"}, NEW i \in Nat, NEW j \in Nat
  PROVE  Found(op, i, j) \in Reply /\ NotFound(op, i) \in Reply
BY DEF Found, NotFound, Reply

LEMMA EndsKeepInv ==
  ASSUME Inv, pls_get_starting \/ pls_get_last
  PROVE  Inv'
<1>0. len \in Nat
  BY DEF Inv, TypeOK
<1>1. CASE pls_get_starting /\ ~shuffled
  BY <1>1, AnswerKeepsInv, RepliesAreReplies DEF pls_get_starting
<1>2. CASE pls_get_starting /\ shuffled
  <2>1. PICK o \in IF poolst = 0 THEN Drawn(Order) ELSE {Order} :
          Answer(o, Found("starting", 0, o.pidx[0]))
    BY <1>2 DEF pls_get_starting
  <2>2. OrderOK(o, len)
    BY <1>0, <1>2, <2>1, OrderOfInv, DrawnKeepsOrder
  <2>3. o.pidx[0] \in Nat
    BY <1>0, <1>2, <2>2 DEF pls_get_starting, OrderOK, Inverses
  <2> QED BY <1>2, <2>1, <2>2, <2>3, AnswerKeepsInv, RepliesAreReplies
<1>3. CASE pls_get_last /\ ~shuffled
  <2>1. len - 1 \in Nat
    BY <1>0, <1>3 DEF pls_get_last
  <2> QED BY <1>3, <2>1, AnswerKeepsInv, RepliesAreReplies DEF pls_get_last
<1>4. CASE pls_get_last /\ shuffled
  <2>1. PICK o \in AllDrawn(Order) : Answer(o, Found("last", 0, o.pidx[len - 1]))
    BY <1>4 DEF pls_get_last
  <2>2. OrderOK(o, len)
    BY <1>0, <1>4, <2>1, OrderOfInv, AllDrawnKeepsOrder
  <2>3. o.pidx[len - 1] \in Nat
    BY <1>0, <1>4, <2>2 DEF pls_get_last, OrderOK, Inverses
  <2> QED BY <1>4, <2>1, <2>2, <2>3, AnswerKeepsInv, RepliesAreReplies
<1> QED BY <1>1, <1>2, <1>3, <1>4

\* Giving the element asked about its place, if it was in the pool.
LEMMA ShownKeepsOrder ==
  ASSUME Inv, shuffled, NEW i \in 0 .. len - 1
  PROVE  OrderOK(Shown(i), len)
<1>1. len \in Nat /\ OrderOK(Order, len) /\ Inverses(pidx, iidx, len)
  BY OrderOfInv DEF Inv, TypeOK
<1>2. iidx[i] \in 0 .. len - 1
  BY <1>1 DEF Inverses
<1>3. Order.poolst = poolst /\ poolst \in Nat
  BY DEF Order, Inv, TypeOK
<1>4. CASE iidx[i] >= poolst
  BY <1>1, <1>2, <1>3, <1>4, PlacedKeepsOrder DEF Shown
<1>5. CASE ~(iidx[i] >= poolst)
  BY <1>1, <1>5 DEF Shown
<1> QED BY <1>4, <1>5

LEMMA NextKeepsInv ==
  ASSUME Inv, NEW i \in Nat, pls_get_next(i)
  PROVE  Inv'
<1>0. len \in Nat
  BY DEF Inv, TypeOK
<1>1. CASE i >= len /\ Answer(Order, NotFound("next", i))
  BY <1>1, OrderOfInv, AnswerKeepsInv, RepliesAreReplies
<1>2. CASE i < len /\ ~shuffled /\ NextUnshuffled(i)
  BY <1>0, <1>2, AnswerKeepsInv, RepliesAreReplies DEF NextUnshuffled
<1>3. CASE i < len /\ shuffled /\ NextShuffled(i)
  <2> DEFINE s == Shown(i)
  <2>1. Inverses(pidx, iidx, len) /\ i \in 0 .. len - 1 /\ poolst \in 0 .. len
    BY <1>0, <1>3, OrderOfInv DEF Inv, PoolInRange
  <2>2. OrderOK(s, len)
    BY <1>3, <2>1, ShownKeepsOrder
  <2>3. CASE iidx[i] + 1 < poolst
    <3>1. pidx[iidx[i] + 1] \in Nat
      <4>1. iidx[i] + 1 \in 0 .. len - 1
        BY <1>0, <2>1, <2>3 DEF Inverses
      <4> QED BY <1>0, <2>1, <4>1 DEF Inverses
    <3>2. Answer(Order, Found("next", i, pidx[iidx[i] + 1]))
      BY <1>3, <2>3 DEF NextShuffled
    <3> QED BY <1>3, <3>1, <3>2, OrderOfInv, AnswerKeepsInv, RepliesAreReplies
  <2>4. CASE ~(iidx[i] + 1 < poolst) /\ s.poolst < len
    <3>1. PICK o \in Drawn(s) : Answer(o, Found("next", i, o.pidx[o.poolst - 1]))
      BY <1>3, <2>4 DEF NextShuffled
    <3>2. OrderOK(o, len) /\ o.poolst = s.poolst + 1
      BY <1>0, <2>2, <3>1, DrawnKeepsOrder
    <3>3. o.pidx[o.poolst - 1] \in Nat
      BY <1>0, <2>2, <2>4, <3>2 DEF OrderOK, Inverses
    <3> QED BY <1>3, <3>1, <3>2, <3>3, AnswerKeepsInv, RepliesAreReplies
  <2>5. CASE ~(iidx[i] + 1 < poolst) /\ ~(s.poolst < len)
    <3>1. Answer(s, IF repeat THEN Found("next", i, s.pidx[0]) ELSE NotFound("next", i))
      BY <1>3, <2>5 DEF NextShuffled
    <3>2. s.pidx[0] \in Nat
      BY <1>0, <2>1, <2>2 DEF OrderOK, Inverses
    <3> QED BY <1>3, <2>2, <3>1, <3>2, AnswerKeepsInv, RepliesAreReplies
  <2> QED BY <2>3, <2>4, <2>5
<1> QED BY <1>1, <1>2, <1>3 DEF pls_get_next

LEMMA PrevKeepsInv ==
  ASSUME Inv, NEW i \in Nat, pls_get_prev(i)
  PROVE  Inv'
<1>0. len \in Nat
  BY DEF Inv, TypeOK
<1>1. CASE i >= len /\ Answer(Order, NotFound("prev", i))
  BY <1>1, OrderOfInv, AnswerKeepsInv, RepliesAreReplies
<1>2. CASE i < len /\ ~shuffled /\ PrevUnshuffled(i)
  BY <1>0, <1>2, AnswerKeepsInv, RepliesAreReplies DEF PrevUnshuffled
<1>3. CASE i < len /\ shuffled /\ PrevShuffled(i)
  <2> DEFINE s == Shown(i)
             k == s.iidx[i]
  <2>1. i \in 0 .. len - 1
    BY <1>0, <1>3
  <2>2. OrderOK(s, len)
    BY <1>3, <2>1, ShownKeepsOrder
  <2>3. k \in 0 .. len - 1
    BY <2>1, <2>2 DEF OrderOK, Inverses
  <2>4. CASE k > 0
    <3>1. s.pidx[k - 1] \in Nat
      <4>1. k - 1 \in 0 .. len - 1
        BY <1>0, <2>3, <2>4
      <4>2. s.pidx \in [0 .. len - 1 -> 0 .. len - 1]
        BY <2>2 DEF OrderOK, Inverses
      <4> HIDE DEF s, k
      <4>3. s.pidx[k - 1] \in 0 .. len - 1
        BY <4>1, <4>2
      <4> QED BY <1>0, <4>3
    <3>2. Answer(s, Found("prev", i, s.pidx[k - 1]))
      BY <1>3, <2>4 DEF PrevShuffled
    <3> QED BY <1>3, <2>2, <3>1, <3>2, AnswerKeepsInv, RepliesAreReplies
  <2>5. CASE ~(k > 0) /\ ~repeat
    <3>1. Answer(s, NotFound("prev", i))
      BY <1>3, <2>5 DEF PrevShuffled
    <3> QED BY <1>3, <2>2, <3>1, AnswerKeepsInv, RepliesAreReplies
  <2>6. CASE ~(k > 0) /\ repeat
    <3>1. PICK o \in AllDrawn(s) : Answer(o, Found("prev", i, o.pidx[len - 1]))
      BY <1>3, <2>6 DEF PrevShuffled
    <3>2. OrderOK(o, len)
      BY <1>0, <2>2, <3>1, AllDrawnKeepsOrder
    <3>3. o.pidx[len - 1] \in Nat
      BY <1>0, <2>1, <3>2 DEF OrderOK, Inverses
    <3> QED BY <1>3, <3>1, <3>2, <3>3, AnswerKeepsInv, RepliesAreReplies
  <2> QED BY <2>4, <2>5, <2>6
<1> QED BY <1>1, <1>2, <1>3 DEF pls_get_prev

LEMMA WalkKeepsInv ==
  ASSUME Inv, Walk
  PROVE  Inv'
BY BoundsAssumption, EndsKeepInv, NextKeepsInv, PrevKeepsInv DEF Walk

-----------------------------------------------------------------------------
(* Theorems *)

\* A step of SafeNext keeps the invariant.
LEMMA SafeNextKeepsInv == Inv /\ [SafeNext]_vars => Inv'
<1> SUFFICES ASSUME Inv, [SafeNext]_vars PROVE Inv'
  OBVIOUS
<1>1. CASE Walk
  BY <1>1, WalkKeepsInv
<1>2. CASE SafeEdits
  BY <1>2, SafeEditsKeepInv
<1>3. CASE Settle
  BY <1>3, SettleKeepsInv
<1>4. CASE UNCHANGED vars
  BY <1>4 DEF vars, content, Inv, TypeOK, PlsCheck, PoolInRange,
              TimerOnlyWhenDirty, Idx
<1> QED BY <1>1, <1>2, <1>3, <1>4 DEF SafeNext

\* Every reachable playlist has the types of the structure Pls.
THEOREM TypeCorrect == SafeSpec => []TypeOK
<1>1. Init => Inv
  BY InitInv
<1>2. Inv /\ [SafeNext]_vars => Inv'
  BY SafeNextKeepsInv
<1>3. Inv => TypeOK
  BY DEF Inv
<1> QED BY <1>1, <1>2, <1>3, PTL DEF SafeSpec

\* pls_check() holds of every reachable playlist: pidx and iidx are inverse
\* permutations, and the pool starts within them.
THEOREM PermutationsHold == SafeSpec => [](PlsCheck /\ PoolInRange)
<1>1. Init => Inv
  BY InitInv
<1>2. Inv /\ [SafeNext]_vars => Inv'
  BY SafeNextKeepsInv
<1>3. Inv => PlsCheck /\ PoolInRange
  BY DEF Inv
<1> QED BY <1>1, <1>2, <1>3, PTL DEF SafeSpec

\* g_assert(pls->dirty) in ops_settled() never fails.
THEOREM SettledAssertHolds == SafeSpec => []TimerOnlyWhenDirty
<1>1. Init => Inv
  BY InitInv
<1>2. Inv /\ [SafeNext]_vars => Inv'
  BY SafeNextKeepsInv
<1>3. Inv => TimerOnlyWhenDirty
  BY DEF Inv
<1> QED BY <1>1, <1>2, <1>3, PTL DEF SafeSpec

\* Without any restriction on the callers, the one operation that can break a
\* well-formed playlist is the removal of a played element while others wait
\* in the pool.
THEOREM OnlyHolesBreak ==
  Spec => [][Inv /\ ~Inv' => \E idx \in Idx : LeavesHole(idx) /\ pls_remove(idx)]_vars
<1>1. ASSUME [Next]_vars
      PROVE  [Inv /\ ~Inv' => \E idx \in Idx : LeavesHole(idx) /\ pls_remove(idx)]_vars
  <2>1. CASE SafeNext
    BY <2>1, SafeNextKeepsInv
  <2>2. ASSUME NEW idx \in Idx, LeavesHole(idx), pls_remove(idx)
        PROVE  \E j \in Idx : LeavesHole(j) /\ pls_remove(j)
    BY <2>2
  <2>3. CASE UNCHANGED vars
    BY <2>3
  <2> QED BY <1>1, <2>1, <2>2, <2>3 DEF Next, SafeNext, SafeEdits
<1> QED BY <1>1, PTL DEF Spec

-----------------------------------------------------------------------------
(* Walking the play order *)

\* s has the places that o has given, and perhaps more of them.
Continues(s, o, n) ==
  /\ OrderOK(s, n) /\ OrderOK(o, n) /\ o.poolst <= s.poolst
  /\ \A j \in 0 .. o.poolst - 1 : s.pidx[j] = o.pidx[j]

\* Which element is at a place, and the place of an element.
LEMMA PlacesOf ==
  ASSUME NEW n \in Nat, NEW o, OrderOK(o, n)
  PROVE  /\ o.poolst \in 0 .. n
         /\ \A k \in 0 .. n - 1 : o.pidx[k] \in 0 .. n - 1 /\ o.iidx[o.pidx[k]] = k
         /\ \A i \in 0 .. n - 1 : o.iidx[i] \in 0 .. n - 1 /\ o.pidx[o.iidx[i]] = i
BY DEF OrderOK, Inverses

\* A place given to an element of the pool is the next one.
LEMMA PlacedIs ==
  ASSUME NEW n \in Nat, NEW o, OrderOK(o, n), NEW k \in o.poolst .. n - 1
  PROVE  /\ Continues(Placed(o, k), o, n)
         /\ Placed(o, k).poolst = o.poolst + 1
         /\ Placed(o, k).pidx[o.poolst] = o.pidx[k]
<1>1. o.poolst \in 0 .. n - 1 /\ k \in 0 .. n - 1
  BY DEF OrderOK
<1>2. OrderOK(Placed(o, k), n) /\ Placed(o, k).poolst = o.poolst + 1
  BY PlacedKeepsOrder
<1>3. PICK s : s = swap_elements(o, o.poolst, k)
  OBVIOUS
<1>4. OrderOK(s, n) /\ s.poolst = o.poolst
  BY <1>1, <1>3, SwapKeepsOrder
<1>5. PICK p : p = [o.pidx EXCEPT ![o.poolst] = o.pidx[k], ![k] = o.pidx[o.poolst]]
  OBVIOUS
<1>6. s.pidx = p
  <2>1. PICK q : q = [o.iidx EXCEPT ![p[o.poolst]] = o.poolst, ![p[k]] = k]
    OBVIOUS
  <2>2. s = [[o EXCEPT !.pidx = p] EXCEPT !.iidx = q]
    BY <1>3, <1>5, <2>1 DEF swap_elements
  <2>3. s = [pidx |-> p, iidx |-> q, poolst |-> o.poolst]
    BY <2>2 DEF OrderOK
  <2> QED BY <2>3
<1>7. Placed(o, k).pidx = p
  <2>1. Placed(o, k) = [s EXCEPT !.poolst = o.poolst + 1]
    BY <1>3, <1>4 DEF Placed
  <2>2. Placed(o, k) = [pidx |-> s.pidx, iidx |-> s.iidx, poolst |-> o.poolst + 1]
    BY <1>4, <2>1 DEF OrderOK
  <2> QED BY <1>6, <2>2
<1>8. p[o.poolst] = o.pidx[k] /\ \A j \in 0 .. o.poolst - 1 : p[j] = o.pidx[j]
  <2>1. o.pidx \in [0 .. n - 1 -> 0 .. n - 1]
    BY DEF OrderOK, Inverses
  <2>2. o.poolst \in 0 .. n - 1 /\ k \in 0 .. n - 1 /\ o.poolst <= k
    BY <1>1
  <2>3. p[o.poolst] = o.pidx[k]
    BY <1>5, <2>1, <2>2
  <2>4. ASSUME NEW j \in 0 .. o.poolst - 1 PROVE p[j] = o.pidx[j]
    <3>1. j \in 0 .. n - 1 /\ j # o.poolst /\ j # k
      BY <2>2
    <3> QED BY <1>5, <2>1, <3>1
  <2> QED BY <2>3, <2>4
<1> QED BY <1>1, <1>2, <1>7, <1>8 DEF Continues

\* The same for one random draw, and for drawing the whole pool.
LEMMA DrawnIs ==
  ASSUME len \in Nat, NEW o, OrderOK(o, len), NEW d \in Drawn(o)
  PROVE  /\ Continues(d, o, len) /\ d.poolst = o.poolst + 1
         /\ \E k \in o.poolst .. len - 1 : d.pidx[o.poolst] = o.pidx[k]
BY PlacedIs DEF Drawn

LEMMA AllDrawnIs ==
  ASSUME len \in Nat, NEW o, OrderOK(o, len), NEW d \in AllDrawn(o)
  PROVE  Continues(d, o, len) /\ d.poolst = len
<1>1. OrderOK(d, len) /\ d.poolst = len
  BY AllDrawnKeepsOrder
<1>2. PICK p \in [Idx -> Idx] :
        /\ d = [pidx |-> p, iidx |-> Reindexed(p, len, o.iidx), poolst |-> len]
        /\ \A k \in 0 .. o.poolst - 1 : p[k] = o.pidx[k]
  BY DEF AllDrawn
<1>3. d.pidx = p
  BY <1>2
<1> QED BY <1>1, <1>2, <1>3 DEF Continues, OrderOK

\* The element asked about has its place; it is the next one if it was in the pool.
LEMMA ShownIs ==
  ASSUME Inv, shuffled, NEW i \in 0 .. len - 1
  PROVE  /\ len \in Nat
         /\ Continues(Shown(i), Order, len)
         /\ iidx[i] < poolst => Shown(i) = Order /\ Shown(i).iidx[i] = iidx[i]
         /\ iidx[i] >= poolst => /\ Shown(i).poolst = poolst + 1
                                 /\ Shown(i).pidx[poolst] = i /\ Shown(i).iidx[i] = poolst
         /\ Shown(i).iidx[i] \in 0 .. Shown(i).poolst - 1
<1>1. len \in Nat /\ OrderOK(Order, len)
  BY OrderOfInv DEF Inv, TypeOK
<1>2. Order.poolst = poolst /\ Order.iidx = iidx /\ Order.pidx = pidx
  BY DEF Order
<1>3. iidx[i] \in 0 .. len - 1 /\ pidx[iidx[i]] = i /\ poolst \in 0 .. len
  BY <1>1, <1>2, PlacesOf
<1>4. CASE iidx[i] < poolst
  <2>1. Shown(i) = Order
    BY <1>3, <1>4 DEF Shown
  <2> QED BY <1>1, <1>2, <1>3, <1>4, <2>1 DEF Continues
<1>5. CASE iidx[i] >= poolst
  <2>1. Shown(i) = Placed(Order, iidx[i])
    BY <1>5 DEF Shown
  <2>2. iidx[i] \in Order.poolst .. len - 1
    BY <1>2, <1>3, <1>5
  <2>3. /\ Continues(Shown(i), Order, len) /\ Shown(i).poolst = poolst + 1
        /\ Shown(i).pidx[poolst] = i
    BY <1>1, <1>2, <1>3, <2>1, <2>2, PlacedIs
  <2>4. Shown(i).iidx[i] = poolst
    <3>1. poolst \in 0 .. len - 1
      BY <1>1, <1>3, <1>5
    <3>2. OrderOK(Shown(i), len)
      BY <2>3 DEF Continues
    <3> QED BY <1>1, <2>3, <3>1, <3>2, PlacesOf
  <2> QED BY <1>1, <1>3, <1>5, <2>3, <2>4
<1> QED BY <1>3, <1>4, <1>5

-----------------------------------------------------------------------------
(* Answers *)

\* What an answer says of the order it leaves.
LEMMA AnswerLeaves ==
  ASSUME NEW o, NEW r, Answer(o, r)
  PROVE  /\ len' = len /\ vidx' = vidx /\ repeat' = repeat /\ shuffled' = shuffled
         /\ pidx' = o.pidx /\ iidx' = o.iidx /\ poolst' = o.poolst /\ reply' = r
BY DEF Answer

\* The turn of position i, by the order o.
TurnIn(o, i) == IF shuffled THEN o.iidx[i] ELSE i

\* What an answer is to say of the order it leaves: that there is nothing, or position i.
NoneTrue(op, from, o) ==
  op \in {"next", "prev"} /\ from < len =>
    /\ ~repeat
    /\ op = "next" => TurnIn(o, from) = len - 1 /\ (shuffled => o.poolst = len)
    /\ op = "prev" => TurnIn(o, from) = 0

FoundTrue(op, from, i, o) ==
  LET cyclic == repeat \/ op \in {"starting", "last"}
  IN  /\ i \in Idx
      /\ shuffled => o.iidx[i] < o.poolst
      /\ op = "starting" => TurnIn(o, i) = 0
      /\ op = "last" => TurnIn(o, i) = len - 1
      /\ op = "next" => /\ from \in Idx
                        /\ \/ TurnIn(o, i) = TurnIn(o, from) + 1
                           \/ cyclic /\ TurnIn(o, from) = len - 1 /\ TurnIn(o, i) = 0
      /\ op = "prev" => /\ from \in Idx
                        /\ \/ TurnIn(o, from) = TurnIn(o, i) + 1
                           \/ cyclic /\ TurnIn(o, i) = len - 1 /\ TurnIn(o, from) = 0

\* An answer that says so makes ReplyIsNeighbour true.
LEMMA AnswerFound ==
  ASSUME NEW o, NEW op, NEW from, NEW i, Answer(o, Found(op, from, i)), FoundTrue(op, from, i, o)
  PROVE  ReplyIsNeighbour'
<1>1. PICK r : r = Found(op, from, i)
  OBVIOUS
<1>2. r.op = op /\ r.from = from /\ r.ok = TRUE /\ r.index = i
  BY <1>1 DEF Found
<1>3. /\ len' = len /\ repeat' = repeat /\ shuffled' = shuffled /\ Idx' = Idx
      /\ iidx' = o.iidx /\ poolst' = o.poolst /\ reply' = r
  BY <1>1, AnswerLeaves DEF Idx
<1>4. \A j : Turn(j)' = TurnIn(o, j)
  BY <1>3 DEF Turn, TurnIn
<1>5. EndIsReal'
  BY <1>2, <1>3 DEF EndIsReal
<1> QED BY <1>2, <1>3, <1>4, <1>5 DEF ReplyIsNeighbour, FoundTrue

LEMMA AnswerNone ==
  ASSUME NEW o, NEW op, NEW from, Answer(o, NotFound(op, from)), NoneTrue(op, from, o)
  PROVE  ReplyIsNeighbour'
<1>1. PICK r : r = NotFound(op, from)
  OBVIOUS
<1>2. r.op = op /\ r.from = from /\ r.ok = FALSE
  BY <1>1 DEF NotFound
<1>3. /\ len' = len /\ repeat' = repeat /\ shuffled' = shuffled
      /\ iidx' = o.iidx /\ poolst' = o.poolst /\ reply' = r
  BY <1>1, AnswerLeaves
<1>4. \A j : Turn(j)' = TurnIn(o, j)
  BY <1>3 DEF Turn, TurnIn
<1>5. EndIsReal'
  BY <1>2, <1>3, <1>4 DEF EndIsReal, NoneTrue
<1> QED BY <1>2, <1>3, <1>5 DEF ReplyIsNeighbour

\* An element that has its place, at an end of the order, is a true answer.
LEMMA EndsTrue ==
  ASSUME NEW o, NEW i \in Idx, shuffled => o.iidx[i] < o.poolst
  PROVE  /\ TurnIn(o, i) = 0 => FoundTrue("starting", 0, i, o)
         /\ TurnIn(o, i) = len - 1 => FoundTrue("last", 0, i, o)
BY DEF FoundTrue

\* Every walk answers the truth.
LEMMA EndsAnswerTrue ==
  ASSUME Inv, pls_get_starting \/ pls_get_last
  PROVE  ReplyIsNeighbour'
<1>0. len \in Nat /\ len > 0 /\ 0 \in Idx /\ len - 1 \in Idx
  BY DEF Inv, TypeOK, pls_get_starting, pls_get_last, Idx
<1>1. CASE ~shuffled
  <2>1. TurnIn(Order, 0) = 0 /\ TurnIn(Order, len - 1) = len - 1
    BY <1>1 DEF TurnIn
  <2>2. /\ FoundTrue("starting", 0, 0, Order)
        /\ FoundTrue("last", 0, len - 1, Order)
    BY <1>0, <1>1, <2>1, EndsTrue
  <2> QED BY <1>1, <2>2, AnswerFound DEF pls_get_starting, pls_get_last
<1>2. CASE pls_get_starting /\ shuffled
  <2>1. PICK o \in IF poolst = 0 THEN Drawn(Order) ELSE {Order} :
          Answer(o, Found("starting", 0, o.pidx[0]))
    BY <1>2 DEF pls_get_starting
  <2>2. OrderOK(Order, len) /\ Order.poolst = poolst
    BY <1>2, OrderOfInv DEF Order
  <2>3. OrderOK(o, len) /\ o.poolst > 0
    BY <1>0, <2>1, <2>2, DrawnKeepsOrder DEF OrderOK
  <2>4. o.pidx[0] \in Idx /\ o.iidx[o.pidx[0]] = 0
    BY <1>0, <2>3, PlacesOf DEF Idx
  <2>5. FoundTrue("starting", 0, o.pidx[0], o)
    BY <1>2, <2>3, <2>4, EndsTrue DEF TurnIn
  <2> QED BY <2>1, <2>5, AnswerFound
<1>3. CASE pls_get_last /\ shuffled
  <2>1. PICK o \in AllDrawn(Order) : Answer(o, Found("last", 0, o.pidx[len - 1]))
    BY <1>3 DEF pls_get_last
  <2>2. OrderOK(o, len) /\ o.poolst = len
    BY <1>0, <1>3, <2>1, OrderOfInv, AllDrawnKeepsOrder
  <2>3. o.pidx[len - 1] \in Idx /\ o.iidx[o.pidx[len - 1]] = len - 1
    BY <1>0, <2>2, PlacesOf DEF Idx
  <2>4. FoundTrue("last", 0, o.pidx[len - 1], o)
    BY <1>0, <1>3, <2>2, <2>3, EndsTrue DEF TurnIn
  <2> QED BY <2>1, <2>4, AnswerFound
<1> QED BY <1>1, <1>2, <1>3

LEMMA NextAnswerTrue ==
  ASSUME Inv, NEW i \in Nat, pls_get_next(i)
  PROVE  ReplyIsNeighbour'
<1>0. len \in Nat
  BY DEF Inv, TypeOK
<1>1. CASE i >= len /\ Answer(Order, NotFound("next", i))
  <2>1. NoneTrue("next", i, Order)
    BY <1>0, <1>1 DEF NoneTrue
  <2> QED BY <1>1, <2>1, AnswerNone
<1>2. CASE i < len /\ ~shuffled /\ NextUnshuffled(i)
  <2>1. \A j : TurnIn(Order, j) = j
    BY <1>2 DEF TurnIn
  <2>2. CASE i < len - 1
    <3>1. FoundTrue("next", i, i + 1, Order)
      BY <1>0, <1>2, <2>1, <2>2 DEF FoundTrue, Idx
    <3> QED BY <1>2, <2>2, <3>1, AnswerFound DEF NextUnshuffled
  <2>3. CASE ~(i < len - 1) /\ repeat
    <3>1. i = len - 1 /\ 0 \in Idx /\ i \in Idx
      BY <1>0, <1>2, <2>3 DEF Idx
    <3>2. FoundTrue("next", i, 0, Order)
      BY <1>2, <2>1, <2>3, <3>1 DEF FoundTrue
    <3> QED BY <1>2, <2>3, <3>2, AnswerFound DEF NextUnshuffled
  <2>4. CASE ~(i < len - 1) /\ ~repeat
    <3>1. i = len - 1
      BY <1>0, <1>2, <2>4
    <3>2. NoneTrue("next", i, Order)
      BY <1>2, <2>1, <2>4, <3>1 DEF NoneTrue
    <3> QED BY <1>2, <2>4, <3>2, AnswerNone DEF NextUnshuffled
  <2> QED BY <2>2, <2>3, <2>4
<1>3. CASE i < len /\ shuffled /\ NextShuffled(i)
  <2>1. PICK s : s = Shown(i)
    OBVIOUS
  <2>2. i \in 0 .. len - 1 /\ i \in Idx
    BY <1>0, <1>3 DEF Idx
  <2>3. /\ Continues(s, Order, len) /\ OrderOK(s, len) /\ OrderOK(Order, len)
        /\ iidx[i] < poolst => s = Order
        /\ iidx[i] >= poolst => s.poolst = poolst + 1 /\ s.iidx[i] = poolst
    BY <1>3, <2>1, <2>2, ShownIs DEF Continues
  <2>4. Order.poolst = poolst /\ Order.iidx = iidx /\ Order.pidx = pidx
    BY DEF Order
  <2>5. iidx[i] \in 0 .. len - 1 /\ poolst \in 0 .. len
    BY <1>0, <2>2, <2>3, <2>4, PlacesOf
  <2>6. CASE iidx[i] + 1 < poolst
    <3>1. PICK j : j = pidx[iidx[i] + 1]
      OBVIOUS
    <3>2. j \in Idx /\ iidx[j] = iidx[i] + 1
      BY <1>0, <2>3, <2>4, <2>5, <2>6, <3>1, PlacesOf DEF Idx
    <3>3. FoundTrue("next", i, j, Order)
      BY <1>3, <2>2, <2>4, <2>6, <3>2 DEF FoundTrue, TurnIn
    <3> QED BY <1>3, <2>6, <3>1, <3>3, AnswerFound DEF NextShuffled
  <2>7. ASSUME ~(iidx[i] + 1 < poolst)
        PROVE  s.iidx[i] = s.poolst - 1 /\ s.poolst \in 1 .. len
    <3>1. s.poolst \in 0 .. len
      BY <1>0, <2>3, PlacesOf
    <3>2. CASE iidx[i] < poolst
      <4>1. iidx[i] = poolst - 1
        BY <1>0, <2>5, <2>7, <3>2
      <4>2. s.iidx[i] = s.poolst - 1 /\ s.poolst = poolst
        BY <2>3, <2>4, <3>2, <4>1
      <4> QED BY <1>0, <2>5, <3>1, <3>2, <4>1, <4>2
    <3>3. CASE iidx[i] >= poolst
      BY <1>0, <2>3, <2>5, <3>1, <3>3
    <3> QED BY <1>0, <2>5, <3>2, <3>3
  <2>8. CASE ~(iidx[i] + 1 < poolst) /\ s.poolst < len
    <3>1. PICK o \in Drawn(s) : Answer(o, Found("next", i, o.pidx[o.poolst - 1]))
      BY <1>3, <2>1, <2>8 DEF NextShuffled
    <3>2. Continues(o, s, len) /\ OrderOK(o, len) /\ o.poolst = s.poolst + 1
      BY <1>0, <2>3, <3>1, DrawnIs DEF Continues
    <3>3. PICK j : j = o.pidx[o.poolst - 1]
      OBVIOUS
    <3>4. j \in Idx /\ o.iidx[j] = s.poolst
      BY <1>0, <2>7, <2>8, <3>2, <3>3, PlacesOf DEF Idx
    <3>5. o.iidx[i] = s.poolst - 1
      <4>1. s.pidx[s.poolst - 1] = i
        BY <1>0, <2>2, <2>3, <2>7, <2>8, PlacesOf
      <4>2. o.pidx[s.poolst - 1] = i
        BY <2>7, <2>8, <3>2, <4>1 DEF Continues
      <4>3. s.poolst - 1 \in 0 .. len - 1
        BY <1>0, <2>7, <2>8
      <4> QED BY <1>0, <3>2, <4>2, <4>3, PlacesOf
    <3>6. FoundTrue("next", i, j, o)
      BY <1>3, <2>2, <2>7, <2>8, <3>2, <3>4, <3>5 DEF FoundTrue, TurnIn
    <3> QED BY <3>1, <3>3, <3>6, AnswerFound
  <2>9. CASE ~(iidx[i] + 1 < poolst) /\ ~(s.poolst < len)
    <3>1. Answer(s, IF repeat THEN Found("next", i, s.pidx[0]) ELSE NotFound("next", i))
      BY <1>3, <2>1, <2>9 DEF NextShuffled
    <3>2. s.poolst = len /\ s.iidx[i] = len - 1
      BY <1>0, <2>7, <2>9
    <3>3. s.pidx[0] \in Idx /\ s.iidx[s.pidx[0]] = 0
      BY <1>0, <2>2, <2>3, PlacesOf DEF Idx
    <3>4. CASE repeat
      <4>1. FoundTrue("next", i, s.pidx[0], s)
        BY <1>0, <1>3, <2>2, <3>2, <3>3, <3>4 DEF FoundTrue, TurnIn
      <4> QED BY <3>1, <3>4, <4>1, AnswerFound
    <3>5. CASE ~repeat
      <4>1. NoneTrue("next", i, s)
        BY <1>3, <3>2, <3>5 DEF NoneTrue, TurnIn
      <4> QED BY <3>1, <3>5, <4>1, AnswerNone
    <3> QED BY <3>4, <3>5
  <2> QED BY <2>6, <2>8, <2>9
<1> QED BY <1>1, <1>2, <1>3 DEF pls_get_next

LEMMA PrevAnswerTrue ==
  ASSUME Inv, NEW i \in Nat, pls_get_prev(i)
  PROVE  ReplyIsNeighbour'
<1>0. len \in Nat
  BY DEF Inv, TypeOK
<1>1. CASE i >= len /\ Answer(Order, NotFound("prev", i))
  <2>1. NoneTrue("prev", i, Order)
    BY <1>0, <1>1 DEF NoneTrue
  <2> QED BY <1>1, <2>1, AnswerNone
<1>2. CASE i < len /\ ~shuffled /\ PrevUnshuffled(i)
  <2>1. \A j : TurnIn(Order, j) = j
    BY <1>2 DEF TurnIn
  <2>2. CASE i > 0
    <3>1. FoundTrue("prev", i, i - 1, Order)
      BY <1>0, <1>2, <2>1, <2>2 DEF FoundTrue, Idx
    <3> QED BY <1>2, <2>2, <3>1, AnswerFound DEF PrevUnshuffled
  <2>3. CASE ~(i > 0) /\ repeat
    <3>1. i = 0 /\ len - 1 \in Idx /\ i \in Idx
      BY <1>0, <1>2, <2>3 DEF Idx
    <3>2. FoundTrue("prev", i, len - 1, Order)
      BY <1>2, <2>1, <2>3, <3>1 DEF FoundTrue
    <3> QED BY <1>2, <2>3, <3>2, AnswerFound DEF PrevUnshuffled
  <2>4. CASE ~(i > 0) /\ ~repeat
    <3>1. NoneTrue("prev", i, Order)
      BY <1>2, <2>1, <2>4 DEF NoneTrue
    <3> QED BY <1>2, <2>4, <3>1, AnswerNone DEF PrevUnshuffled
  <2> QED BY <2>2, <2>3, <2>4
<1>3. CASE i < len /\ shuffled /\ PrevShuffled(i)
  <2>1. PICK s, k : s = Shown(i) /\ k = s.iidx[i]
    OBVIOUS
  <2>2. i \in 0 .. len - 1 /\ i \in Idx
    BY <1>0, <1>3 DEF Idx
  <2>3. OrderOK(s, len) /\ k \in 0 .. s.poolst - 1 /\ k \in 0 .. len - 1
    BY <1>0, <1>3, <2>1, <2>2, ShownIs, PlacesOf DEF Continues
  <2>4. CASE k > 0
    <3>1. PICK j : j = s.pidx[k - 1]
      OBVIOUS
    <3>2. j \in Idx /\ s.iidx[j] = k - 1
      BY <1>0, <2>3, <2>4, <3>1, PlacesOf DEF Idx
    <3>3. s.iidx[j] < s.poolst /\ s.iidx[i] = s.iidx[j] + 1
      BY <1>0, <2>1, <2>3, <2>4, <3>2, PlacesOf
    <3>4. FoundTrue("prev", i, j, s)
      BY <1>3, <2>2, <3>2, <3>3 DEF FoundTrue, TurnIn
    <3>5. Answer(s, Found("prev", i, j))
      BY <1>3, <2>1, <2>4, <3>1 DEF PrevShuffled
    <3> QED BY <3>4, <3>5, AnswerFound
  <2>5. CASE ~(k > 0) /\ ~repeat
    <3>1. NoneTrue("prev", i, s)
      BY <1>3, <2>1, <2>3, <2>5 DEF NoneTrue, TurnIn
    <3> QED BY <1>3, <2>1, <2>5, <3>1, AnswerNone DEF PrevShuffled
  <2>6. CASE ~(k > 0) /\ repeat
    <3>1. PICK o \in AllDrawn(s) : Answer(o, Found("prev", i, o.pidx[len - 1]))
      BY <1>3, <2>1, <2>6 DEF PrevShuffled
    <3>2. Continues(o, s, len) /\ OrderOK(o, len) /\ o.poolst = len
      BY <1>0, <2>3, <3>1, AllDrawnIs DEF Continues
    <3>3. PICK j : j = o.pidx[len - 1]
      OBVIOUS
    <3>4. j \in Idx /\ o.iidx[j] = len - 1
      BY <1>0, <2>2, <3>2, <3>3, PlacesOf DEF Idx
    <3>5. o.iidx[i] = 0
      <4>1. k = 0 /\ s.pidx[0] = i /\ 0 \in 0 .. s.poolst - 1
        BY <1>0, <2>1, <2>2, <2>3, <2>6, PlacesOf
      <4>2. o.pidx[0] = i
        BY <3>2, <4>1 DEF Continues
      <4> QED BY <1>0, <2>3, <3>2, <4>1, <4>2, PlacesOf
    <3>6. FoundTrue("prev", i, j, o)
      BY <1>0, <1>3, <2>2, <2>6, <3>2, <3>4, <3>5 DEF FoundTrue, TurnIn
    <3> QED BY <3>1, <3>3, <3>6, AnswerFound
  <2> QED BY <2>4, <2>5, <2>6
<1> QED BY <1>1, <1>2, <1>3 DEF pls_get_prev

\* An edit takes the last answer back; nothing else but a walk touches what it is about.
LEMMA NextAnswersTrue ==
  ASSUME Inv, ReplyIsNeighbour, [SafeNext]_vars
  PROVE  ReplyIsNeighbour'
<1>1. CASE Walk
  BY <1>1, EndsAnswerTrue, NextAnswerTrue, PrevAnswerTrue, BoundsAssumption DEF Walk
<1>2. CASE SafeEdits
  <2>1. reply' = NoReply
    BY <1>2 DEF SafeEdits, OtherEdits, pls_inserts, pls_remove, pls_move, pls_clear,
                pls_shuffle, pls_unshuffle, pls_set_repeat, i_am_dirty
  <2>2. ~reply'.ok /\ reply'.op = "none"
    BY <2>1 DEF NoReply
  <2> QED BY <2>2 DEF ReplyIsNeighbour, EndIsReal
<1>3. CASE UNCHANGED <<content, reply>>
  BY <1>3 DEF content, ReplyIsNeighbour, EndIsReal, Turn, Idx
<1> QED BY <1>1, <1>2, <1>3 DEF SafeNext, Settle, ops_settled, vars

\* A player is told the neighbour of the element it asked about, and that there is none
\* only where there is none.
THEOREM NeighboursHold == SafeSpec => []ReplyIsNeighbour
<1>1. Init => Inv /\ ReplyIsNeighbour
  <2>1. ASSUME Init PROVE ReplyIsNeighbour
    <3>1. ~reply.ok /\ reply.op = "none"
      BY <2>1 DEF Init, NoReply
    <3> QED BY <3>1 DEF ReplyIsNeighbour, EndIsReal
  <2> QED BY <2>1, InitInv
<1>2. Inv /\ ReplyIsNeighbour /\ [SafeNext]_vars => (Inv /\ ReplyIsNeighbour)'
  BY NextAnswersTrue, SafeNextKeepsInv
<1> QED BY <1>1, <1>2, PTL DEF SafeSpec

-----------------------------------------------------------------------------
(* The play order of PlayOrder, and the arrays *)

\* The first n elements of an array, as a sequence.
Listed(v, n) == [k \in 1 .. n |-> v[k - 1]]

\* The variables of PlayOrder; PlayedOf(o) is the last of them for an order o.
PlayedOf(o) == Listed(o.pidx, o.poolst)
Items == Listed(vidx, len)
Played == IF shuffled THEN Listed(pidx, poolst) ELSE [k \in 1 .. 0 |-> 0]

\* A listed array is a sequence of its elements.
LEMMA ListedAre ==
  ASSUME NEW S, NEW n \in Nat, NEW p, \A k \in 1 .. n : p[k - 1] \in S
  PROVE  /\ Listed(p, n) \in Seq(S) /\ Len(Listed(p, n)) = n
         /\ DOMAIN Listed(p, n) = 1 .. n
         /\ \A k \in 1 .. n : Listed(p, n)[k] = p[k - 1]
BY DEF Listed

\* In particular the items, and the positions that have a place.
LEMMA ItemsAre ==
  ASSUME NEW S, NEW n \in Nat, NEW v \in [0 .. n - 1 -> S]
  PROVE  /\ Listed(v, n) \in Seq(S) /\ Len(Listed(v, n)) = n
         /\ \A i \in 1 .. n : Listed(v, n)[i] = v[i - 1] /\ v[i - 1] \in S
<1>1. \A i \in 1 .. n : v[i - 1] \in S
  OBVIOUS
<1> QED BY <1>1 DEF Listed

LEMMA PlayedAre ==
  ASSUME NEW n \in Nat, NEW o, OrderOK(o, n)
  PROVE  /\ PlayedOf(o) \in Seq(0 .. n - 1) /\ Len(PlayedOf(o)) = o.poolst
         /\ DOMAIN PlayedOf(o) = 1 .. o.poolst
         /\ \A k \in 1 .. o.poolst : PlayedOf(o)[k] = o.pidx[k - 1]
         /\ \A k \in 1 .. o.poolst : k - 1 \in 0 .. n - 1 /\ o.pidx[k - 1] \in 0 .. n - 1
<1>1. o.poolst \in 0 .. n /\ \A k \in 0 .. n - 1 : o.pidx[k] \in 0 .. n - 1
  BY PlacesOf
<1>2. \A k \in 1 .. o.poolst : k - 1 \in 0 .. n - 1 /\ o.pidx[k - 1] \in 0 .. n - 1
  BY <1>1
<1>3. o.poolst \in Nat
  BY <1>1
<1>4. PICK p, k : p = o.pidx /\ k = o.poolst
  OBVIOUS
<1>5. /\ Listed(p, k) \in Seq(0 .. n - 1) /\ Len(Listed(p, k)) = k
      /\ DOMAIN Listed(p, k) = 1 .. k
      /\ \A i \in 1 .. k : Listed(p, k)[i] = p[i - 1]
  <2>1. k \in Nat /\ \A i \in 1 .. k : p[i - 1] \in 0 .. n - 1
    BY <1>2, <1>3, <1>4
  <2>2. PICK S : S = 0 .. n - 1
    OBVIOUS
  <2>3. k \in Nat /\ \A i \in 1 .. k : p[i - 1] \in S
    BY <2>1, <2>2
  <2>4. /\ Listed(p, k) \in Seq(S) /\ Len(Listed(p, k)) = k
        /\ DOMAIN Listed(p, k) = 1 .. k
        /\ \A i \in 1 .. k : Listed(p, k)[i] = p[i - 1]
    BY ONLY <2>3, ListedAre
  <2> QED BY ONLY <2>2, <2>4
<1> QED BY <1>2, <1>4, <1>5 DEF PlayedOf

\* The beginning and the end of a sequence.
LEMMA FrontOf ==
  ASSUME NEW S, NEW s \in Seq(S), NEW n \in 0 .. Len(s)
  PROVE  /\ SubSeq(s, 1, n) \in Seq(S)
         /\ Len(SubSeq(s, 1, n)) = n
         /\ \A i \in 1 .. n : SubSeq(s, 1, n)[i] = s[i]
<1>1. Len(s) \in Nat /\ \A i \in 1 .. Len(s) : s[i] \in S
  OBVIOUS
<1>2. 1 \in Int /\ n \in Int /\ \A i \in 1 .. n : s[i] \in S
  BY <1>1
<1>4. /\ SubSeq(s, 1, n) \in Seq(S) /\ Len(SubSeq(s, 1, n)) = IF 1 <= n THEN n - 1 + 1 ELSE 0
      /\ \A i \in 1 .. n - 1 + 1 : SubSeq(s, 1, n)[i] = s[1 + i - 1]
  BY <1>2, SubSeqProperties
<1>6. Len(SubSeq(s, 1, n)) = n /\ n - 1 + 1 = n
  BY <1>1, <1>4
<1>8. \A i \in 1 .. n : 1 + i - 1 = i
  BY <1>1
<1>10. \A i \in 1 .. n : SubSeq(s, 1, n)[i] = s[i]
  BY <1>4, <1>6, <1>8
<1> QED BY ONLY <1>4, <1>6, <1>10, Zenon

LEMMA RestOf ==
  ASSUME NEW S, NEW s \in Seq(S), NEW n \in 0 .. Len(s)
  PROVE  /\ SubSeq(s, n + 1, Len(s)) \in Seq(S)
         /\ Len(SubSeq(s, n + 1, Len(s))) = Len(s) - n
         /\ \A i \in 1 .. Len(s) - n : SubSeq(s, n + 1, Len(s))[i] = s[n + i]
<1>1. Len(s) \in Nat /\ \A i \in 1 .. Len(s) : s[i] \in S
  OBVIOUS
<1>2. n + 1 \in Int /\ Len(s) \in Int /\ \A i \in n + 1 .. Len(s) : s[i] \in S
  BY <1>1
<1>5. /\ SubSeq(s, n + 1, Len(s)) \in Seq(S)
      /\ Len(SubSeq(s, n + 1, Len(s))) = IF n + 1 <= Len(s) THEN Len(s) - (n + 1) + 1 ELSE 0
      /\ \A i \in 1 .. Len(s) - (n + 1) + 1 : SubSeq(s, n + 1, Len(s))[i] = s[n + 1 + i - 1]
  BY <1>2, SubSeqProperties
<1>7. Len(SubSeq(s, n + 1, Len(s))) = Len(s) - n /\ Len(s) - (n + 1) + 1 = Len(s) - n
  BY <1>1, <1>5
<1>9. \A i \in 1 .. Len(s) - n : n + 1 + i - 1 = n + i
  BY <1>1
<1>11. \A i \in 1 .. Len(s) - n : SubSeq(s, n + 1, Len(s))[i] = s[n + i]
  BY <1>5, <1>7, <1>9
<1> QED BY ONLY <1>5, <1>7, <1>11, Zenon

\* z is a, b and c in a row: Joined says so of a \o b \o c.
JoinedAs(a, b, c, z, S) ==
  /\ z \in Seq(S) /\ Len(z) = Len(a) + Len(b) + Len(c)
  /\ \A i \in 1 .. Len(a) + Len(b) + Len(c) :
       z[i] = IF i <= Len(a) THEN a[i]
              ELSE IF i <= Len(a) + Len(b) THEN b[i - Len(a)]
              ELSE c[i - Len(a) - Len(b)]

LEMMA Joined ==
  ASSUME NEW S, NEW a \in Seq(S), NEW b \in Seq(S), NEW c \in Seq(S)
  PROVE  JoinedAs(a, b, c, a \o b \o c, S)
<1>0. Len(a) \in Nat /\ Len(b) \in Nat /\ Len(c) \in Nat
  OBVIOUS
<1>1. PICK d : d = a \o b
  OBVIOUS
<1>a. d \in Seq(S)
  BY <1>1
<1>2. /\ Len(d) = Len(a) + Len(b)
      /\ \A i \in 1 .. Len(a) + Len(b) : d[i] = IF i <= Len(a) THEN a[i] ELSE b[i - Len(a)]
  BY <1>1, ConcatProperties
<1>3. PICK e : e = d \o c
  OBVIOUS
<1>b. e \in Seq(S)
  BY <1>3, <1>a
<1>4. /\ Len(e) = Len(d) + Len(c)
      /\ \A i \in 1 .. Len(d) + Len(c) : e[i] = IF i <= Len(d) THEN d[i] ELSE c[i - Len(d)]
  BY <1>3, <1>a, ConcatProperties
<1>5. Len(e) = Len(a) + Len(b) + Len(c)
  BY <1>0, <1>2, <1>4
<1>6. ASSUME NEW i \in 1 .. Len(a) + Len(b) + Len(c)
      PROVE  e[i] = IF i <= Len(a) THEN a[i]
                    ELSE IF i <= Len(a) + Len(b) THEN b[i - Len(a)]
                    ELSE c[i - Len(a) - Len(b)]
  <2>1. i \in Nat /\ i \in 1 .. Len(d) + Len(c)
    BY <1>0, <1>2
  <2>2. e[i] = IF i <= Len(d) THEN d[i] ELSE c[i - Len(d)]
    BY <1>4, <2>1
  <2>3. CASE i <= Len(a) + Len(b)
    <3>1. i \in 1 .. Len(a) + Len(b)
      BY <1>0, <2>3
    <3>2. d[i] = IF i <= Len(a) THEN a[i] ELSE b[i - Len(a)]
      BY <1>2, <3>1
    <3>3. e[i] = d[i]
      BY <1>2, <2>2, <2>3
    <3> QED BY <1>0, <2>3, <3>2, <3>3
  <2>4. CASE ~(i <= Len(a) + Len(b))
    <3>1. ~(i <= Len(a)) /\ i - Len(d) = i - Len(a) - Len(b)
      BY <1>0, <1>2, <2>4
    <3>2. e[i] = c[i - Len(a) - Len(b)]
      BY <1>2, <2>2, <2>4, <3>1
    <3> QED BY <2>4, <3>1, <3>2
  <2> QED BY <2>3, <2>4
<1>7. JoinedAs(a, b, c, e, S)
  BY <1>b, <1>5, <1>6 DEF JoinedAs
<1> QED BY <1>1, <1>3, <1>7

\* The items, as a sequence, determine each other.
LEMMA ListedEqual ==
  ASSUME NEW S, NEW n \in Nat, NEW w, NEW s \in Seq(S), Len(s) = n,
         \A i \in 1 .. n : w[i - 1] = s[i]
  PROVE  Listed(w, n) = s
<1>1. s \in [1 .. n -> S]
  OBVIOUS
<1>2. PICK f : f = [k \in 1 .. n |-> w[k - 1]]
  OBVIOUS
<1>3. f = s
  BY <1>1, <1>2
<1> QED BY <1>2, <1>3 DEF Listed

\* The arrays the edits make.
Inserted(v, m, new, n, at) ==
  [i \in 0 .. m + n - 1 |->
     IF i < at THEN v[i] ELSE IF i < at + n THEN new[i - at + 1] ELSE v[i - n]]
Removed(v, m, at) == [i \in 0 .. m - 2 |-> IF i < at THEN v[i] ELSE v[i + 1]]
Moved(v, m, from, to) ==
  [i \in 0 .. m - 1 |->
     IF i = to THEN v[from]
     ELSE IF from <= i /\ i < to THEN v[i + 1]
     ELSE IF to < i /\ i <= from THEN v[i - 1] ELSE v[i]]

\* The sequence s with the items of new before the one at position "at".
With(s, new, at) == SubSeq(s, 1, at) \o new \o SubSeq(s, at + 1, Len(s))

\* An array with elements inserted, removed or moved, as a sequence.
LEMMA InsertedItems ==
  ASSUME NEW S, NEW m \in Nat, NEW n \in Nat, NEW v \in [0 .. m - 1 -> S],
         NEW new \in [1 .. n -> S], NEW at \in 0 .. m
  PROVE  /\ Listed(Inserted(v, m, new, n, at), m + n) = With(Listed(v, m), new, at)
         /\ Inserted(v, m, new, n, at) \in [0 .. m + n - 1 -> S]
<1>0. PICK w : w = Inserted(v, m, new, n, at)
  OBVIOUS
<1>a. /\ Listed(v, m) \in Seq(S) /\ Len(Listed(v, m)) = m
      /\ \A i \in 1 .. m : Listed(v, m)[i] = v[i - 1] /\ v[i - 1] \in S
  BY ItemsAre, Zenon
<1>1. PICK s : s = Listed(v, m)
  OBVIOUS
<1>2. s \in Seq(S) /\ Len(s) = m /\ \A i \in 1 .. m : s[i] = v[i - 1]
  BY <1>a, <1>1, Zenon
<1>3. at \in 0 .. Len(s)
  BY <1>2
<1>4. PICK a : a = SubSeq(s, 1, at)
  OBVIOUS
<1>5. a \in Seq(S) /\ Len(a) = at /\ \A i \in 1 .. at : a[i] = s[i]
  BY <1>2, <1>3, <1>4, FrontOf, Zenon
<1>6. PICK c : c = SubSeq(s, at + 1, Len(s))
  OBVIOUS
<1>7. c \in Seq(S) /\ Len(c) = Len(s) - at /\ \A i \in 1 .. Len(s) - at : c[i] = s[at + i]
  BY <1>2, <1>3, <1>6, RestOf, Zenon
<1>8. new \in Seq(S) /\ Len(new) = n
  OBVIOUS
<1>9. PICK z : z = a \o new \o c
  OBVIOUS
<1>10. /\ z \in Seq(S) /\ Len(z) = Len(a) + Len(new) + Len(c)
       /\ \A i \in 1 .. Len(a) + Len(new) + Len(c) :
             z[i] = IF i <= Len(a) THEN a[i]
                    ELSE IF i <= Len(a) + Len(new) THEN new[i - Len(a)]
                    ELSE c[i - Len(a) - Len(new)]
  <2>1. a \in Seq(S) /\ new \in Seq(S) /\ c \in Seq(S)
    BY <1>5, <1>7, <1>8
  <2>2. JoinedAs(a, new, c, a \o new \o c, S)
    BY ONLY <2>1, Joined, Zenon
  <2> QED BY ONLY <1>9, <2>2 DEF JoinedAs
<1>11. Len(z) = m + n
  BY <1>2, <1>5, <1>7, <1>8, <1>10
<1>12. \A i \in 1 .. m + n : z[i] = IF i <= at THEN a[i] ELSE IF i <= at + n THEN new[i - at]
                                    ELSE c[i - at - n]
  BY <1>5, <1>8, <1>10, <1>11
<1>13. ASSUME NEW i \in 1 .. m + n PROVE w[i - 1] = z[i]
  <2>0. i - 1 \in 0 .. m + n - 1
    OBVIOUS
  <2>1. w[i - 1] = IF i - 1 < at THEN v[i - 1]
                   ELSE IF i - 1 < at + n THEN new[i - 1 - at + 1] ELSE v[i - 1 - n]
    BY <1>0, <2>0 DEF Inserted
  <2>2. CASE i <= at
    <3>1. i \in 1 .. m /\ i \in 1 .. at /\ i - 1 < at
      BY <2>2
    <3> QED BY <1>2, <1>5, <1>12, <2>1, <2>2, <3>1
  <2>3. CASE at < i /\ i <= at + n
    <3>1. ~(i - 1 < at) /\ i - 1 < at + n /\ i - 1 - at + 1 = i - at /\ ~(i <= at)
      BY <2>3
    <3> QED BY <1>12, <2>1, <2>3, <3>1
  <2>4. CASE at + n < i
    <3>1. /\ ~(i - 1 < at) /\ ~(i - 1 < at + n) /\ ~(i <= at) /\ ~(i <= at + n)
          /\ i - at - n \in 1 .. m - at /\ i - n \in 1 .. m
          /\ at + (i - at - n) = i - n /\ i - n - 1 = i - 1 - n
      BY <2>4
    <3>2. c[i - at - n] = s[i - n]
      BY <1>2, <1>7, <3>1
    <3>3. s[i - n] = v[i - 1 - n]
      BY <1>2, <3>1
    <3>4. z[i] = c[i - at - n]
      BY <1>12, <3>1
    <3>5. w[i - 1] = v[i - 1 - n]
      BY <2>1, <3>1
    <3> QED BY <3>2, <3>3, <3>4, <3>5
  <2> QED BY <2>2, <2>3, <2>4
<1>14. Listed(w, m + n) = z
  <2>1. m + n \in Nat
    OBVIOUS
  <2> QED BY <1>10, <1>11, <1>13, <2>1, ListedEqual, Zenon
<1>15. ASSUME NEW i \in 0 .. m + n - 1
       PROVE  (IF i < at THEN v[i] ELSE IF i < at + n THEN new[i - at + 1] ELSE v[i - n]) \in S
  <2>1. CASE i < at
    BY <2>1
  <2>2. CASE ~(i < at) /\ i < at + n
    <3>1. i - at + 1 \in 1 .. n
      BY <2>2
    <3> QED BY <2>2, <3>1
  <2>3. CASE ~(i < at) /\ ~(i < at + n)
    <3>1. i - n \in 0 .. m - 1
      BY <2>3
    <3> QED BY <2>3, <3>1
  <2> QED BY <2>1, <2>2, <2>3
<1>16. w \in [0 .. m + n - 1 -> S]
  BY <1>0, <1>15 DEF Inserted
<1> QED BY <1>0, <1>1, <1>4, <1>6, <1>9, <1>14, <1>16 DEF With

LEMMA RemovedItems ==
  ASSUME NEW S, NEW m \in Nat, NEW v \in [0 .. m - 1 -> S], NEW at \in 0 .. m - 1
  PROVE  /\ Listed(Removed(v, m, at), m - 1) = SubSeq(Listed(v, m), 1, at)
                                  \o SubSeq(Listed(v, m), at + 2, Len(Listed(v, m)))
         /\ Removed(v, m, at) \in [0 .. (m - 1) - 1 -> S]
<1>0. PICK w : w = Removed(v, m, at)
  OBVIOUS
<1>a. /\ Listed(v, m) \in Seq(S) /\ Len(Listed(v, m)) = m
      /\ \A i \in 1 .. m : Listed(v, m)[i] = v[i - 1] /\ v[i - 1] \in S
  BY ItemsAre, Zenon
<1>1. PICK s : s = Listed(v, m)
  OBVIOUS
<1>2. s \in Seq(S) /\ Len(s) = m /\ \A i \in 1 .. m : s[i] = v[i - 1]
  BY <1>a, <1>1, Zenon
<1>3. at \in 0 .. Len(s) /\ at + 1 \in 0 .. Len(s)
  BY <1>2
<1>4. PICK a : a = SubSeq(s, 1, at)
  OBVIOUS
<1>5. a \in Seq(S) /\ Len(a) = at /\ \A i \in 1 .. at : a[i] = s[i]
  BY <1>2, <1>3, <1>4, FrontOf, Zenon
<1>6. PICK c : c = SubSeq(s, at + 1 + 1, Len(s))
  OBVIOUS
<1>7. /\ c \in Seq(S) /\ Len(c) = Len(s) - (at + 1)
      /\ \A i \in 1 .. Len(s) - (at + 1) : c[i] = s[at + 1 + i]
  BY <1>2, <1>3, <1>6, RestOf, Zenon
<1>8. PICK z : z = a \o c
  OBVIOUS
<1>9. /\ z \in Seq(S) /\ Len(z) = Len(a) + Len(c)
      /\ \A i \in 1 .. Len(a) + Len(c) : z[i] = IF i <= Len(a) THEN a[i] ELSE c[i - Len(a)]
  BY <1>5, <1>7, <1>8, ConcatProperties, Zenon
<1>10. Len(z) = m - 1
  BY <1>2, <1>5, <1>7, <1>9
<1>11. \A i \in 1 .. m - 1 : z[i] = IF i <= at THEN a[i] ELSE c[i - at]
  BY <1>5, <1>9, <1>10
<1>12. ASSUME NEW i \in 1 .. m - 1 PROVE w[i - 1] = z[i]
  <2>0. i - 1 \in 0 .. m - 2
    OBVIOUS
  <2>1. w[i - 1] = IF i - 1 < at THEN v[i - 1] ELSE v[i - 1 + 1]
    BY <1>0, <2>0 DEF Removed
  <2>2. CASE i <= at
    <3>1. i \in 1 .. m /\ i \in 1 .. at /\ i - 1 < at
      BY <2>2
    <3> QED BY <1>2, <1>5, <1>11, <2>1, <2>2, <3>1
  <2>3. CASE at < i
    <3>1. /\ ~(i - 1 < at) /\ ~(i <= at) /\ i - at \in 1 .. m - (at + 1) /\ i + 1 \in 1 .. m
          /\ at + 1 + (i - at) = i + 1 /\ (i + 1) - 1 = i - 1 + 1
      BY <2>3
    <3>2. c[i - at] = s[i + 1]
      BY <1>2, <1>7, <3>1
    <3>3. s[i + 1] = v[i - 1 + 1]
      BY <1>2, <3>1
    <3>4. z[i] = c[i - at]
      BY <1>11, <3>1
    <3>5. w[i - 1] = v[i - 1 + 1]
      BY <2>1, <3>1
    <3> QED BY <3>2, <3>3, <3>4, <3>5
  <2> QED BY <2>2, <2>3
<1>13. m - 1 \in Nat
  OBVIOUS
<1>14. Listed(w, m - 1) = z
  BY <1>9, <1>10, <1>12, <1>13, ListedEqual, Zenon
<1>15. w \in [0 .. (m - 1) - 1 -> S]
  <2>1. (m - 1) - 1 = m - 2
    OBVIOUS
  <2>2. \A i \in 0 .. m - 2 : (IF i < at THEN v[i] ELSE v[i + 1]) \in S
    OBVIOUS
  <2> QED BY <1>0, <2>1, <2>2 DEF Removed
<1>16. at + 1 + 1 = at + 2
  OBVIOUS
<1> QED BY <1>0, <1>1, <1>4, <1>6, <1>8, <1>14, <1>15, <1>16

\* Moving is removing and inserting again.
LEMMA MovedItems ==
  ASSUME NEW S, NEW m \in Nat, NEW v \in [0 .. m - 1 -> S],
         NEW from \in 0 .. m - 1, NEW to \in 0 .. m - 1
  PROVE  LET rest == SubSeq(Listed(v, m), 1, from)
                       \o SubSeq(Listed(v, m), from + 2, Len(Listed(v, m)))
         IN  Listed(Moved(v, m, from, to), m) =
               SubSeq(rest, 1, to) \o <<Listed(v, m)[from + 1]>>
                 \o SubSeq(rest, to + 1, Len(rest))
<1>0. PICK w : w = Moved(v, m, from, to)
  OBVIOUS
<1>1. PICK u : u = Removed(v, m, from)
  OBVIOUS
<1>2. /\ Listed(u, m - 1) = SubSeq(Listed(v, m), 1, from)
                               \o SubSeq(Listed(v, m), from + 2, Len(Listed(v, m)))
      /\ u \in [0 .. (m - 1) - 1 -> S]
  BY <1>1, RemovedItems, Zenon
<1>3. PICK new : new = <<Listed(v, m)[from + 1]>>
  OBVIOUS
<1>4. Listed(v, m)[from + 1] = v[from] /\ v[from] \in S
  <2>1. \A i \in 1 .. m : Listed(v, m)[i] = v[i - 1] /\ v[i - 1] \in S
    BY ItemsAre, Zenon
  <2>2. from + 1 \in 1 .. m /\ from + 1 - 1 = from
    OBVIOUS
  <2> QED BY <2>1, <2>2
<1>5. new \in [1 .. 1 -> S] /\ new[1] = v[from]
  BY <1>3, <1>4
<1>6. PICK x : x = Inserted(u, m - 1, new, 1, to)
  OBVIOUS
<1>7. m - 1 \in Nat /\ 1 \in Nat /\ to \in 0 .. m - 1
  OBVIOUS
<1>8. Listed(x, (m - 1) + 1) = With(Listed(u, m - 1), new, to)
  <2>1. PICK p, one : p = m - 1 /\ one = 1
    OBVIOUS
  <2>2. /\ p \in Nat /\ one \in Nat /\ to \in 0 .. p
        /\ u \in [0 .. p - 1 -> S] /\ new \in [1 .. one -> S]
    BY <1>2, <1>5, <1>7, <2>1
  <2>3. /\ Listed(Inserted(u, p, new, one, to), p + one) = With(Listed(u, p), new, to)
        /\ Inserted(u, p, new, one, to) \in [0 .. p + one - 1 -> S]
    BY ONLY <2>2, InsertedItems, Zenon
  <2> QED BY ONLY <1>6, <2>1, <2>3
<1>9. x = w
  <2>1. (m - 1) + 1 - 1 = m - 1
    OBVIOUS
  <2>2. x = [i \in 0 .. m - 1 |->
               IF i < to THEN u[i] ELSE IF i < to + 1 THEN new[i - to + 1] ELSE u[i - 1]]
    BY <1>6, <2>1 DEF Inserted
  <2>3. ASSUME NEW i \in 0 .. m - 1
        PROVE  x[i] = IF i = to THEN v[from]
                      ELSE IF from <= i /\ i < to THEN v[i + 1]
                      ELSE IF to < i /\ i <= from THEN v[i - 1] ELSE v[i]
    <3>0. /\ i < to => u[i] = IF i < from THEN v[i] ELSE v[i + 1]
          /\ i > to => u[i - 1] = IF i - 1 < from THEN v[i - 1] ELSE v[i - 1 + 1]
      BY <1>1 DEF Removed
    <3>1. CASE i < to
      BY <2>2, <3>0, <3>1
    <3>2. CASE i = to
      <4>1. i - to + 1 = 1
        BY <3>2
      <4> QED BY <1>5, <2>2, <3>2, <4>1
    <3>3. CASE i > to
      <4>1. i - 1 + 1 = i
        OBVIOUS
      <4>2. x[i] = u[i - 1]
        BY <2>2, <3>3
      <4> QED BY <3>0, <3>3, <4>1, <4>2
    <3> QED BY <3>1, <3>2, <3>3
  <2> QED BY <1>0, <2>2, <2>3 DEF Moved
<1>10. (m - 1) + 1 = m
  OBVIOUS
<1> QED BY <1>0, <1>2, <1>3, <1>8, <1>9, <1>10 DEF With

-----------------------------------------------------------------------------
(* The actions of PlayOrder, said of Items and Played *)

\* What each action of PlayOrder asks for.
LEMMA InsertOfPlayOrder ==
  ASSUME NEW at, NEW new, Len(Items) + Len(new) <= MaxLen, Items' = With(Items, new, at),
         Played' = [k \in DOMAIN Played |->
                      IF Played[k] >= at THEN Played[k] + Len(new) ELSE Played[k]],
         reply' = NoReply, UNCHANGED <<repeat, shuffled>>
  PROVE  PO!Insert(at, new)
BY DEF PO!Insert, PO!NoReply, NoReply, Items, Played, Listed, With

\* The sequence s without the item at position "at".
Without(s, at) == SubSeq(s, 1, at) \o SubSeq(s, at + 2, Len(s))

LEMMA RemoveOfPlayOrder ==
  ASSUME NEW at, Items' = Without(Items, at), Played' = PO!Dropped(at),
         reply' = NoReply, UNCHANGED <<repeat, shuffled>>
  PROVE  PO!Remove(at)
BY DEF PO!Remove, PO!NoReply, NoReply, Items, Played, Listed, Without

\* The play order p without position "at", which has the turns given, if any.
TurnsOf(p, at) == {k \in DOMAIN p : p[k] = at}
LessOne(i, at) == IF i > at THEN i - 1 ELSE i
StaysIn(turns, k) == IF \E t \in turns : t <= k THEN k + 1 ELSE k
DropOf(p, turns, at) ==
  [k \in 1 .. (IF turns = {} THEN Len(p) ELSE Len(p) - 1) |->
     LessOne(p[StaysIn(turns, k)], at)]

\* It is what PlayOrder leaves of its play order.
LEMMA DroppedIs ==
  ASSUME NEW at
  PROVE  PO!Dropped(at) = DropOf(Played, TurnsOf(Played, at), at)
<1>1. PO!Dropped(at) = DropOf(Played, PO!Turns(at), at)
  BY DEF PO!Dropped, DropOf, LessOne, StaysIn, Played, Listed
<1>2. PO!Turns(at) = TurnsOf(Played, at)
  BY DEF PO!Turns, TurnsOf, Played, Listed
<1> QED BY <1>1, <1>2

LEMMA MoveOfPlayOrder ==
  ASSUME NEW from, NEW to,
         Items' = With(Without(Items, from), <<Items[from + 1]>>, to), Played' = Played,
         reply' = NoReply, UNCHANGED <<repeat, shuffled>>
  PROVE  PO!Move(from, to)
BY DEF PO!Move, PO!NoReply, NoReply, Items, Played, Listed, With, Without

LEMMA ClearOfPlayOrder ==
  ASSUME Items' = <<>>, Played' = <<>>, reply' = NoReply, UNCHANGED <<repeat, shuffled>>
  PROVE  PO!Clear
BY DEF PO!Clear, PO!NoReply, NoReply, Items, Played, Listed

LEMMA ShuffleOfPlayOrder ==
  ASSUME NEW on, Items' = Items, Played' = <<>>, reply' = NoReply, shuffled' = on, repeat' = repeat
  PROVE  PO!Shuffle(on)
BY DEF PO!Shuffle, PO!NoReply, NoReply, Items, Played, Listed

LEMMA SetRepeatOfPlayOrder ==
  ASSUME NEW on, Items' = Items, Played' = Played, reply' = NoReply, repeat' = on,
         shuffled' = shuffled
  PROVE  PO!SetRepeat(on)
BY DEF PO!SetRepeat, PO!NoReply, NoReply, Items, Played, Listed

LEMMA WalkOfPlayOrder ==
  ASSUME NEW q, NEW r, Items' = Items, Played' = q, reply' = r, repeat' = repeat,
         shuffled' = shuffled
  PROVE  PO!Walk(q, r)
BY DEF PO!Walk, Items, Played, Listed

LEMMA RepliesOfPlayOrder ==
  /\ PO!NoReply = NoReply
  /\ \A op, from, i : PO!Found(op, from, i) = Found(op, from, i)
  /\ \A op, from : PO!NotFound(op, from) = NotFound(op, from)
BY DEF PO!NoReply, NoReply, PO!Found, Found, PO!NotFound, NotFound

LEMMA PositionsOfPlayOrder ==
  /\ PO!Positions = 0 .. Len(Items) - 1
  /\ PO!Pool = (0 .. Len(Items) - 1) \ {Played[k] : k \in DOMAIN Played}
  /\ \A i : PO!Placing(i) = IF i \in PO!Pool THEN Append(Played, i) ELSE Played
BY DEF PO!Positions, PO!Pool, PO!Placing, Items, Played, Listed

-----------------------------------------------------------------------------
(* Every edit is an edit of the play order *)

\* The variables of PlayOrder, in a state that satisfies the invariant.
LEMMA ItemsNow ==
  ASSUME Inv
  PROVE  /\ len \in Nat /\ vidx \in [0 .. len - 1 -> OIDs]
         /\ Items = Listed(vidx, len) /\ Items \in Seq(OIDs) /\ Len(Items) = len
<1>1. len \in Nat /\ vidx \in [0 .. len - 1 -> OIDs]
  BY DEF Inv, TypeOK, Idx
<1>2. Items = Listed(vidx, len)
  BY DEF Items
<1>3. Listed(vidx, len) \in Seq(OIDs) /\ Len(Listed(vidx, len)) = len
  BY <1>1, ItemsAre
<1> QED BY <1>1, <1>2, <1>3

\* An empty list.
LEMMA NoneIs == \A p : Listed(p, 0) = <<>> /\ [k \in 1 .. 0 |-> 0] = <<>>
BY DEF Listed

LEMMA PlayedNow ==
  ASSUME Inv
  PROVE  /\ ~shuffled => Played = <<>>
         /\ shuffled => /\ Played = Listed(pidx, poolst) /\ poolst \in 0 .. len
                        /\ Played \in Seq(0 .. len - 1) /\ Len(Played) = poolst
                        /\ DOMAIN Played = 1 .. poolst
                        /\ \A k \in 1 .. poolst : /\ Played[k] = pidx[k - 1]
                                                  /\ k - 1 \in 0 .. len - 1
                                                  /\ pidx[k - 1] \in 0 .. len - 1
<1>1. CASE ~shuffled
  BY <1>1, NoneIs DEF Played
<1>2. CASE shuffled
  <2>1. len \in Nat /\ OrderOK(Order, len)
    BY <1>2, OrderOfInv DEF Inv, TypeOK
  <2>2. Order.pidx = pidx /\ Order.poolst = poolst
    BY DEF Order
  <2>3. Played = Listed(pidx, poolst) /\ Played = PlayedOf(Order)
    BY <1>2, <2>2 DEF Played, PlayedOf
  <2>4. poolst \in 0 .. len
    BY <2>1, <2>2, PlacesOf
  <2>5. /\ PlayedOf(Order) \in Seq(0 .. len - 1) /\ Len(PlayedOf(Order)) = Order.poolst
        /\ DOMAIN PlayedOf(Order) = 1 .. Order.poolst
        /\ \A k \in 1 .. Order.poolst : PlayedOf(Order)[k] = Order.pidx[k - 1]
        /\ \A k \in 1 .. Order.poolst : k - 1 \in 0 .. len - 1 /\ Order.pidx[k - 1] \in 0 .. len - 1
    BY ONLY <2>1, PlayedAre, Zenon
  <2> QED BY <1>2, <2>2, <2>3, <2>4, <2>5
<1> QED BY <1>1, <1>2

\* The new positions join the pool at its end; the places given are renumbered.
LEMMA InsertIsInsert ==
  ASSUME Inv, NEW n \in 1 .. MaxInsert, NEW oids \in [1 .. n -> OIDs], NEW idx \in 0 .. len,
         pls_inserts(idx, oids, n)
  PROVE  PO!Insert(idx, oids)
<1>1. n \in Nat /\ Len(oids) = n
  BY BoundsAssumption
<1>2. /\ len + n <= MaxLen /\ len' = len + n /\ vidx' = Inserted(vidx, len, oids, n, idx)
      /\ reply' = NoReply /\ repeat' = repeat /\ shuffled' = shuffled /\ poolst' = poolst
      /\ shuffled => pidx' = [k \in 0 .. len + n - 1 |->
                                IF k >= len THEN idx + (k - len)
                                ELSE IF pidx[k] >= idx THEN pidx[k] + n ELSE pidx[k]]
  BY DEF pls_inserts, i_am_dirty, Inserted
<1>3. Items' = With(Items, oids, idx)
  <2>1. len \in Nat /\ vidx \in [0 .. len - 1 -> OIDs] /\ Items = Listed(vidx, len)
    BY ItemsNow
  <2>2. /\ Listed(Inserted(vidx, len, oids, n, idx), len + n) = With(Listed(vidx, len), oids, idx)
        /\ Inserted(vidx, len, oids, n, idx) \in [0 .. len + n - 1 -> OIDs]
    <3>1. /\ n \in Nat /\ len \in Nat /\ idx \in 0 .. len
          /\ vidx \in [0 .. len - 1 -> OIDs] /\ oids \in [1 .. n -> OIDs]
      BY <1>1, <2>1
    <3> QED BY ONLY <3>1, InsertedItems, Zenon
  <2> QED BY <1>2, <2>1, <2>2 DEF Items
<1>4. Played' = [k \in DOMAIN Played |->
                   IF Played[k] >= idx THEN Played[k] + Len(oids) ELSE Played[k]]
  <2>1. CASE ~shuffled
    BY <1>2, <2>1 DEF Played
  <2>2. CASE shuffled
    <3>1. /\ poolst \in 0 .. len /\ DOMAIN Played = 1 .. poolst /\ len \in Nat
          /\ \A k \in 1 .. poolst : Played[k] = pidx[k - 1] /\ k - 1 \in 0 .. len - 1
      BY <2>2, PlayedNow, ItemsNow
    <3>2. PICK f : f = [k \in 1 .. poolst |-> IF Played[k] >= idx THEN Played[k] + n ELSE Played[k]]
      OBVIOUS
    <3>3. ASSUME NEW k \in 1 .. poolst PROVE pidx'[k - 1] = f[k]
      <4>1. k - 1 \in 0 .. len + n - 1 /\ ~(k - 1 >= len)
        BY <1>1, <3>1
      <4>2. pidx'[k - 1] = IF pidx[k - 1] >= idx THEN pidx[k - 1] + n ELSE pidx[k - 1]
        BY <1>2, <2>2, <4>1
      <4> QED BY <3>1, <3>2, <4>2
    <3>4. Listed(pidx', poolst) = f
      BY <3>1, <3>2, <3>3 DEF Listed
    <3> QED BY <1>1, <1>2, <2>2, <3>1, <3>2, <3>4 DEF Played
  <2> QED BY <2>1, <2>2
<1>5. Len(Items) + Len(oids) <= MaxLen
  BY <1>1, <1>2, ItemsNow
<1> QED BY <1>2, <1>3, <1>4, <1>5, InsertOfPlayOrder

\* Edits that give and take no place ...
LEMMA MoveIsMove ==
  ASSUME Inv, NEW from \in Idx, NEW to \in Idx, pls_move(from, to)
  PROVE  PO!Move(from, to)
<1>1. /\ len' = len /\ vidx' = Moved(vidx, len, from, to) /\ reply' = NoReply
      /\ repeat' = repeat /\ shuffled' = shuffled /\ poolst' = poolst /\ pidx' = pidx
  BY DEF pls_move, i_am_dirty, Moved, Idx
<1>2. len \in Nat /\ vidx \in [0 .. len - 1 -> OIDs] /\ Items = Listed(vidx, len)
  BY ItemsNow
<1>3. from \in 0 .. len - 1 /\ to \in 0 .. len - 1
  BY DEF Idx
<1>4. Listed(Moved(vidx, len, from, to), len)
        = With(Without(Listed(vidx, len), from), <<Listed(vidx, len)[from + 1]>>, to)
  BY <1>2, <1>3, MovedItems DEF With, Without
<1>5. Items' = With(Without(Items, from), <<Items[from + 1]>>, to)
  BY <1>1, <1>2, <1>4 DEF Items
<1>6. Played' = Played
  BY <1>1 DEF Played
<1> QED BY <1>1, <1>5, <1>6, MoveOfPlayOrder

LEMMA ClearIsClear ==
  ASSUME pls_clear
  PROVE  PO!Clear
<1>1. /\ len' = 0 /\ poolst' = 0 /\ reply' = NoReply /\ repeat' = repeat /\ shuffled' = shuffled
  BY DEF pls_clear, i_am_dirty
<1>2. Items' = <<>> /\ Played' = <<>>
  BY <1>1, NoneIs DEF Items, Played
<1> QED BY <1>1, <1>2, ClearOfPlayOrder

LEMMA ShuffleIsShuffle ==
  ASSUME pls_shuffle \/ pls_unshuffle
  PROVE  \E on \in BOOLEAN : PO!Shuffle(on)
<1>1. Items' = Items /\ reply' = NoReply /\ repeat' = repeat
  BY DEF pls_shuffle, pls_unshuffle, i_am_dirty, Items
<1>2. CASE pls_shuffle
  <2>1. shuffled' = TRUE /\ poolst' = 0
    BY <1>2 DEF pls_shuffle
  <2>2. Played' = <<>>
    BY <2>1, NoneIs DEF Played
  <2> QED BY <1>1, <2>1, <2>2, ShuffleOfPlayOrder
<1>3. CASE pls_unshuffle
  <2>1. shuffled' = FALSE
    BY <1>3 DEF pls_unshuffle
  <2>2. Played' = <<>>
    BY <2>1, NoneIs DEF Played
  <2> QED BY <1>1, <2>1, <2>2, ShuffleOfPlayOrder
<1> QED BY <1>2, <1>3

LEMMA RepeatIsRepeat ==
  ASSUME NEW on \in BOOLEAN, pls_set_repeat(on)
  PROVE  PO!SetRepeat(on)
<1>1. /\ len' = len /\ vidx' = vidx /\ reply' = NoReply /\ repeat' = on
      /\ shuffled' = shuffled /\ poolst' = poolst /\ pidx' = pidx
  BY DEF pls_set_repeat, i_am_dirty
<1>2. Items' = Items /\ Played' = Played
  BY <1>1 DEF Items, Played
<1> QED BY <1>1, <1>2, SetRepeatOfPlayOrder

\* ... and the one that may take one away: the places after it move up.
LEMMA RemoveIsRemove ==
  ASSUME Inv, NEW idx \in Idx, pls_remove(idx)
  PROVE  PO!Remove(idx)
<1>0. len \in Nat /\ vidx \in [0 .. len - 1 -> OIDs] /\ Items = Listed(vidx, len) /\ idx \in 0 .. len - 1
  BY ItemsNow DEF Idx
<1>1. /\ len' = len - 1 /\ vidx' = Removed(vidx, len, idx) /\ reply' = NoReply
      /\ repeat' = repeat /\ shuffled' = shuffled
      /\ shuffled => pidx' = RemovedPidx(idx)
      /\ poolst' = IF shuffled /\ iidx[idx] < poolst THEN poolst - 1 ELSE poolst
  BY DEF pls_remove, i_am_dirty, Removed
<1>2. Items' = Without(Items, idx)
  <2>1. Listed(Removed(vidx, len, idx), len - 1)
          = SubSeq(Listed(vidx, len), 1, idx)
              \o SubSeq(Listed(vidx, len), idx + 2, Len(Listed(vidx, len)))
    BY <1>0, RemovedItems
  <2> QED BY <1>0, <1>1, <2>1 DEF Items, Without
<1>3. Played' = DropOf(Played, TurnsOf(Played, idx), idx)
  <2>1. CASE ~shuffled
    <3>1. Played = <<>> /\ Played' = <<>>
      BY <1>1, <2>1, NoneIs DEF Played
    <3>2. TurnsOf(Played, idx) = {}
      BY <3>1 DEF TurnsOf
    <3> QED BY <3>1, <3>2 DEF DropOf
  <2>2. CASE shuffled
    <3>1. /\ poolst \in 0 .. len /\ Len(Played) = poolst /\ DOMAIN Played = 1 .. poolst
          /\ \A k \in 1 .. poolst : /\ Played[k] = pidx[k - 1] /\ k - 1 \in 0 .. len - 1
                                    /\ pidx[k - 1] \in 0 .. len - 1
      BY <2>2, PlayedNow
    <3>2. PICK opx : opx = iidx[idx]
      OBVIOUS
    <3>3. OrderOK(Order, len) /\ Order.pidx = pidx /\ Order.iidx = iidx
      BY <2>2, OrderOfInv DEF Order
    <3>4. /\ opx \in 0 .. len - 1 /\ pidx[opx] = idx
          /\ \A k \in 0 .. len - 1 : pidx[k] = idx => k = opx
      <4>1. /\ \A k \in 0 .. len - 1 : iidx[pidx[k]] = k
            /\ \A i \in 0 .. len - 1 : iidx[i] \in 0 .. len - 1 /\ pidx[iidx[i]] = i
        BY <1>0, <3>3, PlacesOf
      <4>2. idx \in 0 .. len - 1
        BY <1>0
      <4> QED BY <3>2, <4>1, <4>2
    <3>5. \A k \in 0 .. len - 1 : Renumbered(idx)[k] = LessOne(pidx[k], idx)
      BY DEF Renumbered, LessOne, Idx
    <3>6. CASE opx < poolst
      <4>1. poolst' = poolst - 1 /\ poolst - 1 \in Nat
        BY <1>0, <1>1, <2>2, <3>1, <3>2, <3>4, <3>6
      <4>2. TurnsOf(Played, idx) = {opx + 1}
        <5>1. opx + 1 \in 1 .. poolst /\ opx + 1 - 1 = opx
          BY <1>0, <3>1, <3>4, <3>6
        <5>2. ASSUME NEW k \in 1 .. poolst, Played[k] = idx PROVE k = opx + 1
          <6>1. pidx[k - 1] = idx /\ k - 1 \in 0 .. len - 1
            BY <3>1, <5>2
          <6>2. k - 1 = opx
            BY <3>4, <6>1
          <6> QED BY <3>1, <3>4, <6>2
        <5> QED BY <3>1, <3>4, <5>1, <5>2 DEF TurnsOf
      <4>3. PICK f : f = [k \in 1 .. poolst - 1 |-> LessOne(Played[StaysIn({opx + 1}, k)], idx)]
        OBVIOUS
      <4>4. DropOf(Played, {opx + 1}, idx) = f
        BY <3>1, <4>3 DEF DropOf
      <4>5. ASSUME NEW k \in 1 .. poolst - 1 PROVE pidx'[k - 1] = f[k]
        <5>1. /\ k - 1 \in 0 .. len - 2 /\ k - 1 < poolst - 1 /\ k \in 0 .. len - 1 /\ k - 1 \in 0 .. len - 1
              /\ k \in 1 .. poolst /\ k + 1 \in 1 .. poolst /\ (k - 1) + 1 = k /\ (k + 1) - 1 = k
          BY <1>0, <3>1
        <5>2. pidx'[k - 1] = IF opx <= k - 1 THEN Renumbered(idx)[k] ELSE Renumbered(idx)[k - 1]
          BY <1>1, <2>2, <3>2, <3>6, <5>1 DEF RemovedPidx
        <5>3. StaysIn({opx + 1}, k) = IF opx <= k - 1 THEN k + 1 ELSE k
          BY <1>0, <3>4 DEF StaysIn
        <5>4. Played[k] = pidx[k - 1] /\ Played[k + 1] = pidx[k]
          BY <3>1, <5>1
        <5>5. CASE opx <= k - 1
          <6>1. f[k] = LessOne(Played[k + 1], idx)
            BY <4>3, <5>3, <5>5
          <6> QED BY <3>5, <5>1, <5>2, <5>4, <5>5, <6>1
        <5>6. CASE ~(opx <= k - 1)
          <6>1. f[k] = LessOne(Played[k], idx)
            BY <4>3, <5>3, <5>6
          <6> QED BY <3>5, <5>1, <5>2, <5>4, <5>6, <6>1
        <5> QED BY <5>5, <5>6
      <4>6. Listed(pidx', poolst - 1) = f
        BY <4>3, <4>5 DEF Listed
      <4> QED BY <1>1, <2>2, <4>1, <4>2, <4>4, <4>6 DEF Played
    <3>7. CASE ~(opx < poolst)
      <4>1. poolst' = poolst
        BY <1>1, <3>2, <3>7
      <4>2. TurnsOf(Played, idx) = {}
        <5>1. \A k \in 1 .. poolst : Played[k] # idx
          BY <1>0, <3>1, <3>4, <3>7
        <5> QED BY <3>1, <5>1 DEF TurnsOf
      <4>3. PICK f : f = [k \in 1 .. poolst |-> LessOne(Played[StaysIn({}, k)], idx)]
        OBVIOUS
      <4>4. DropOf(Played, {}, idx) = f
        BY <3>1, <4>3 DEF DropOf
      <4>5. ASSUME NEW k \in 1 .. poolst PROVE pidx'[k - 1] = f[k]
        <5>1. k - 1 \in 0 .. len - 2 /\ k - 1 # opx /\ k - 1 \in 0 .. len - 1
          BY <1>0, <3>1, <3>4, <3>7
        <5>2. pidx'[k - 1] = Renumbered(idx)[k - 1]
          BY <1>1, <2>2, <3>2, <3>7, <5>1 DEF RemovedPidx
        <5>3. f[k] = LessOne(Played[k], idx)
          BY <4>3 DEF StaysIn
        <5> QED BY <3>1, <3>5, <5>1, <5>2, <5>3
      <4>6. Listed(pidx', poolst) = f
        BY <4>3, <4>5 DEF Listed
      <4> QED BY <1>1, <2>2, <4>1, <4>2, <4>4, <4>6 DEF Played
    <3> QED BY <3>6, <3>7
  <2> QED BY <2>1, <2>2
<1> QED BY <1>1, <1>2, <1>3, DroppedIs, RemoveOfPlayOrder

-----------------------------------------------------------------------------
(* The answers of PlayOrder, said of Items and Played *)

\* What each kind of answer asks for, of an order q or z and a reply r.
LEMMA AfterPlaced ==
  ASSUME NEW i, NEW q, q = PO!Placing(i), NEW k \in 1 .. Len(q) - 1, q[k] = i, shuffled,
         NEW r, r = PO!Found("next", i, q[k + 1]), PO!Walk(q, r)
  PROVE  PO!After(i)
BY DEF PO!After, PO!Walk

LEMMA AfterDrawn ==
  ASSUME NEW i, NEW q, q = PO!Placing(i), NEW j \in PO!Pool \ {i}, q[Len(q)] = i, shuffled,
         NEW z, z = Append(q, j), NEW r, r = PO!Found("next", i, j), PO!Walk(z, r)
  PROVE  PO!After(i)
BY DEF PO!After, PO!Walk

LEMMA AfterAll ==
  ASSUME NEW i, NEW q, q = PO!Placing(i), PO!Pool \ {i} = {}, q[Len(q)] = i, shuffled,
         NEW r, r = IF repeat THEN PO!Found("next", i, q[1]) ELSE PO!NotFound("next", i),
         PO!Walk(q, r)
  PROVE  PO!After(i)
BY DEF PO!After, PO!Walk

LEMMA BeforePlaced ==
  ASSUME NEW i, NEW q, q = PO!Placing(i), NEW k \in 2 .. Len(q), q[k] = i, shuffled,
         NEW r, r = PO!Found("prev", i, q[k - 1]), PO!Walk(q, r)
  PROVE  PO!Before(i)
BY DEF PO!Before, PO!Walk

LEMMA BeforeDrawn ==
  ASSUME NEW i, NEW q, q = PO!Placing(i), NEW rest \in PO!Orders(PO!Pool \ {i}), q[1] = i,
         shuffled, repeat,
         NEW z, z = q \o rest, NEW r, r = PO!Found("prev", i, z[Len(Items)]), PO!Walk(z, r)
  PROVE  PO!Before(i)
BY DEF PO!Before, PO!Walk, Items, Listed

LEMMA BeforeNone ==
  ASSUME NEW i, NEW q, q = PO!Placing(i), q[1] = i, shuffled, ~repeat,
         NEW r, r = PO!NotFound("prev", i), PO!Walk(q, r)
  PROVE  PO!Before(i)
BY DEF PO!Before, PO!Walk

LEMMA UnshuffledAnswers ==
  ASSUME NEW i, ~shuffled, NEW q, q = Played, NEW r, PO!Walk(q, r)
  PROVE  /\ r = (IF i < Len(Items) - 1 THEN PO!Found("next", i, i + 1)
                 ELSE IF repeat THEN PO!Found("next", i, 0)
                 ELSE PO!NotFound("next", i)) => PO!After(i)
         /\ r = (IF i > 0 THEN PO!Found("prev", i, i - 1)
                 ELSE IF repeat THEN PO!Found("prev", i, Len(Items) - 1)
                 ELSE PO!NotFound("prev", i)) => PO!Before(i)
BY DEF PO!After, PO!Before, PO!Walk, Items, Played, Listed

LEMMA UnshuffledEnds ==
  ASSUME Items # <<>>, ~shuffled, NEW q, q = Played, NEW r, PO!Walk(q, r)
  PROVE  /\ r = PO!Found("starting", 0, 0) => PO!First
         /\ r = PO!Found("last", 0, Len(Items) - 1) => PO!Last
BY DEF PO!First, PO!Last, PO!Walk, Items, Played, Listed

LEMMA FirstOfPlayOrder ==
  ASSUME Items # <<>>, shuffled,
         NEW q \in IF Played = <<>> THEN {<<i>> : i \in PO!Positions} ELSE {Played},
         NEW r, r = PO!Found("starting", 0, q[1]), PO!Walk(q, r)
  PROVE  PO!First
BY DEF PO!First, PO!Walk, Items, Played, Listed

LEMMA LastOfPlayOrder ==
  ASSUME Items # <<>>, shuffled, NEW rest \in PO!Orders(PO!Pool),
         NEW z, z = Played \o rest, NEW r, r = PO!Found("last", 0, z[Len(Items)]), PO!Walk(z, r)
  PROVE  PO!Last
BY DEF PO!Last, PO!Walk, Items, Played, Listed

LEMMA NowhereOfPlayOrder ==
  ASSUME NEW op, NEW i, NEW q, q = Played, NEW r, r = PO!NotFound(op, i), PO!Walk(q, r)
  PROVE  PO!Nowhere(op, i)
BY DEF PO!Nowhere, PO!Walk, Played, Listed

-----------------------------------------------------------------------------
(* The pool, and what is drawn from it *)

\* The positions an order has given no place yet.
PoolOf(o) == {j \in 0 .. len - 1 : o.iidx[j] >= o.poolst}

\* It is the pool of PlayOrder.
LEMMA PoolIs ==
  ASSUME Inv, shuffled
  PROVE  PO!Pool = PoolOf(Order)
<1>1. len \in Nat /\ OrderOK(Order, len) /\ Order.pidx = pidx /\ Order.iidx = iidx /\ Order.poolst = poolst
  BY OrderOfInv DEF Inv, TypeOK, Order
<1>2. /\ poolst \in 0 .. len
      /\ \A k \in 0 .. len - 1 : pidx[k] \in 0 .. len - 1 /\ iidx[pidx[k]] = k
      /\ \A j \in 0 .. len - 1 : iidx[j] \in 0 .. len - 1 /\ pidx[iidx[j]] = j
  BY <1>1, PlacesOf
<1>3. PICK taken : taken = {Played[k] : k \in DOMAIN Played}
  OBVIOUS
<1>4. DOMAIN Played = 1 .. poolst /\ \A k \in 1 .. poolst : Played[k] = pidx[k - 1]
  BY PlayedNow
<1>5. ASSUME NEW j \in 0 .. len - 1 PROVE j \in taken <=> iidx[j] < poolst
  <2>1. ASSUME j \in taken PROVE iidx[j] < poolst
    <3>1. PICK k \in 1 .. poolst : j = pidx[k - 1]
      BY <1>3, <1>4, <2>1
    <3>2. k - 1 \in 0 .. len - 1 /\ k - 1 < poolst
      BY <1>1, <1>2
    <3> QED BY <1>2, <3>1, <3>2
  <2>2. ASSUME iidx[j] < poolst PROVE j \in taken
    <3>1. iidx[j] + 1 \in 1 .. poolst /\ iidx[j] + 1 - 1 = iidx[j]
      BY <1>1, <1>2, <2>2
    <3>2. Played[iidx[j] + 1] = j
      BY <1>2, <1>4, <3>1
    <3> QED BY <1>3, <1>4, <3>1, <3>2
  <2> QED BY <2>1, <2>2
<1>6. PO!Pool = (0 .. len - 1) \ taken
  BY <1>3, ItemsNow, PositionsOfPlayOrder
<1>7. \A j \in 0 .. len - 1 : ~(iidx[j] < poolst) <=> iidx[j] >= poolst
  BY <1>1, <1>2
<1> QED BY <1>1, <1>5, <1>6, <1>7 DEF PoolOf

\* What is placed after the places of s was in the pool of s, and everything in it is.
LEMMA FromPool ==
  ASSUME len \in Nat, NEW s, NEW o, Continues(o, s, len)
  PROVE  /\ \A k \in s.poolst .. len - 1 : o.pidx[k] \in PoolOf(s)
         /\ \A j \in PoolOf(s) : o.iidx[j] \in s.poolst .. len - 1
<1>1. /\ OrderOK(s, len) /\ OrderOK(o, len)
      /\ \A j \in 0 .. s.poolst - 1 : s.pidx[j] = o.pidx[j]
  BY DEF Continues
<1>2. /\ s.poolst \in 0 .. len
      /\ \A k \in 0 .. len - 1 : /\ o.pidx[k] \in 0 .. len - 1 /\ o.iidx[o.pidx[k]] = k
                                 /\ s.pidx[k] \in 0 .. len - 1 /\ s.iidx[s.pidx[k]] = k
      /\ \A j \in 0 .. len - 1 : /\ o.iidx[j] \in 0 .. len - 1 /\ o.pidx[o.iidx[j]] = j
                                 /\ s.iidx[j] \in 0 .. len - 1 /\ s.pidx[s.iidx[j]] = j
  BY <1>1, PlacesOf
<1>3. ASSUME NEW j \in 0 .. len - 1 PROVE s.iidx[j] >= s.poolst <=> o.iidx[j] >= s.poolst
  <2>1. ASSUME s.iidx[j] < s.poolst PROVE o.iidx[j] < s.poolst
    <3>1. s.iidx[j] \in 0 .. s.poolst - 1
      BY <1>2, <2>1
    <3>2. o.pidx[s.iidx[j]] = j
      BY <1>1, <1>2, <3>1
    <3>3. o.iidx[j] = s.iidx[j]
      BY <1>2, <3>2
    <3> QED BY <2>1, <3>3
  <2>2. ASSUME o.iidx[j] < s.poolst PROVE s.iidx[j] < s.poolst
    <3>1. o.iidx[j] \in 0 .. s.poolst - 1
      BY <1>2, <2>2
    <3>2. s.pidx[o.iidx[j]] = j
      BY <1>1, <1>2, <3>1
    <3>3. o.iidx[j] = s.iidx[j]
      BY <1>2, <3>2
    <3> QED BY <2>2, <3>3
  <2>3. s.iidx[j] \in Nat /\ o.iidx[j] \in Nat /\ s.poolst \in Nat
    BY <1>2
  <2> QED BY <2>1, <2>2, <2>3
<1>4. ASSUME NEW k \in s.poolst .. len - 1 PROVE o.pidx[k] \in PoolOf(s)
  <2>1. k \in 0 .. len - 1 /\ k >= s.poolst
    BY <1>2
  <2> QED BY <1>2, <1>3, <2>1 DEF PoolOf
<1>5. ASSUME NEW j \in PoolOf(s) PROVE o.iidx[j] \in s.poolst .. len - 1
  <2>1. j \in 0 .. len - 1 /\ o.iidx[j] >= s.poolst
    BY <1>3 DEF PoolOf
  <2> QED BY <1>2, <2>1
<1> QED BY <1>4, <1>5

\* Once i has its place, the pool is the one there was without i.
LEMMA PoolShown ==
  ASSUME Inv, shuffled, NEW i \in 0 .. len - 1
  PROVE  PoolOf(Shown(i)) = PO!Pool \ {i}
<1>1. /\ len \in Nat /\ Continues(Shown(i), Order, len)
      /\ iidx[i] < poolst => Shown(i) = Order
      /\ iidx[i] >= poolst => /\ Shown(i).poolst = poolst + 1
                              /\ Shown(i).pidx[poolst] = i /\ Shown(i).iidx[i] = poolst
      /\ Order.pidx = pidx /\ Order.iidx = iidx /\ Order.poolst = poolst
  BY ShownIs DEF Order
<1>2. PICK s : s = Shown(i)
  OBVIOUS
<1>3. OrderOK(s, len) /\ OrderOK(Order, len) /\ PO!Pool = PoolOf(Order)
  BY <1>1, <1>2, PoolIs DEF Continues
<1>4. /\ iidx[i] \in 0 .. len - 1 /\ poolst \in 0 .. len
      /\ \A k \in 0 .. len - 1 : s.pidx[k] \in 0 .. len - 1 /\ s.iidx[s.pidx[k]] = k
      /\ \A j \in 0 .. len - 1 : s.iidx[j] \in 0 .. len - 1 /\ s.pidx[s.iidx[j]] = j
  BY <1>1, <1>3, PlacesOf
<1>5. CASE iidx[i] < poolst
  <2>1. s = Order /\ i \notin PoolOf(Order)
    BY <1>1, <1>2, <1>4, <1>5 DEF PoolOf
  <2> QED BY <1>2, <1>3, <2>1
<1>6. CASE iidx[i] >= poolst
  <2>1. s.poolst = poolst + 1 /\ s.iidx[i] = poolst /\ s.pidx[poolst] = i
    BY <1>1, <1>2, <1>6
  <2>2. ASSUME NEW j \in 0 .. len - 1 PROVE s.iidx[j] >= poolst + 1 <=> s.iidx[j] >= poolst /\ j # i
    BY <1>4, <2>1
  <2>3. ASSUME NEW j \in 0 .. len - 1 PROVE s.iidx[j] >= poolst <=> iidx[j] >= poolst
    <3>1. iidx[j] >= poolst => s.iidx[j] >= poolst
      BY <1>1, <1>2, <1>4, FromPool DEF PoolOf
    <3>2. s.iidx[j] >= poolst => iidx[j] >= poolst
      <4>1. ASSUME s.iidx[j] >= poolst PROVE iidx[j] >= poolst
        <5>1. s.iidx[j] \in Order.poolst .. len - 1
          BY <1>1, <1>4, <4>1
        <5>2. s.pidx[s.iidx[j]] \in PoolOf(Order)
          BY <1>1, <1>2, <5>1, FromPool
        <5> QED BY <1>1, <1>4, <5>2 DEF PoolOf
      <4> QED BY <4>1
    <3> QED BY <3>1, <3>2
  <2>4. \A j \in 0 .. len - 1 : s.iidx[j] >= s.poolst <=> iidx[j] >= poolst /\ j # i
    BY <2>1, <2>2, <2>3
  <2> QED BY <1>1, <1>2, <1>3, <2>4 DEF PoolOf
<1> QED BY <1>1, <1>4, <1>5, <1>6

\* One more place, as a sequence.
LEMMA OneMorePlayed ==
  ASSUME len \in Nat, NEW s, NEW o, Continues(o, s, len), o.poolst = s.poolst + 1
  PROVE  PlayedOf(o) = Append(PlayedOf(s), o.pidx[s.poolst])
<1>1. OrderOK(s, len) /\ OrderOK(o, len) /\ \A j \in 0 .. s.poolst - 1 : s.pidx[j] = o.pidx[j]
  BY DEF Continues
<1>2. s.poolst \in 0 .. len - 1 /\ o.pidx[s.poolst] \in 0 .. len - 1
  BY <1>1, PlacesOf
<1>3. PICK S : S = 0 .. len - 1
  OBVIOUS
<1>4. PICK q, e : q = PlayedOf(s) /\ e = o.pidx[s.poolst]
  OBVIOUS
<1>5. /\ q \in Seq(S) /\ Len(q) = s.poolst /\ e \in S
      /\ \A k \in 1 .. s.poolst : q[k] = s.pidx[k - 1]
  BY <1>1, <1>2, <1>3, <1>4, PlayedAre
<1>6. PICK z : z = Append(q, e)
  OBVIOUS
<1>7. /\ z \in Seq(S) /\ Len(z) = Len(q) + 1 /\ \A k \in 1 .. Len(q) : z[k] = q[k]
      /\ z[Len(q) + 1] = e
  BY <1>5, <1>6, AppendProperties
<1>8. ASSUME NEW k \in 1 .. s.poolst + 1 PROVE o.pidx[k - 1] = z[k]
  <2>1. CASE k <= s.poolst
    <3>1. k \in 1 .. s.poolst /\ k - 1 \in 0 .. s.poolst - 1
      BY <1>2, <2>1
    <3> QED BY <1>1, <1>5, <1>7, <3>1
  <2>2. CASE k = s.poolst + 1
    <3>1. k - 1 = s.poolst
      BY <1>2, <2>2
    <3> QED BY <1>4, <1>5, <1>7, <2>2, <3>1
  <2> QED BY <1>2, <2>1, <2>2
<1>9. Listed(o.pidx, s.poolst + 1) = z
  <2>1. PICK n, p : n = s.poolst + 1 /\ p = o.pidx
    OBVIOUS
  <2>2. n \in Nat /\ Len(z) = n /\ z \in Seq(S) /\ \A k \in 1 .. n : p[k - 1] = z[k]
    BY <1>2, <1>5, <1>7, <1>8, <2>1
  <2>3. Listed(p, n) = z
    BY ONLY <2>2, ListedEqual, Zenon
  <2> QED BY <2>1, <2>3
<1> QED BY <1>4, <1>6, <1>9 DEF PlayedOf

\* All the places there are, as a sequence.
RestOfOrder(s, o) == [m \in 1 .. len - s.poolst |-> o.pidx[s.poolst + m - 1]]

\* With all places given, they follow the ones there were.
LEMMA AllPlayed ==
  ASSUME len \in Nat, NEW s, NEW o, Continues(o, s, len), o.poolst = len
  PROVE  PlayedOf(o) = PlayedOf(s) \o RestOfOrder(s, o)
<1>1. OrderOK(s, len) /\ OrderOK(o, len) /\ \A j \in 0 .. s.poolst - 1 : s.pidx[j] = o.pidx[j]
  BY DEF Continues
<1>2. s.poolst \in 0 .. len /\ \A k \in 0 .. len - 1 : o.pidx[k] \in 0 .. len - 1
  BY <1>1, PlacesOf
<1>3. PICK S : S = 0 .. len - 1
  OBVIOUS
<1>4. PICK q, r : q = PlayedOf(s) /\ r = RestOfOrder(s, o)
  OBVIOUS
<1>5. q \in Seq(S) /\ Len(q) = s.poolst /\ \A k \in 1 .. s.poolst : q[k] = s.pidx[k - 1]
  BY <1>1, <1>3, <1>4, PlayedAre
<1>6. /\ r \in Seq(S) /\ Len(r) = len - s.poolst
      /\ \A m \in 1 .. len - s.poolst : r[m] = o.pidx[s.poolst + m - 1]
  <2>1. len - s.poolst \in Nat
    BY <1>2
  <2>2. \A m \in 1 .. len - s.poolst : o.pidx[s.poolst + m - 1] \in S
    <3>1. \A m \in 1 .. len - s.poolst : s.poolst + m - 1 \in 0 .. len - 1
      BY <1>2
    <3> QED BY <1>2, <1>3, <3>1
  <2> QED BY <1>4, <2>1, <2>2 DEF RestOfOrder
<1>7. PICK z : z = q \o r
  OBVIOUS
<1>8. /\ z \in Seq(S) /\ Len(z) = Len(q) + Len(r)
      /\ \A k \in 1 .. Len(q) + Len(r) : z[k] = IF k <= Len(q) THEN q[k] ELSE r[k - Len(q)]
  <2>1. q \in Seq(S) /\ r \in Seq(S)
    BY <1>5, <1>6
  <2> QED BY ONLY <1>7, <2>1, ConcatProperties
<1>9. Len(z) = len
  BY <1>2, <1>5, <1>6, <1>8
<1>10. ASSUME NEW k \in 1 .. len PROVE o.pidx[k - 1] = z[k]
  <2>0. z[k] = IF k <= s.poolst THEN q[k] ELSE r[k - s.poolst]
    BY <1>5, <1>8, <1>9
  <2>1. CASE k <= s.poolst
    <3>1. k \in 1 .. s.poolst /\ k - 1 \in 0 .. s.poolst - 1
      BY <1>2, <2>1
    <3> QED BY <1>1, <1>5, <2>0, <2>1, <3>1
  <2>2. CASE ~(k <= s.poolst)
    <3>1. k - s.poolst \in 1 .. len - s.poolst /\ s.poolst + (k - s.poolst) - 1 = k - 1
      BY <1>2, <2>2
    <3>2. r[k - s.poolst] = o.pidx[k - 1]
      BY <1>6, <3>1
    <3> QED BY <2>0, <2>2, <3>2
  <2> QED BY <2>1, <2>2
<1>11. Listed(o.pidx, len) = z
  <2>1. PICK n, p : n = len /\ p = o.pidx
    OBVIOUS
  <2>2. n \in Nat /\ Len(z) = n /\ z \in Seq(S) /\ \A k \in 1 .. n : p[k - 1] = z[k]
    BY <1>8, <1>9, <1>10, <2>1
  <2>3. Listed(p, n) = z
    BY ONLY <2>2, ListedEqual, Zenon
  <2> QED BY <2>1, <2>3
<1> QED BY <1>4, <1>7, <1>11 DEF PlayedOf

\* They are the pool in some order.
LEMMA RestIsOrder ==
  ASSUME Inv, NEW s, NEW o, Continues(o, s, len)
  PROVE  RestOfOrder(s, o) \in PO!Orders(PoolOf(s))
<1>1. /\ len \in Nat /\ Len(Items) = len /\ OrderOK(s, len) /\ OrderOK(o, len)
  BY ItemsNow DEF Continues
<1>2. /\ s.poolst \in 0 .. len
      /\ \A k \in 0 .. len - 1 : o.pidx[k] \in 0 .. len - 1 /\ o.iidx[o.pidx[k]] = k
      /\ \A j \in 0 .. len - 1 : o.iidx[j] \in 0 .. len - 1 /\ o.pidx[o.iidx[j]] = j
  BY <1>1, PlacesOf
<1>3. /\ \A k \in s.poolst .. len - 1 : o.pidx[k] \in PoolOf(s)
      /\ \A j \in PoolOf(s) : o.iidx[j] \in s.poolst .. len - 1
  BY <1>1, FromPool
<1>4. PICK n, r, T : n = len - s.poolst /\ r = RestOfOrder(s, o) /\ T = PoolOf(s)
  OBVIOUS
<1>5. n \in 0 .. len
  BY <1>1, <1>2, <1>4
<1>6. \A m \in 1 .. n : s.poolst + m - 1 \in s.poolst .. len - 1 /\ s.poolst + m - 1 \in 0 .. len - 1
  BY <1>1, <1>2, <1>4
<1>7. r = [m \in 1 .. n |-> o.pidx[s.poolst + m - 1]]
  BY <1>4 DEF RestOfOrder
<1>8. \A m \in 1 .. n : r[m] = o.pidx[s.poolst + m - 1] /\ r[m] \in T
  BY <1>3, <1>4, <1>6, <1>7
<1>9. r \in [1 .. n -> T]
  BY <1>7, <1>8
<1>10. ASSUME NEW j \in T PROVE \E m \in 1 .. n : r[m] = j
  <2>1. j \in 0 .. len - 1 /\ o.iidx[j] \in s.poolst .. len - 1 /\ o.pidx[o.iidx[j]] = j
    BY <1>2, <1>3, <1>4 DEF PoolOf
  <2>2. PICK m : m = o.iidx[j] - s.poolst + 1
    OBVIOUS
  <2>3. m \in 1 .. n /\ s.poolst + m - 1 = o.iidx[j]
    BY <1>1, <1>2, <1>4, <2>1, <2>2
  <2> QED BY <1>8, <2>1, <2>3
<1>11. ASSUME NEW j \in 1 .. n, NEW k \in 1 .. n, r[j] = r[k] PROVE j = k
  <2>1. o.iidx[r[j]] = s.poolst + j - 1 /\ o.iidx[r[k]] = s.poolst + k - 1
    BY <1>2, <1>6, <1>8
  <2>2. s.poolst + j - 1 = s.poolst + k - 1
    BY <1>11, <2>1
  <2> QED BY <1>2, <2>2
<1>12. DOMAIN r = 1 .. n
  BY <1>7
<1>13. r \in UNION {[1 .. b -> T] : b \in 0 .. Len(Items)}
  BY <1>1, <1>5, <1>9
<1>14. /\ \A i \in T : \E k \in DOMAIN r : r[k] = i
       /\ \A j, k \in DOMAIN r : j # k => r[j] # r[k]
  BY <1>10, <1>11, <1>12
<1>15. PO!Orders(T) = {q \in UNION {[1 .. b -> T] : b \in 0 .. Len(Items)} :
                        /\ \A i \in T : \E k \in DOMAIN q : q[k] = i
                        /\ \A j, k \in DOMAIN q : j # k => q[j] # q[k]}
  BY DEF PO!Orders, Items, Listed
<1>16. r \in PO!Orders(T)
  BY <1>13, <1>14, <1>15
<1> QED BY <1>4, <1>16

-----------------------------------------------------------------------------
(* Every walk is a walk of the play order *)

\* An answer that leaves the order o of a shuffled playlist, or leaves it as it was.
LEMMA AnswerShuffled ==
  ASSUME NEW o, NEW r, Answer(o, r), NEW q, q = PlayedOf(o), shuffled
  PROVE  PO!Walk(q, r)
<1>1. /\ Items' = Items /\ repeat' = repeat /\ shuffled' = shuffled /\ reply' = r
      /\ pidx' = o.pidx /\ poolst' = o.poolst
  BY AnswerLeaves DEF Items
<1>2. Played' = PlayedOf(o)
  BY <1>1 DEF Played, PlayedOf
<1> QED BY <1>1, <1>2, WalkOfPlayOrder

LEMMA AnswerAsBefore ==
  ASSUME NEW o, NEW r, Answer(o, r), NEW q, q = Played, ~shuffled \/ o = Order
  PROVE  PO!Walk(q, r)
<1>1. /\ Items' = Items /\ repeat' = repeat /\ shuffled' = shuffled /\ reply' = r
      /\ pidx' = o.pidx /\ poolst' = o.poolst
  BY AnswerLeaves DEF Items
<1>2. ~shuffled => Played' = Played
  BY <1>1 DEF Played
<1>3. o = Order => Played' = Played
  BY <1>1 DEF Played, Order
<1>4. Played' = q
  BY <1>2, <1>3
<1> QED BY <1>1, <1>4, WalkOfPlayOrder

\* The order in which the walk after i goes on.
LEMMA PlacingIs ==
  ASSUME Inv, shuffled, NEW i \in 0 .. len - 1
  PROVE  PO!Placing(i) = PlayedOf(Shown(i))
<1>1. /\ len \in Nat /\ Continues(Shown(i), Order, len)
      /\ iidx[i] < poolst => Shown(i) = Order
      /\ iidx[i] >= poolst => Shown(i).poolst = poolst + 1 /\ Shown(i).pidx[poolst] = i
      /\ Order.pidx = pidx /\ Order.iidx = iidx /\ Order.poolst = poolst
  BY ShownIs DEF Order
<1>2. PO!Placing(i) = IF i \in PoolOf(Order) THEN Append(Played, i) ELSE Played
  BY PoolIs, PositionsOfPlayOrder
<1>3. i \in PoolOf(Order) <=> iidx[i] >= poolst
  BY <1>1 DEF PoolOf
<1>4. Played = PlayedOf(Order)
  BY <1>1, PlayedNow DEF PlayedOf
<1>5. CASE iidx[i] < poolst
  <2>1. ~(iidx[i] >= poolst)
    <3>1. OrderOK(Order, len)
      BY <1>1 DEF Continues
    <3>2. iidx[i] \in 0 .. len - 1 /\ poolst \in 0 .. len
      BY <1>1, <3>1, PlacesOf
    <3> QED BY <1>5, <3>2
  <2> QED BY <1>1, <1>2, <1>3, <1>4, <1>5, <2>1
<1>6. CASE iidx[i] >= poolst
  <2>1. Shown(i).poolst = Order.poolst + 1 /\ Shown(i).pidx[Order.poolst] = i
    BY <1>1, <1>6
  <2>2. PlayedOf(Shown(i)) = Append(PlayedOf(Order), i)
    BY <1>1, <2>1, OneMorePlayed
  <2> QED BY <1>2, <1>3, <1>4, <1>6, <2>2
<1>7. iidx[i] < poolst \/ iidx[i] >= poolst
  <2>1. OrderOK(Order, len)
    BY <1>1 DEF Continues
  <2>2. iidx[i] \in 0 .. len - 1 /\ poolst \in 0 .. len
    BY <1>1, <2>1, PlacesOf
  <2> QED BY <2>2
<1> QED BY <1>5, <1>6, <1>7

\* The ends of the order: the first place, or all of them, may have to be drawn.
LEMMA EndsAreEnds ==
  ASSUME Inv
  PROVE  /\ pls_get_starting => PO!First
         /\ pls_get_last => PO!Last
<1>0. len \in Nat /\ Len(Items) = len /\ (len > 0 => Items # <<>>)
  BY ItemsNow
<1>1. CASE ~shuffled
  <2>1. PICK q : q = Played
    OBVIOUS
  <2>2. ASSUME pls_get_starting PROVE PO!First
    <3>1. PICK r : r = Found("starting", 0, 0)
      OBVIOUS
    <3>2. Answer(Order, r) /\ Items # <<>>
      BY <1>0, <1>1, <2>2, <3>1 DEF pls_get_starting
    <3>3. r = PO!Found("starting", 0, 0)
      BY <3>1 DEF Found, PO!Found
    <3>4. PO!Walk(q, r)
      BY <1>1, <2>1, <3>2, AnswerAsBefore, Zenon
    <3> QED BY <1>1, <2>1, <3>2, <3>3, <3>4, UnshuffledEnds, Zenon
  <2>3. ASSUME pls_get_last PROVE PO!Last
    <3>1. PICK r : r = Found("last", 0, len - 1)
      OBVIOUS
    <3>2. Answer(Order, r) /\ Items # <<>>
      BY <1>0, <1>1, <2>3, <3>1 DEF pls_get_last
    <3>3. r = PO!Found("last", 0, Len(Items) - 1)
      BY <1>0, <3>1 DEF Found, PO!Found
    <3>4. PO!Walk(q, r)
      BY <1>1, <2>1, <3>2, AnswerAsBefore, Zenon
    <3> QED BY <1>1, <2>1, <3>2, <3>3, <3>4, UnshuffledEnds, Zenon
  <2> QED BY <2>2, <2>3
<1>2. ASSUME shuffled, pls_get_starting PROVE PO!First
  <2>1. PICK o \in IF poolst = 0 THEN Drawn(Order) ELSE {Order} :
          Answer(o, Found("starting", 0, o.pidx[0]))
    BY <1>2 DEF pls_get_starting
  <2>2. len > 0 /\ Items # <<>>
    BY <1>0, <1>2 DEF pls_get_starting
  <2>3. /\ OrderOK(Order, len) /\ Order.pidx = pidx /\ Order.poolst = poolst
        /\ Played = PlayedOf(Order) /\ Len(Played) = poolst /\ poolst \in 0 .. len
        /\ Played \in Seq(0 .. len - 1)
    BY <1>2, OrderOfInv, PlayedNow DEF Order, PlayedOf
  <2>4. PICK q : q = PlayedOf(o)
    OBVIOUS
  <2>5. q \in IF Played = <<>> THEN {<<i>> : i \in PO!Positions} ELSE {Played}
    <3>1. CASE poolst = 0
      <4>1. Continues(o, Order, len) /\ o.poolst = Order.poolst + 1
        BY <1>0, <2>1, <2>3, <3>1, DrawnIs
      <4>2. q = Append(Played, o.pidx[0])
        BY <1>0, <2>3, <2>4, <3>1, <4>1, OneMorePlayed
      <4>3. Played = <<>>
        BY <2>3, <3>1
      <4>4. o.pidx[0] \in 0 .. len - 1
        BY <1>0, <2>2, <4>1, PlacesOf DEF Continues
      <4>5. q = <<o.pidx[0]>>
        BY <4>2, <4>3
      <4>6. o.pidx[0] \in PO!Positions
        BY <1>0, <4>4, PositionsOfPlayOrder
      <4> QED BY <4>3, <4>5, <4>6
    <3>2. CASE poolst # 0
      <4>1. o = Order /\ Played # <<>>
        BY <2>1, <2>3, <3>2
      <4> QED BY <2>3, <2>4, <4>1
    <3> QED BY <3>1, <3>2
  <2>6. q[1] = o.pidx[0]
    <3>1. OrderOK(o, len) /\ o.poolst > 0
      BY <1>0, <2>1, <2>3, DrawnKeepsOrder DEF OrderOK
    <3>2. DOMAIN q = 1 .. o.poolst /\ \A k \in 1 .. o.poolst : q[k] = o.pidx[k - 1]
      BY <1>0, <2>4, <3>1, PlayedAre
    <3>3. 1 \in 1 .. o.poolst
      BY <1>0, <3>1, PlacesOf
    <3> QED BY <3>2, <3>3
  <2>7. PICK r : r = Found("starting", 0, q[1])
    OBVIOUS
  <2>8. Answer(o, r)
    BY <2>1, <2>6, <2>7
  <2>9. r = PO!Found("starting", 0, q[1])
    BY <2>7 DEF Found, PO!Found
  <2>10. PO!Walk(q, r)
    BY <1>2, <2>4, <2>8, AnswerShuffled, Zenon
  <2> QED BY <1>2, <2>2, <2>5, <2>9, <2>10, FirstOfPlayOrder, Zenon
<1>3. ASSUME shuffled, pls_get_last PROVE PO!Last
  <2>1. PICK o \in AllDrawn(Order) : Answer(o, Found("last", 0, o.pidx[len - 1]))
    BY <1>3 DEF pls_get_last
  <2>2. len > 0 /\ Items # <<>>
    BY <1>0, <1>3 DEF pls_get_last
  <2>3. OrderOK(Order, len) /\ Played = PlayedOf(Order)
    BY <1>3, OrderOfInv, PlayedNow DEF Order, PlayedOf
  <2>4. Continues(o, Order, len) /\ o.poolst = len /\ OrderOK(o, len)
    BY <1>0, <2>1, <2>3, AllDrawnIs DEF Continues
  <2>5. PICK rest : rest = RestOfOrder(Order, o)
    OBVIOUS
  <2>6. rest \in PO!Orders(PO!Pool)
    BY <1>3, <2>4, <2>5, RestIsOrder, PoolIs
  <2>7. PICK z : z = PlayedOf(o)
    OBVIOUS
  <2>8. z = Played \o rest
    BY <1>0, <2>3, <2>4, <2>5, <2>7, AllPlayed
  <2>9. z[len] = o.pidx[len - 1]
    BY <1>0, <2>2, <2>4, <2>7, PlayedAre
  <2>10. PICK r : r = Found("last", 0, o.pidx[len - 1])
    OBVIOUS
  <2>11. r = PO!Found("last", 0, z[Len(Items)])
    BY <1>0, <2>9, <2>10 DEF Found, PO!Found
  <2>12. PO!Walk(z, r)
    BY <1>3, <2>1, <2>7, <2>10, AnswerShuffled, Zenon
  <2> QED BY <1>3, <2>2, <2>6, <2>8, <2>11, <2>12, LastOfPlayOrder, Zenon
<1> QED BY <1>1, <1>2, <1>3

\* The turn of i, of the order in which it has its place.
LEMMA PlacedAt ==
  ASSUME Inv, shuffled, NEW i \in 0 .. len - 1
  PROVE  /\ OrderOK(Shown(i), len) /\ len \in Nat /\ Shown(i).poolst \in 1 .. len
         /\ Shown(i).iidx[i] \in 0 .. Shown(i).poolst - 1
         /\ PO!Placing(i) = PlayedOf(Shown(i)) /\ Len(PO!Placing(i)) = Shown(i).poolst
         /\ \A k \in 1 .. Shown(i).poolst : PO!Placing(i)[k] = Shown(i).pidx[k - 1]
         /\ PO!Placing(i)[Shown(i).iidx[i] + 1] = i
<1>1. /\ len \in Nat /\ OrderOK(Shown(i), len) /\ Shown(i).iidx[i] \in 0 .. Shown(i).poolst - 1
  BY ShownIs DEF Continues
<1>2. PICK s : s = Shown(i)
  OBVIOUS
<1>3. s.poolst \in 0 .. len /\ s.pidx[s.iidx[i]] = i
  BY <1>1, <1>2, PlacesOf
<1>4. PICK q : q = PlayedOf(s)
  OBVIOUS
<1>5. Len(q) = s.poolst /\ \A k \in 1 .. s.poolst : q[k] = s.pidx[k - 1]
  BY <1>1, <1>2, <1>4, PlayedAre
<1>6. PO!Placing(i) = q
  BY <1>2, <1>4, PlacingIs
<1>7. s.poolst \in 1 .. len /\ s.iidx[i] + 1 \in 1 .. s.poolst /\ s.iidx[i] \in Int
  BY <1>1, <1>2, <1>3
<1>8. q[s.iidx[i] + 1] = i
  <2>1. PICK k : k = s.iidx[i] + 1
    OBVIOUS
  <2>2. k \in 1 .. s.poolst /\ k - 1 = s.iidx[i]
    BY <1>7, <2>1
  <2>3. q[k] = s.pidx[k - 1]
    BY <1>5, <2>2
  <2> QED BY <1>3, <2>1, <2>2, <2>3
<1> QED BY <1>1, <1>2, <1>4, <1>5, <1>6, <1>7, <1>8

\* The neighbours of a position that exists: it may have to be placed, and the rest drawn.
LEMMA NextIsAfter ==
  ASSUME Inv, NEW i \in 0 .. len - 1, pls_get_next(i)
  PROVE  PO!After(i)
<1>0. len \in Nat /\ Len(Items) = len
  BY ItemsNow
<1>1. CASE ~shuffled
  <2>1. PICK r : r = IF i < len - 1 THEN Found("next", i, i + 1)
                     ELSE IF repeat THEN Found("next", i, 0) ELSE NotFound("next", i)
    OBVIOUS
  <2>2. Answer(Order, r)
    BY <1>0, <1>1, <2>1 DEF pls_get_next, NextUnshuffled
  <2>3. r = IF i < Len(Items) - 1 THEN PO!Found("next", i, i + 1)
            ELSE IF repeat THEN PO!Found("next", i, 0) ELSE PO!NotFound("next", i)
    BY <1>0, <2>1 DEF Found, NotFound, PO!Found, PO!NotFound
  <2>4. PICK q : q = Played
    OBVIOUS
  <2>5. PO!Walk(q, r)
    BY <1>1, <2>2, <2>4, AnswerAsBefore, Zenon
  <2> QED BY <1>1, <2>3, <2>4, <2>5, UnshuffledAnswers, Zenon
<1>2. CASE shuffled
  <2>1. NextShuffled(i)
    BY <1>0, <1>2 DEF pls_get_next
  <2>2. PICK s, q : s = Shown(i) /\ q = PO!Placing(i)
    OBVIOUS
  <2>3. /\ OrderOK(s, len) /\ s.poolst \in 1 .. len /\ s.iidx[i] \in 0 .. s.poolst - 1
        /\ q = PlayedOf(s) /\ Len(q) = s.poolst
        /\ \A k \in 1 .. s.poolst : q[k] = s.pidx[k - 1]
        /\ q[s.iidx[i] + 1] = i
    BY <1>2, <2>2, PlacedAt
  <2>4. /\ Continues(s, Order, len)
        /\ iidx[i] < poolst => s = Order /\ s.iidx[i] = iidx[i]
        /\ iidx[i] >= poolst => s.poolst = poolst + 1 /\ s.iidx[i] = poolst
        /\ Order.pidx = pidx /\ Order.iidx = iidx /\ Order.poolst = poolst
    BY <1>2, <2>2, ShownIs DEF Order
  <2>5. iidx[i] \in 0 .. len - 1 /\ poolst \in 0 .. len
    BY <1>0, <2>4, PlacesOf DEF Continues
  <2>6. CASE iidx[i] + 1 < poolst
    <3>1. s = Order /\ s.iidx[i] = iidx[i] /\ s.poolst = poolst
      BY <2>4, <2>5, <2>6
    <3>2. PICK k, r : k = iidx[i] + 1 /\ r = Found("next", i, pidx[iidx[i] + 1])
      OBVIOUS
    <3>3. k \in 1 .. Len(q) - 1 /\ q[k] = i /\ k + 1 \in 1 .. s.poolst /\ k + 1 - 1 = k
      BY <1>0, <2>3, <2>5, <2>6, <3>1, <3>2
    <3>4. q[k + 1] = pidx[k]
      BY <2>3, <2>4, <3>1, <3>3
    <3>5. Answer(s, r)
      BY <2>1, <2>6, <3>1, <3>2 DEF NextShuffled
    <3>6. r = PO!Found("next", i, q[k + 1])
      BY <3>2, <3>4 DEF Found, PO!Found
    <3>7. PO!Walk(q, r)
      BY <1>2, <2>3, <3>5, AnswerShuffled, Zenon
    <3> QED BY <1>2, <2>2, <3>3, <3>6, <3>7, AfterPlaced, Zenon
  <2>7. ASSUME ~(iidx[i] + 1 < poolst) PROVE s.iidx[i] = s.poolst - 1 /\ q[Len(q)] = i
    <3>1. s.iidx[i] = s.poolst - 1
      <4>1. CASE iidx[i] < poolst
        <5>1. iidx[i] = poolst - 1
          BY <1>0, <2>5, <2>7, <4>1
        <5> QED BY <2>4, <4>1, <5>1
      <4>2. CASE iidx[i] >= poolst
        <5>1. s.poolst = poolst + 1 /\ s.iidx[i] = poolst /\ poolst \in Int
          BY <2>4, <2>5, <4>2
        <5> QED BY <5>1
      <4>3. iidx[i] < poolst \/ iidx[i] >= poolst
        BY <2>5
      <4> QED BY <4>1, <4>2, <4>3
    <3>2. s.iidx[i] + 1 = Len(q)
      BY <2>3, <3>1
    <3> QED BY <2>3, <3>1, <3>2
  <2>8. PoolOf(s) = PO!Pool \ {i}
    BY <1>2, <2>2, PoolShown
  <2>9. CASE ~(iidx[i] + 1 < poolst) /\ s.poolst < len
    <3>1. PICK o \in Drawn(s) : Answer(o, Found("next", i, o.pidx[o.poolst - 1]))
      BY <2>1, <2>2, <2>9 DEF NextShuffled
    <3>2. Continues(o, s, len) /\ o.poolst = s.poolst + 1
      BY <1>0, <2>3, <3>1, DrawnIs
    <3>3. PICK j, z : j = o.pidx[s.poolst] /\ z = PlayedOf(o)
      OBVIOUS
    <3>4. j \in PO!Pool \ {i}
      <4>1. s.poolst \in s.poolst .. len - 1
        BY <1>0, <2>3, <2>9
      <4>2. o.pidx[s.poolst] \in PoolOf(s)
        BY <1>0, <3>2, <4>1, FromPool
      <4> QED BY <2>8, <3>3, <4>2
    <3>5. z = Append(q, j)
      BY <1>0, <2>3, <3>2, <3>3, OneMorePlayed
    <3>6. PICK r : r = Found("next", i, j)
      OBVIOUS
    <3>7. Answer(o, r)
      <4>1. o.poolst - 1 = s.poolst
        BY <2>3, <3>2
      <4> QED BY <3>1, <3>3, <3>6, <4>1
    <3>8. r = PO!Found("next", i, j)
      BY <3>6 DEF Found, PO!Found
    <3>9. PO!Walk(z, r)
      BY <1>2, <3>3, <3>7, AnswerShuffled, Zenon
    <3> QED BY <1>2, <2>2, <2>7, <2>9, <3>4, <3>5, <3>8, <3>9, AfterDrawn, Zenon
  <2>10. CASE ~(iidx[i] + 1 < poolst) /\ ~(s.poolst < len)
    <3>1. PICK r : r = IF repeat THEN Found("next", i, s.pidx[0]) ELSE NotFound("next", i)
      OBVIOUS
    <3>2. Answer(s, r)
      BY <2>1, <2>2, <2>10, <3>1 DEF NextShuffled
    <3>3. PO!Pool \ {i} = {}
      <4>1. s.poolst = len
        BY <1>0, <2>3, <2>10
      <4>2. \A j \in 0 .. len - 1 : s.iidx[j] \in 0 .. len - 1
        BY <1>0, <2>3, PlacesOf
      <4>3. PoolOf(s) = {}
        BY <1>0, <4>1, <4>2 DEF PoolOf
      <4> QED BY <2>8, <4>3
    <3>4. q[1] = s.pidx[0]
      <4>1. 1 \in 1 .. s.poolst
        BY <2>3
      <4> QED BY <2>3, <4>1
    <3>5. r = IF repeat THEN PO!Found("next", i, q[1]) ELSE PO!NotFound("next", i)
      BY <3>1, <3>4 DEF Found, NotFound, PO!Found, PO!NotFound
    <3>6. PO!Walk(q, r)
      BY <1>2, <2>3, <3>2, AnswerShuffled, Zenon
    <3> QED BY <1>2, <2>2, <2>7, <2>10, <3>3, <3>5, <3>6, AfterAll, Zenon
  <2> QED BY <2>6, <2>9, <2>10
<1> QED BY <1>1, <1>2

LEMMA PrevIsBefore ==
  ASSUME Inv, NEW i \in 0 .. len - 1, pls_get_prev(i)
  PROVE  PO!Before(i)
<1>0. len \in Nat /\ Len(Items) = len
  BY ItemsNow
<1>1. CASE ~shuffled
  <2>1. PICK r : r = IF i > 0 THEN Found("prev", i, i - 1)
                     ELSE IF repeat THEN Found("prev", i, len - 1) ELSE NotFound("prev", i)
    OBVIOUS
  <2>2. Answer(Order, r)
    BY <1>0, <1>1, <2>1 DEF pls_get_prev, PrevUnshuffled
  <2>3. r = IF i > 0 THEN PO!Found("prev", i, i - 1)
            ELSE IF repeat THEN PO!Found("prev", i, Len(Items) - 1) ELSE PO!NotFound("prev", i)
    BY <1>0, <2>1 DEF Found, NotFound, PO!Found, PO!NotFound
  <2>4. PICK q : q = Played
    OBVIOUS
  <2>5. PO!Walk(q, r)
    BY <1>1, <2>2, <2>4, AnswerAsBefore, Zenon
  <2> QED BY <1>1, <2>3, <2>4, <2>5, UnshuffledAnswers, Zenon
<1>2. CASE shuffled
  <2>1. PrevShuffled(i)
    BY <1>0, <1>2 DEF pls_get_prev
  <2>2. PICK s, q, k : s = Shown(i) /\ q = PO!Placing(i) /\ k = s.iidx[i]
    OBVIOUS
  <2>3. /\ OrderOK(s, len) /\ s.poolst \in 1 .. len /\ k \in 0 .. s.poolst - 1
        /\ q = PlayedOf(s) /\ Len(q) = s.poolst
        /\ \A m \in 1 .. s.poolst : q[m] = s.pidx[m - 1]
        /\ q[k + 1] = i
    BY <1>2, <2>2, PlacedAt
  <2>4. CASE k > 0
    <3>1. PICK m, r : m = k + 1 /\ r = Found("prev", i, s.pidx[k - 1])
      OBVIOUS
    <3>2. m \in 2 .. Len(q) /\ q[m] = i /\ m - 1 = k /\ k \in 1 .. s.poolst
      BY <1>0, <2>3, <2>4, <3>1, SMTT(30)
    <3>3. q[m - 1] = s.pidx[k - 1]
      BY <2>3, <3>2
    <3>4. Answer(s, r)
      BY <2>1, <2>2, <2>4, <3>1 DEF PrevShuffled
    <3>5. r = PO!Found("prev", i, q[m - 1])
      BY <3>1, <3>3 DEF Found, PO!Found
    <3>6. PO!Walk(q, r)
      BY <1>2, <2>3, <3>4, AnswerShuffled, Zenon
    <3> QED BY <1>2, <2>2, <3>2, <3>5, <3>6, BeforePlaced, Zenon
  <2>5. ASSUME ~(k > 0) PROVE q[1] = i
    <3>1. k + 1 = 1
      BY <2>3, <2>5
    <3> QED BY <2>3, <3>1
  <2>6. CASE ~(k > 0) /\ ~repeat
    <3>1. PICK r : r = NotFound("prev", i)
      OBVIOUS
    <3>2. Answer(s, r)
      BY <2>1, <2>2, <2>6, <3>1 DEF PrevShuffled
    <3>3. r = PO!NotFound("prev", i)
      BY <3>1 DEF NotFound, PO!NotFound
    <3>4. PO!Walk(q, r)
      BY <1>2, <2>3, <3>2, AnswerShuffled, Zenon
    <3> QED BY <1>2, <2>2, <2>5, <2>6, <3>3, <3>4, BeforeNone, Zenon
  <2>7. CASE ~(k > 0) /\ repeat
    <3>1. PICK o \in AllDrawn(s) : Answer(o, Found("prev", i, o.pidx[len - 1]))
      BY <2>1, <2>2, <2>7 DEF PrevShuffled
    <3>2. Continues(o, s, len) /\ o.poolst = len /\ OrderOK(o, len)
      BY <1>0, <2>3, <3>1, AllDrawnIs DEF Continues
    <3>3. PICK rest, z : rest = RestOfOrder(s, o) /\ z = PlayedOf(o)
      OBVIOUS
    <3>4. rest \in PO!Orders(PO!Pool \ {i})
      BY <1>2, <2>2, <3>2, <3>3, RestIsOrder, PoolShown
    <3>5. z = q \o rest
      BY <1>0, <2>3, <3>2, <3>3, AllPlayed
    <3>6. z[len] = o.pidx[len - 1]
      <4>1. len \in 1 .. o.poolst
        BY <1>0, <3>2
      <4> QED BY <1>0, <3>2, <3>3, <4>1, PlayedAre
    <3>7. PICK r : r = Found("prev", i, o.pidx[len - 1])
      OBVIOUS
    <3>8. r = PO!Found("prev", i, z[Len(Items)])
      BY <1>0, <3>6, <3>7 DEF Found, PO!Found
    <3>9. PO!Walk(z, r)
      BY <1>2, <3>1, <3>3, <3>7, AnswerShuffled, Zenon
    <3> QED BY <1>2, <2>2, <2>5, <2>7, <3>4, <3>5, <3>8, <3>9, BeforeDrawn, Zenon
  <2> QED BY <2>4, <2>6, <2>7
<1> QED BY <1>1, <1>2

\* A walk from a position that does not exist.
LEMMA NowhereIsNowhere ==
  ASSUME Inv, NEW i \in 0 .. MaxLen, i >= len
  PROVE  /\ i \in Len(Items) .. MaxLen
         /\ pls_get_next(i) => PO!Nowhere("next", i)
         /\ pls_get_prev(i) => PO!Nowhere("prev", i)
<1>1. len \in Nat /\ Len(Items) = len
  BY ItemsNow
<1>2. i \in Len(Items) .. MaxLen
  BY <1>1, BoundsAssumption
<1>3. ~(i < len)
  BY <1>1, BoundsAssumption
<1>4. PICK q : q = Played
  OBVIOUS
<1>5. ASSUME NEW op, NEW r, r = NotFound(op, i), Answer(Order, r) PROVE PO!Nowhere(op, i)
  <2>1. PO!Walk(q, r)
    BY <1>4, <1>5, AnswerAsBefore, Zenon
  <2>2. r = PO!NotFound(op, i)
    BY <1>5 DEF NotFound, PO!NotFound
  <2> QED BY <1>4, <2>1, <2>2, NowhereOfPlayOrder, Zenon
<1>6. \A op : Answer(Order, NotFound(op, i)) => PO!Nowhere(op, i)
  BY <1>5
<1> QED BY <1>2, <1>3, <1>6 DEF pls_get_next, pls_get_prev

-----------------------------------------------------------------------------
(* The refinement *)

\* Every action of PlayOrder is a step of it.
LEMMA NextOfPlayOrder ==
  /\ \A n \in 1 .. MaxInsert : \A new \in [1 .. n -> OIDs] : \A at \in 0 .. Len(Items) :
       PO!Insert(at, new) => PO!Next
  /\ \A at \in 0 .. Len(Items) - 1 : PO!Remove(at) => PO!Next
  /\ \A from, to \in 0 .. Len(Items) - 1 : PO!Move(from, to) => PO!Next
  /\ PO!Clear => PO!Next
  /\ \A on \in BOOLEAN : (PO!Shuffle(on) => PO!Next) /\ (PO!SetRepeat(on) => PO!Next)
  /\ PO!First => PO!Next
  /\ PO!Last => PO!Next
  /\ \A i \in 0 .. Len(Items) - 1 : (PO!After(i) => PO!Next) /\ (PO!Before(i) => PO!Next)
  /\ \A i \in Len(Items) .. MaxLen, op \in {"next", "prev"} : PO!Nowhere(op, i) => PO!Next
BY Zenon DEF PO!Next, PO!Positions, Items, Listed

\* The initial states, and every step, map to those of PlayOrder.
LEMMA InitIsInit ==
  ASSUME Init
  PROVE  PO!Init
<1>1. /\ len = 0 /\ repeat \in BOOLEAN /\ shuffled = FALSE /\ reply = NoReply
  BY DEF Init
<1>2. Items = <<>> /\ Played = <<>>
  BY <1>1, NoneIs DEF Items, Played
<1> QED BY <1>1, <1>2, RepliesOfPlayOrder DEF PO!Init, Items, Played, Listed

LEMMA NextIsNext ==
  ASSUME Inv, [SafeNext]_vars
  PROVE  [PO!Next]_(PO!vars)
<1>0. len \in Nat /\ Len(Items) = len /\ Idx = 0 .. Len(Items) - 1 /\ 0 .. len = 0 .. Len(Items)
  BY ItemsNow DEF Idx
<1>1. CASE Walk
  <2>1. CASE pls_get_starting \/ pls_get_last
    BY <2>1, EndsAreEnds, NextOfPlayOrder
  <2>2. CASE \E i \in 0 .. MaxLen : pls_get_next(i) \/ pls_get_prev(i)
    <3>1. PICK i \in 0 .. MaxLen : pls_get_next(i) \/ pls_get_prev(i)
      BY <2>2
    <3>2. CASE i >= len
      BY <3>1, <3>2, NowhereIsNowhere, NextOfPlayOrder
    <3>3. CASE i \in 0 .. len - 1
      <4>1. i \in 0 .. Len(Items) - 1
        BY <1>0, <3>3
      <4>2. PO!After(i) \/ PO!Before(i)
        BY <3>1, <3>3, NextIsAfter, PrevIsBefore
      <4> QED BY <4>1, <4>2, NextOfPlayOrder
    <3>4. i >= len \/ i \in 0 .. len - 1
      BY <1>0, BoundsAssumption
    <3> QED BY <3>2, <3>3, <3>4
  <2> QED BY <1>1, <2>1, <2>2 DEF Walk
<1>2. CASE OtherEdits
  <2>1. ASSUME NEW n \in 1 .. MaxInsert, NEW oids \in [1 .. n -> OIDs], NEW idx \in 0 .. len,
               pls_inserts(idx, oids, n)
        PROVE  PO!Next
    BY <1>0, <2>1, InsertIsInsert, NextOfPlayOrder
  <2>2. ASSUME NEW from \in Idx, NEW to \in Idx, pls_move(from, to) PROVE PO!Next
    BY <1>0, <2>2, MoveIsMove, NextOfPlayOrder
  <2>3. CASE pls_clear
    BY <2>3, ClearIsClear, NextOfPlayOrder
  <2>4. CASE pls_shuffle \/ pls_unshuffle
    BY <2>4, ShuffleIsShuffle, NextOfPlayOrder
  <2>5. ASSUME NEW on \in BOOLEAN, pls_set_repeat(on) PROVE PO!Next
    BY <2>5, RepeatIsRepeat, NextOfPlayOrder
  <2> QED BY <1>2, <2>1, <2>2, <2>3, <2>4, <2>5 DEF OtherEdits
<1>3. CASE \E idx \in Idx : ~LeavesHole(idx) /\ pls_remove(idx)
  BY <1>0, <1>3, RemoveIsRemove, NextOfPlayOrder
<1>4. CASE UNCHANGED <<content, reply>>
  BY <1>4 DEF content, PO!vars
<1> QED BY <1>1, <1>2, <1>3, <1>4 DEF SafeNext, SafeEdits, Settle, ops_settled, vars

\* The arrays of aplaylist.c behave as the play order of module PlayOrder: an edit leaves
\* the others their turns, and a walk extends the order only at its end and from the pool.
THEOREM PlaysInOrder == SafeSpec => ImplementsPlayOrder
<1>1. Init => Inv /\ PO!Init
  BY InitInv, InitIsInit
<1>2. Inv /\ [SafeNext]_vars => Inv'
  BY SafeNextKeepsInv
<1>3. Inv /\ [SafeNext]_vars => [PO!Next]_(PO!vars)
  BY NextIsNext
<1> QED BY <1>1, <1>2, <1>3, PTL DEF SafeSpec, ImplementsPlayOrder, PO!Spec

-----------------------------------------------------------------------------
(* The file: what is on disk, and what memory makes of it *)

\* A file that pls_save() could have written, but for its object ids.
WellFormed(f) ==
  /\ f = [kind |-> "image", repeat |-> f.repeat, shuffled |-> f.shuffled, len |-> f.len,
          poolst |-> f.poolst, pidx |-> f.pidx, oids |-> f.oids]
  /\ f.repeat \in BOOLEAN /\ f.shuffled \in BOOLEAN /\ f.len \in Nat /\ f.poolst \in Nat
  /\ f.oids \in [0 .. f.len - 1 -> OIDs]
  /\ Permutation(f.pidx, f.len)
  /\ f.shuffled => f.poolst \in 0 .. f.len
  /\ ~f.shuffled => f.pidx = [k \in 0 .. f.len - 1 |-> k]

\* A file is missing, cut short, or could have been saved.
OnDisk(f) == f \in {NoFile, EmptyFile, Junk} \/ WellFormed(f)

\* The first part of the invariant of the file: both files are as pls_save() leaves them.
Stored == OnDisk(file) /\ OnDisk(tmp)

\* What a restart may bring back is there.
Promised ==
  /\ present => file = NoFile \/ file.kind = "image"
  /\ \A f \in kept : f = NoFile \/ WellFormed(f)
  /\ kept \ {NoFile} # {} /\ tmp \in {NoFile, EmptyFile} => file \in kept \ {NoFile}
  /\ kept = {NoFile} /\ tmp = NoFile => file.kind # "image"

\* The kinds of files are different.
LEMMA KindsDiffer ==
  /\ NoFile.kind # "image" /\ EmptyFile.kind # "image" /\ Junk.kind # "image"
  /\ NoFile # EmptyFile /\ NoFile # Junk /\ EmptyFile # Junk
  /\ \A f : WellFormed(f) => f.kind = "image" /\ f \notin {NoFile, EmptyFile, Junk}
<1>1. NoFile.kind = "none" /\ EmptyFile.kind = "empty" /\ Junk.kind = "junk"
  BY DEF NoFile, EmptyFile, Junk
<1>2. ASSUME NEW f, WellFormed(f) PROVE f.kind = "image"
  <2>1. f = [kind |-> "image", repeat |-> f.repeat, shuffled |-> f.shuffled, len |-> f.len,
             poolst |-> f.poolst, pidx |-> f.pidx, oids |-> f.oids]
    BY <1>2 DEF WellFormed
  <2> DEFINE F(a, b, c, d, e, g) ==
        [kind |-> "image", repeat |-> a, shuffled |-> b, len |-> c, poolst |-> d,
         pidx |-> e, oids |-> g]
  <2>2. \A a, b, c, d, e, g : F(a, b, c, d, e, g).kind = "image"
    OBVIOUS
  <2>3. f = F(f.repeat, f.shuffled, f.len, f.poolst, f.pidx, f.oids)
    BY <2>1
  <2> HIDE DEF F
  <2> QED BY <2>2, <2>3
<1> QED BY <1>1, <1>2

\* The parts of what pls_save() writes.
LEMMA ImageIs ==
  /\ Image.kind = "image" /\ Image.repeat = repeat /\ Image.shuffled = shuffled
  /\ Image.len = len /\ Image.poolst = poolst /\ Image.oids = vidx
  /\ Image.pidx = IF shuffled THEN pidx ELSE [k \in Idx |-> k]
BY DEF Image

\* What pls_save() writes can be read back.
LEMMA ImageWellFormed ==
  ASSUME Inv
  PROVE  WellFormed(Image)
<1>1. /\ len \in Nat /\ poolst \in Nat /\ repeat \in BOOLEAN /\ shuffled \in BOOLEAN
      /\ vidx \in [0 .. len - 1 -> OIDs]
  BY DEF Inv, TypeOK, Idx
<1>2. shuffled => Permutation(pidx, len) /\ poolst \in 0 .. len
  <2> SUFFICES ASSUME shuffled PROVE Permutation(pidx, len) /\ poolst \in 0 .. len
    OBVIOUS
  <2>1. Inverses(pidx, iidx, len)
    BY OrderOfInv
  <2> QED BY <1>1, <2>1, InverseIsPermutation DEF Inv, PoolInRange
<1>3. Permutation([k \in Idx |-> k], len)
  BY <1>1 DEF Permutation, Idx
<1>4. Permutation(Image.pidx, len)
  BY <1>2, <1>3, ImageIs
<1>5. Image = [kind |-> Image.kind, repeat |-> Image.repeat, shuffled |-> Image.shuffled,
               len |-> Image.len, poolst |-> Image.poolst, pidx |-> Image.pidx,
               oids |-> Image.oids]
  BY DEF Image
<1>6. ~shuffled => Image.pidx = [k \in 0 .. len - 1 |-> k]
  BY ImageIs DEF Idx
<1> QED BY <1>1, <1>2, <1>4, <1>5, <1>6, ImageIs DEF WellFormed

\* A line that was cut off changes one object id.
LEMMA CutOffWellFormed ==
  ASSUME Inv, NEW f \in CutOff(Image)
  PROVE  WellFormed(f)
<1>1. WellFormed(Image)
  BY ImageWellFormed
<1>2. Image.len # 0 /\ Image.len \in Nat
  BY <1>1 DEF CutOff, WellFormed
<1>3. PICK o \in Prefix[Image.oids[Image.len - 1]] : f = [Image EXCEPT !.oids[Image.len - 1] = o]
  BY <1>2 DEF CutOff
<1>4. Image.oids \in [0 .. Image.len - 1 -> OIDs]
  BY <1>1 DEF WellFormed
<1>5. Image.len - 1 \in 0 .. Image.len - 1
  BY <1>2
<1>6. o \in OIDs
  <2>1. Image.oids[Image.len - 1] \in OIDs
    BY <1>4, <1>5
  <2> QED BY <1>3, <2>1, ConversionAssumption
<1>7. PICK oids : oids = [Image.oids EXCEPT ![Image.len - 1] = o]
  OBVIOUS
<1>8. oids \in [0 .. Image.len - 1 -> OIDs]
  BY <1>4, <1>6, <1>7
<1>9. f = [Image EXCEPT !.oids = oids]
  BY <1>3, <1>7
<1>10. f = [kind |-> "image", repeat |-> Image.repeat, shuffled |-> Image.shuffled,
            len |-> Image.len, poolst |-> Image.poolst, pidx |-> Image.pidx, oids |-> oids]
  BY <1>9 DEF Image
<1> QED BY <1>1, <1>8, <1>10 DEF WellFormed

\* A playlist that is loaded from a whole file has arrays that are inverse to each other.
LEMMA LoadedKeepsInv ==
  ASSUME NEW f, WellFormed(f), Loaded(f)
  PROVE  Inv'
<1>1. /\ len' = f.len /\ repeat' = f.repeat /\ shuffled' = f.shuffled /\ poolst' = f.poolst
      /\ vidx' = [i \in 0 .. f.len - 1 |-> Cut[f.oids[i]]]
      /\ pidx' = IF f.shuffled THEN f.pidx ELSE NoArray
      /\ iidx' = IF f.shuffled THEN Reindexed(f.pidx, f.len, f.pidx) ELSE NoArray
      /\ dirty' = TRUE /\ timer' = FALSE /\ reply' = NoReply
  BY DEF Loaded
<1>2. /\ len' \in Nat /\ poolst' \in Nat /\ repeat' \in BOOLEAN /\ shuffled' \in BOOLEAN
  BY <1>1 DEF WellFormed
<1>3. vidx' \in [0 .. len' - 1 -> OIDs]
  <2>1. \A i \in 0 .. f.len - 1 : Cut[f.oids[i]] \in OIDs
    BY ConversionAssumption DEF WellFormed
  <2> QED BY <1>1, <2>1
<1>4. shuffled' => Inverses(pidx', iidx', len') /\ poolst' \in 0 .. len'
  <2> SUFFICES ASSUME shuffled' PROVE Inverses(pidx', iidx', len') /\ poolst' \in 0 .. len'
    OBVIOUS
  <2>1. Permutation(f.pidx, f.len) /\ f.len \in Nat
    BY DEF WellFormed
  <2>2. pidx' = f.pidx /\ iidx' = Reindexed(f.pidx, f.len, f.pidx)
    BY <1>1
  <2>3. Inverses(f.pidx, Reindexed(f.pidx, f.len, f.pidx), f.len)
    BY <2>1, ReindexedIsInverse
  <2> QED BY <1>1, <2>2, <2>3 DEF WellFormed
<1>5. shuffled' => pidx' \in [0 .. len' - 1 -> Nat] /\ iidx' \in [0 .. len' - 1 -> Nat]
  <2> SUFFICES ASSUME shuffled'
               PROVE  pidx' \in [0 .. len' - 1 -> Nat] /\ iidx' \in [0 .. len' - 1 -> Nat]
    OBVIOUS
  <2>1. Inverses(pidx', iidx', len')
    BY <1>4
  <2> QED BY <1>2, <2>1, InversesAreNat
<1>6. reply' \in Reply
  BY <1>1 DEF NoReply, Reply
<1>7. TypeOK'
  BY <1>1, <1>2, <1>3, <1>5, <1>6 DEF TypeOK, Idx
<1>8. PlsCheck'
  BY <1>4 DEF PlsCheck, Inverses, Idx
<1>9. PoolInRange' /\ TimerOnlyWhenDirty'
  BY <1>1, <1>4 DEF PoolInRange, TimerOnlyWhenDirty
<1> QED BY <1>7, <1>8, <1>9 DEF Inv

\* Without a playlist in memory there is nothing that could be wrong.
LEMMA ForgottenKeepsInv ==
  ASSUME Forgotten
  PROVE  Inv'
<1>1. TypeOK'
  <2>1. vidx' \in [0 .. len' - 1 -> OIDs]
    BY DEF Forgotten, NoArray
  <2>2. reply' \in Reply
    BY DEF Forgotten, NoReply, Reply
  <2> QED BY <2>1, <2>2 DEF Forgotten, TypeOK, Idx
<1> QED BY <1>1 DEF Forgotten, Inv, PlsCheck, PoolInRange, TimerOnlyWhenDirty

\* A save leaves files that can be read, whether it fails or not.
LEMMA SaveKeepsStored ==
  ASSUME Inv, Stored, NEW outcome, pls_save(outcome)
  PROVE  Stored'
<1>1. OnDisk(Image)
  BY ImageWellFormed DEF OnDisk
<1>2. file' \in {file, Image} /\ tmp' \in {tmp, NoFile, Image}
  BY DEF pls_save
<1>3. OnDisk(NoFile)
  BY DEF OnDisk
<1> QED BY <1>1, <1>2, <1>3 DEF Stored

\* First pass of load_playlists().
LEMMA RecoveredIs ==
  ASSUME Stored, NEW inDir
  PROVE  OnDisk(Recovered(inDir)[1]) /\ OnDisk(Recovered(inDir)[2])
<1>1. OnDisk(NoFile)
  BY DEF OnDisk
<1> QED BY <1>1 DEF Stored, Recovered, disk

\* What is loaded at startup is well formed.
LEMMA StartKeeps ==
  ASSUME Inv, Stored, Start
  PROVE  Inv' /\ Stored'
<1>1. PICK inDir \in Cwds :
        LET files == Recovered(inDir)
            whole == {files[k] : k \in {j \in {1, 2} : files[j].kind = "image"}}
        IN  /\ file' = files[1] /\ tmp' = files[2]
            /\ present' = (whole # {})
            /\ IF whole = {} THEN Forgotten /\ kept' = kept \cap {NoFile}
               ELSE \E f \in whole : Loaded(f) /\ kept' = {f}
  BY DEF Start
<1> DEFINE files == Recovered(inDir)
           whole == {files[k] : k \in {j \in {1, 2} : files[j].kind = "image"}}
<1>2. OnDisk(files[1]) /\ OnDisk(files[2])
  BY RecoveredIs
<1>3. Stored'
  BY <1>1, <1>2 DEF Stored
<1>4. ASSUME NEW f \in whole PROVE WellFormed(f)
  <2>1. PICK k \in {1, 2} : f = files[k] /\ files[k].kind = "image"
    OBVIOUS
  <2>2. OnDisk(f) /\ f.kind = "image"
    BY <1>2, <2>1
  <2> QED BY <2>2, KindsDiffer DEF OnDisk
<1>5. CASE whole = {}
  BY <1>1, <1>3, <1>5, ForgottenKeepsInv
<1>6. CASE whole # {}
  BY <1>1, <1>3, <1>4, <1>6, LoadedKeepsInv
<1> QED BY <1>5, <1>6

\* Every step keeps memory and files well formed.
LEMMA FNextKeeps ==
  ASSUME Inv, Stored, [FNext]_fvars
  PROVE  Inv' /\ Stored'
<1>1. CASE InMemory(Walk)
  BY <1>1, WalkKeepsInv DEF InMemory, disk, Stored
<1>2. CASE InMemory(SafeEdits)
  BY <1>2, SafeEditsKeepInv DEF InMemory, disk, Stored
<1>3. ASSUME NEW outcome \in Outcomes, SettleAndSave(outcome)
      PROVE  Inv' /\ Stored'
  <2>1. Settle
    BY <1>3 DEF SettleAndSave, Settle
  <2> QED BY <1>3, <2>1, SettleKeepsInv, SaveKeepsStored DEF SettleAndSave
<1>4. ASSUME NEW outcome \in Outcomes, Exit(outcome)
      PROVE  Inv' /\ Stored'
  BY <1>4, ForgottenKeepsInv, SaveKeepsStored DEF Exit, disk, Stored
<1>5. CASE destroy_playlist
  BY <1>5, ForgottenKeepsInv DEF destroy_playlist, Stored, OnDisk
<1>6. CASE Killed
  BY <1>6, ForgottenKeepsInv DEF Killed, disk, Stored
<1>7. CASE KilledSaving
  <2>1. tmp' \in {EmptyFile, Junk, Image} \cup CutOff(Image) /\ file' = file
    BY <1>7 DEF KilledSaving
  <2>2. OnDisk(tmp')
    BY <2>1, ImageWellFormed, CutOffWellFormed DEF OnDisk
  <2> QED BY <1>7, <2>1, <2>2, ForgottenKeepsInv DEF KilledSaving, Stored
<1>8. CASE Start
  BY <1>8, StartKeeps
<1>9. CASE UNCHANGED fvars
  BY <1>9 DEF fvars, vars, content, disk, Inv, TypeOK, PlsCheck, PoolInRange,
              TimerOnlyWhenDirty, Idx, Stored
<1> QED BY <1>1, <1>2, <1>3, <1>4, <1>5, <1>6, <1>7, <1>8, <1>9 DEF FNext

\* So are they in the beginning.
LEMMA InitKeeps == FInit => Inv /\ Stored
BY InitInv DEF FInit, Stored, OnDisk

\* Whatever save fails, wherever the process is killed, and whichever of its files is read
\* first: a playlist that is loaded is as well formed as one that was edited.
THEOREM LoadedIsSound == FSpec => [](TypeOK /\ PlsCheck /\ PoolInRange)
<1>1. FInit => Inv /\ Stored
  BY InitKeeps
<1>2. Inv /\ Stored /\ [FNext]_fvars => (Inv /\ Stored)'
  BY FNextKeeps
<1>3. Inv /\ Stored => TypeOK /\ PlsCheck /\ PoolInRange
  BY DEF Inv
<1> QED BY <1>1, <1>2, <1>3, PTL DEF FSpec

-----------------------------------------------------------------------------
(* What a restart brings back *)

\* No id has a white space in it, and the daemon is started in the playlist directory:
\* otherwise an id is cut when it is read, and a left over .tmp file is not found.
ReadAsWritten == Cwds \subseteq {TRUE} /\ \A o \in OIDs : Cut[o] = o

\* The inductive invariant of a playlist and its file.
FInv == Inv /\ Stored /\ Promised /\ NoEditForgotten

\* A file read as it was written is what a save would write again.
LEMMA LoadedIsImage ==
  ASSUME ReadAsWritten, NEW f, WellFormed(f), Loaded(f)
  PROVE  Image' = f
<1>1. /\ len' = f.len /\ repeat' = f.repeat /\ shuffled' = f.shuffled /\ poolst' = f.poolst
      /\ vidx' = [i \in 0 .. f.len - 1 |-> Cut[f.oids[i]]]
      /\ pidx' = IF f.shuffled THEN f.pidx ELSE NoArray
  BY DEF Loaded
<1>2. vidx' = f.oids
  <2>1. f.oids \in [0 .. f.len - 1 -> OIDs]
    BY DEF WellFormed
  <2>2. \A i \in 0 .. f.len - 1 : Cut[f.oids[i]] = f.oids[i]
    BY <2>1 DEF ReadAsWritten
  <2> QED BY <1>1, <2>1, <2>2
<1>3. (IF shuffled THEN pidx ELSE [k \in Idx |-> k])' = f.pidx
  BY <1>1 DEF WellFormed, Idx
<1>4. Image' = [kind |-> "image", repeat |-> f.repeat, shuffled |-> f.shuffled, len |-> f.len,
                poolst |-> f.poolst, pidx |-> f.pidx, oids |-> f.oids]
  BY <1>1, <1>2, <1>3 DEF Image
<1> QED BY <1>4 DEF WellFormed

\* The file that a save leaves is there, and whole.
LEMMA ImageOnDisk ==
  ASSUME Inv
  PROVE  Image \notin {NoFile, EmptyFile, Junk} /\ Image.kind = "image"
BY ImageWellFormed, KindsDiffer

\* A save promises what it wrote, or leaves the promise of an earlier one.
LEMMA SaveKeepsPromised ==
  ASSUME Inv, Stored, Promised, present, NEW outcome, pls_save(outcome), present' \in {present, FALSE}
  PROVE  Promised'
<1>1. CASE outcome = "ok" /\ file' = Image /\ tmp' = NoFile /\ kept' = {Image}
  BY <1>1, ImageWellFormed, ImageOnDisk DEF Promised
<1>2. CASE UNCHANGED <<file, tmp, kept>>
  BY <1>2 DEF Promised
<1>3. CASE file' = file /\ tmp' = NoFile /\ kept' = {file} \ {NoFile}
  <2>1. file = NoFile \/ file.kind = "image"
    BY DEF Promised
  <2>2. file # NoFile => WellFormed(file)
    BY <2>1, KindsDiffer DEF Stored, OnDisk
  <2>3. kept' \ {NoFile} # {} => file # NoFile /\ kept' = {file}
    BY <1>3
  <2> QED BY <1>3, <2>1, <2>2, <2>3, KindsDiffer DEF Promised
<1>4. CASE file' = file /\ tmp' = Image /\ kept' = {Image}
  BY <1>4, ImageWellFormed, ImageOnDisk DEF Promised
<1> QED BY <1>1, <1>2, <1>3, <1>4 DEF pls_save

\* Recovery finds what was promised: a .tmp file replaces the file, an empty one does not.
LEMMA StartIs ==
  ASSUME ReadAsWritten, Stored, Start
  PROVE  /\ tmp' = NoFile
         /\ file' = IF tmp \in {NoFile, EmptyFile} THEN file ELSE tmp
         /\ present' = (file'.kind = "image")
         /\ present' => /\ WellFormed(file') /\ Loaded(file')
                        /\ Image' = file' /\ kept' = {file'}
         /\ ~present' => Forgotten /\ kept' = kept \cap {NoFile}
<1>1. PICK inDir \in Cwds :
        LET files == Recovered(inDir)
            whole == {files[k] : k \in {j \in {1, 2} : files[j].kind = "image"}}
        IN  /\ file' = files[1] /\ tmp' = files[2]
            /\ present' = (whole # {})
            /\ IF whole = {} THEN Forgotten /\ kept' = kept \cap {NoFile}
               ELSE \E f \in whole : Loaded(f) /\ kept' = {f}
  BY DEF Start
<1> DEFINE files == Recovered(inDir)
           whole == {files[k] : k \in {j \in {1, 2} : files[j].kind = "image"}}
<1>2. inDir = TRUE
  BY DEF ReadAsWritten
<1>3. files = IF tmp \in {NoFile, EmptyFile} THEN <<file, NoFile>> ELSE <<tmp, NoFile>>
  BY <1>2 DEF Recovered, disk
<1>4. files[1] = (IF tmp \in {NoFile, EmptyFile} THEN file ELSE tmp) /\ files[2] = NoFile
  BY <1>3
<1>5. whole = IF file'.kind = "image" THEN {file'} ELSE {}
  BY <1>1, <1>4, KindsDiffer
<1>6. OnDisk(file')
  BY <1>1, <1>4 DEF Stored
<1>7. file'.kind = "image" => WellFormed(file')
  BY <1>6, KindsDiffer DEF OnDisk
<1> HIDE DEF files, whole
<1>8. CASE file'.kind = "image"
  <2>1. whole = {file'}
    BY <1>5, <1>8
  <2>2. Loaded(file') /\ kept' = {file'} /\ present'
    BY <1>1, <2>1 DEF whole, files
  <2> QED BY <1>1, <1>4, <1>7, <1>8, <2>2, LoadedIsImage DEF files
<1>9. CASE file'.kind # "image"
  <2>1. whole = {}
    BY <1>5, <1>9
  <2>2. Forgotten /\ kept' = kept \cap {NoFile} /\ ~present' /\ present' = FALSE
    BY <1>1, <2>1 DEF whole, files
  <2> QED BY <1>1, <1>4, <1>9, <2>2 DEF files
<1> QED BY <1>8, <1>9

\* A restart brings back what was promised.
LEMMA StartComesBack ==
  ASSUME ReadAsWritten, Stored, Promised, Start
  PROVE  /\ kept \ {NoFile} # {} /\ TmpWhole => present' /\ Image' \in kept
         /\ kept = {NoFile} /\ tmp = NoFile => ~present'
<1>1. ASSUME kept \ {NoFile} # {}, TmpWhole PROVE present' /\ Image' \in kept
  <2>1. file' \in kept \ {NoFile}
    BY <1>1, StartIs DEF TmpWhole, Promised
  <2>2. WellFormed(file')
    BY <2>1 DEF Promised
  <2> QED BY <2>1, <2>2, StartIs, KindsDiffer
<1>2. ASSUME kept = {NoFile}, tmp = NoFile PROVE ~present'
  BY <1>2, StartIs DEF Promised
<1> QED BY <1>1, <1>2

\* Every step keeps what is promised.
LEMMA FNextKeepsPromised ==
  ASSUME ReadAsWritten, Inv, Stored, Promised, [FNext]_fvars
  PROVE  Promised'
<1>1. CASE UNCHANGED <<present, disk, kept>>
  BY <1>1 DEF disk, Promised
<1>2. ASSUME NEW outcome \in Outcomes, SettleAndSave(outcome) PROVE Promised'
  BY <1>2, SaveKeepsPromised DEF SettleAndSave
<1>3. ASSUME NEW outcome \in Outcomes, Exit(outcome) PROVE Promised'
  <2>1. CASE present
    BY <1>3, <2>1, SaveKeepsPromised DEF Exit
  <2>2. CASE ~present
    BY <1>3, <2>2 DEF Exit, disk, Promised
  <2> QED BY <2>1, <2>2
<1>4. CASE destroy_playlist
  BY <1>4, KindsDiffer DEF destroy_playlist, Promised
<1>5. CASE Killed
  BY <1>5 DEF Killed, disk, Promised
<1>6. CASE KilledSaving
  <2>1. /\ present /\ present' = FALSE /\ file' = file
        /\ tmp' \in {EmptyFile, Junk, Image} \cup CutOff(Image)
        /\ kept' = IF file = NoFile THEN {} ELSE {file, Image}
    BY <1>6 DEF KilledSaving
  <2>2. file # NoFile => WellFormed(file)
    BY <2>1, KindsDiffer DEF Promised, Stored, OnDisk
  <2>3. tmp' # NoFile
    BY <2>1, ImageWellFormed, CutOffWellFormed, KindsDiffer
  <2> QED BY <2>1, <2>2, <2>3, ImageWellFormed, KindsDiffer DEF Promised
<1>7. CASE Start
  BY <1>7, StartIs, KindsDiffer DEF Promised
<1> QED BY <1>1, <1>2, <1>3, <1>4, <1>5, <1>6, <1>7 DEF FNext, InMemory, fvars

-----------------------------------------------------------------------------
(* No edit is forgotten *)

\* Walks change nothing that a user edited, and do not stop the timer.
LEMMA WalkEditsNothing ==
  ASSUME Walk
  PROVE  UNCHANGED <<len, vidx, repeat, shuffled, dirty, timer>>
<1>1. \A o, r : Answer(o, r) => UNCHANGED <<len, vidx, repeat, shuffled, dirty, timer>>
  BY DEF Answer
<1> QED BY <1>1 DEF Walk, pls_get_starting, pls_get_last, pls_get_next, pls_get_prev,
                    NextUnshuffled, NextShuffled, PrevUnshuffled, PrevShuffled

\* Every edit starts the timer.
LEMMA EditsStartTimer ==
  ASSUME SafeEdits
  PROVE  timer'
<1>1. i_am_dirty => timer'
  BY DEF i_am_dirty
<1> QED BY <1>1 DEF SafeEdits, OtherEdits, pls_inserts, pls_remove, pls_move, pls_clear,
                    pls_shuffle, pls_unshuffle, pls_set_repeat

\* What a user edited, in memory.
LEMMA EditedOf ==
  /\ Edited(Image) = <<repeat, shuffled, len, vidx>>
  /\ Edited(Image)' = <<repeat', shuffled', len', vidx'>>
  /\ Edited(Image') = Edited(Image)'
BY ImageIs DEF Edited, Image

\* Only a save stops the timer, and it wrote what memory holds.
LEMMA FNextForgetsNothing ==
  ASSUME ReadAsWritten, Inv, Stored, NoEditForgotten, [FNext]_fvars
  PROVE  NoEditForgotten'
<1>1. ASSUME UNCHANGED <<up, present, file, len, vidx, repeat, shuffled, timer>>
      PROVE  NoEditForgotten'
  BY <1>1, EditedOf DEF NoEditForgotten, Edited
<1>2. CASE InMemory(Walk)
  BY <1>1, <1>2, WalkEditsNothing DEF InMemory, disk
<1>3. CASE InMemory(SafeEdits)
  BY <1>3, EditsStartTimer DEF InMemory, NoEditForgotten
<1>4. ASSUME NEW outcome \in Outcomes, SettleAndSave(outcome) PROVE NoEditForgotten'
  <2>1. timer' = ~(outcome = "ok") /\ UNCHANGED content
    BY <1>4 DEF SettleAndSave, ops_settled
  <2>2. outcome = "ok" => file' = Image
    BY <1>4 DEF SettleAndSave, pls_save
  <2>3. Edited(Image)' = Edited(Image)
    BY <2>1, EditedOf DEF content
  <2>4. Edited(file)' = Edited(file')
    BY DEF Edited
  <2> QED BY <2>1, <2>2, <2>3, <2>4, ImageIs DEF NoEditForgotten
<1>5. CASE ~up' \/ ~present'
  BY <1>5 DEF NoEditForgotten
<1>6. CASE Start
  <2>1. CASE present'
    <3>1. file'.kind = "image" /\ Image' = file'
      BY <1>6, <2>1, StartIs
    <3>2. Edited(file)' = Edited(file') /\ Edited(Image)' = Edited(Image')
      BY EditedOf DEF Edited
    <3> QED BY <3>1, <3>2 DEF NoEditForgotten
  <2>2. CASE ~present'
    BY <1>5, <2>2
  <2> QED BY <2>1, <2>2
<1>7. CASE UNCHANGED fvars
  BY <1>1, <1>7 DEF fvars, vars, content, disk
<1>8. CASE \/ \E outcome \in Outcomes : Exit(outcome)
           \/ destroy_playlist \/ Killed \/ KilledSaving
  BY <1>5, <1>8 DEF Exit, destroy_playlist, Killed, KilledSaving
<1> QED BY <1>2, <1>3, <1>4, <1>6, <1>7, <1>8 DEF FNext

\* The invariant holds.
LEMMA FInvHolds == ASSUME ReadAsWritten PROVE FSpec => []FInv
<1>1. FInit => FInv
  <2>1. ASSUME FInit PROVE Promised /\ NoEditForgotten
    BY <2>1 DEF FInit, Promised, NoEditForgotten
  <2> QED BY <2>1, InitKeeps DEF FInv
<1>2. FInv /\ [FNext]_fvars => FInv'
  BY FNextKeeps, FNextKeepsPromised, FNextForgetsNothing DEF FInv
<1> QED BY <1>1, <1>2, PTL DEF FSpec

\* No edit is forgotten: a playlist whose timer is not running is on disk as the user
\* left it (i_am_dirty(), save_me(), pls_load()).
THEOREM EditsAreKept == ASSUME ReadAsWritten PROVE FSpec => []NoEditForgotten
<1>1. FInv => NoEditForgotten
  BY DEF FInv
<1> QED BY <1>1, FInvHolds, PTL

\* A restart brings back, whole, what the last completed save wrote; a playlist that was
\* destroyed does not come back (pls_save(), load_playlists(), destroy_playlist()).
THEOREM SavesComeBack == ASSUME ReadAsWritten PROVE FSpec => SavedComesBack
<1>1. FInv /\ [FNext]_fvars =>
        [~up /\ up' =>
           /\ kept \ {NoFile} # {} /\ TmpWhole => present' /\ Image' \in kept
           /\ kept = {NoFile} /\ tmp = NoFile => ~present']_fvars
  <2> SUFFICES ASSUME FInv, FNext, ~up, up'
               PROVE  /\ kept \ {NoFile} # {} /\ TmpWhole => present' /\ Image' \in kept
                      /\ kept = {NoFile} /\ tmp = NoFile => ~present'
    OBVIOUS
  <2>1. Start
    BY DEF FNext, InMemory, SettleAndSave, Exit, destroy_playlist, Killed, KilledSaving
  <2> QED BY <2>1, StartComesBack DEF FInv
<1> QED BY <1>1, FInvHolds, PTL DEF FSpec, SavedComesBack
=============================================================================
