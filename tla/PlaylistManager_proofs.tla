------------------------ MODULE PlaylistManager_proofs ------------------------
(***************************************************************************)
(* Theorems about PlaylistManager, for any applications and any number of  *)
(* playlists, references and messages under way.                           *)
(*                                                                         *)
(* Until the daemon is restarted, a manager and the daemon agree but for   *)
(* what is under way between them: the signals, in order, and the reply    *)
(* that overtakes them.  The invariant says of each application and each   *)
(* id what the signals that wait may tell of it, and in which order.       *)
(***************************************************************************)
EXTENDS PlaylistManager, FiniteSetTheorems, TLAPS

CreatedMsg(id) == [type |-> "playlist_created", id |-> id]
DestroyedMsg(id) == [type |-> "playlist_destroyed", id |-> id]

SignalType ==
  [type : {"playlist_created", "playlist_destroyed", "playlist_destruction_failed"}, id : Ids]
RequestType == [op : {"create", "dup", "get", "list", "destroy"}, id : 0 .. MaxId]
ReplyType == [ok : BOOLEAN, ids : Seq(Ids), at : {"none", "app"}]

TypeInv ==
  /\ Last_id \in 0 .. MaxId /\ live \subseteq 1 .. Last_id /\ made \subseteq 1 .. Last_id
  /\ requests \in [Apps -> Seq(RequestType)]
  /\ reply \in [Apps -> ReplyType]
  /\ signals \in [Apps -> Seq(SignalType)]
  /\ call \in [Apps -> {NoCall} \cup RequestType]
  /\ playlists \in [Apps -> Seq(Ids)]
  /\ announced \in [Apps -> [Ids -> Nat]]
  /\ gone \in [Apps -> SUBSET Ids]

\* An application sends nothing that is answered before it got the last answer,
\* and a request that is answered is the last it sent.
OneCall(a) ==
  /\ call[a] = NoCall => reply[a] = NoReply
  /\ \A k \in DOMAIN requests[a] :
       requests[a][k].op # "destroy" =>
         k = Len(requests[a]) /\ call[a] # NoCall /\ reply[a] = NoReply

Waits(a, m) == \E k \in DOMAIN signals[a] : signals[a][k] = m

\* The creation of a playlist is under way once, and then not announced yet.
CreatedOnce(a, id) ==
  /\ \A j, k \in DOMAIN signals[a] :
       signals[a][j] = CreatedMsg(id) /\ signals[a][k] = CreatedMsg(id) => j = k
  /\ Waits(a, CreatedMsg(id)) => id \in made
  /\ announced[a][id] = IF id \in made /\ ~Waits(a, CreatedMsg(id)) THEN 1 ELSE 0

\* Its destruction comes after its creation, and then it is not there.
InOrderOf(a, id) ==
  /\ \A k \in DOMAIN signals[a] :
       signals[a][k] = CreatedMsg(id) =>
         id \in live \/ \E j \in DOMAIN signals[a] : j > k /\ signals[a][j] = DestroyedMsg(id)
  /\ \A k \in DOMAIN signals[a] :
       signals[a][k] = DestroyedMsg(id) =>
         /\ id \notin live /\ id <= Last_id
         /\ \A j \in DOMAIN signals[a] : j > k => signals[a][j] # CreatedMsg(id)

\* What the manager has, or is about to have from a reply, is there or its
\* destruction is under way.
Met(a, id) ==
  id \in Known(a) \cup ToSet(reply[a].ids) => id \in live \/ Waits(a, DestroyedMsg(id))

\* What left .playlists is destroyed, and nothing is under way that names it as new.
GoneForGood(a, id) ==
  id \in gone[a] =>
    /\ id \notin live /\ id <= Last_id /\ id \notin Known(a) \cup ToSet(reply[a].ids)
    /\ ~Waits(a, CreatedMsg(id))

Followed(a, id) ==
  CreatedOnce(a, id) /\ InOrderOf(a, id) /\ Met(a, id) /\ GoneForGood(a, id)

Inv ==
  /\ restarts \in Nat
  /\ restarts = 0 =>
       /\ TypeInv
       /\ \A a \in Apps : OneCall(a)
       /\ \A a \in Apps, id \in Ids : Followed(a, id)

-----------------------------------------------------------------------------
(* Sequences *)

LEMMA AppendAt ==
  ASSUME NEW S, NEW q \in Seq(S), NEW m \in S
  PROVE  /\ Append(q, m) \in Seq(S)
         /\ DOMAIN Append(q, m) = DOMAIN q \cup {Len(q) + 1}
         /\ \A k \in DOMAIN q : Append(q, m)[k] = q[k] /\ k < Len(q) + 1 /\ k \in Nat
         /\ Append(q, m)[Len(q) + 1] = m
OBVIOUS

LEMMA TailAt ==
  ASSUME NEW S, NEW q \in Seq(S), q # <<>>
  PROVE  /\ Tail(q) \in Seq(S) /\ Head(q) = q[1] /\ 1 \in DOMAIN q
         /\ \A k \in DOMAIN Tail(q) : k + 1 \in DOMAIN q /\ Tail(q)[k] = q[k + 1]
         /\ \A k \in DOMAIN q : k # 1 => k - 1 \in DOMAIN Tail(q) /\ Tail(q)[k - 1] = q[k]
         /\ DOMAIN q \subseteq Nat /\ DOMAIN Tail(q) \subseteq Nat
OBVIOUS

LEMMA IdsFinite == IsFiniteSet(Ids)
BY FS_Interval, ManagerAssumption DEF Ids

LEMMA InOrderIsSeq ==
  ASSUME NEW S, IsFiniteSet(S), NEW s \in InOrder(S)
  PROVE  s \in Seq(S)
<1>1. Cardinality(S) \in Nat
  BY FS_CardinalityType
<1>2. s \in [1 .. Cardinality(S) -> S]
  BY DEF InOrder
<1> QED BY <1>1, <1>2

\* What is registered is what was there and the ids of the reply.
LEMMA RegisteredIs ==
  ASSUME NEW pls \in Seq(Ids), NEW id \in Ids
  PROVE  Registered(pls, id) \in Seq(Ids) /\ ToSet(Registered(pls, id)) = ToSet(pls) \cup {id}
<1>1. ToSet(Append(pls, id)) = ToSet(pls) \cup {id}
  BY AppendAt DEF ToSet
<1> QED BY <1>1, AppendAt DEF Registered

LEMMA JoinedIs ==
  ASSUME NEW p \in Seq(Ids), NEW q \in Seq(Ids)
  PROVE  p \o q \in Seq(Ids) /\ ToSet(p \o q) \subseteq ToSet(p) \cup ToSet(q)
<1>1. p \o q \in Seq(Ids)
  OBVIOUS
<1>2. ASSUME NEW k \in DOMAIN (p \o q)
      PROVE  (p \o q)[k] \in ToSet(p) \cup ToSet(q)
  <2>1. PICK m \in Nat, n \in Nat : m = Len(p) /\ n = Len(q)
    OBVIOUS
  <2>2. k \in 1 .. m + n
    BY <2>1
  <2>3. CASE k <= m
    BY <2>1, <2>2, <2>3 DEF ToSet
  <2>4. CASE k > m
    <3>1. k - m \in 1 .. n /\ (p \o q)[k] = q[k - m]
      BY <2>1, <2>2, <2>4
    <3>2. k - m \in DOMAIN q
      BY <2>1, <3>1
    <3> QED BY <3>1, <3>2 DEF ToSet
  <2> QED BY <2>2, <2>3, <2>4
<1> QED BY <1>1, <1>2 DEF ToSet

-----------------------------------------------------------------------------
(* What the daemon does *)

\* The effect of a request, or of another application's.
Effect ==
  \/ Made
  \/ \E id \in live : Handle_destroy(id) /\ UNCHANGED <<Last_id, made>>
  \/ UNCHANGED <<live, Last_id, made, signals>>

Replied(a) ==
  \E ok \in BOOLEAN, ids \in Seq(Ids) :
    /\ ToSet(ids) \subseteq live'
    /\ reply' = [reply EXCEPT ![a] = [ok |-> ok, ids |-> ids, at |-> "app"]]

LEMMA LiveAreIds ==
  ASSUME TypeInv
  PROVE  live \subseteq Ids /\ made \subseteq Ids /\ Last_id \in Nat
<1>1. Last_id \in 0 .. MaxId /\ MaxId \in Nat /\ live \subseteq 1 .. Last_id /\ made \subseteq 1 .. Last_id
  BY ManagerAssumption DEF TypeInv
<1>2. 1 .. Last_id \subseteq 1 .. MaxId
  BY <1>1
<1> QED BY <1>1, <1>2 DEF Ids

\* A signal is put behind those that wait.
LEMMA BroadcastTyped ==
  ASSUME signals \in [Apps -> Seq(SignalType)], NEW m \in SignalType,
         signals' = [a \in Apps |-> Append(signals[a], m)]
  PROVE  signals' \in [Apps -> Seq(SignalType)]
<1>1. \A a \in Apps : Append(signals[a], m) \in Seq(SignalType)
  BY AppendAt
<1> QED BY <1>1

LEMMA ListedIs ==
  ASSUME TypeInv, NEW ids \in SUBSET Ids, NEW s \in Listed(ids)
  PROVE  s \in Seq(Ids) /\ ToSet(s) \subseteq live
<1>1. IsFiniteSet(ids \cap live)
  BY IdsFinite, FS_Subset
<1>2. s \in Seq(ids \cap live)
  BY <1>1, InOrderIsSeq DEF Listed
<1> QED BY <1>2 DEF ToSet

LEMMA MadeIs ==
  ASSUME TypeInv, Made
  PROVE  /\ Last_id' = Last_id + 1 /\ Last_id' \in Ids /\ Last_id \in Nat
         /\ live' = live \cup {Last_id'} /\ made' = made \cup {Last_id'}
         /\ Last_id' \notin live /\ Last_id' \notin made
         /\ signals' = [a \in Apps |-> Append(signals[a], CreatedMsg(Last_id'))]
BY ManagerAssumption DEF Made, Broadcast, CreatedMsg, TypeInv, Ids

\* A list of one id, as a reply.
LEMMA OneIs ==
  ASSUME NEW id \in Ids
  PROVE  <<id>> \in Seq(Ids) /\ ToSet(<<id>>) = {id}
BY DEF ToSet

LEMMA EmptyIs == <<>> \in Seq(Ids) /\ ToSet(<<>>) = {}
BY DEF ToSet

LEMMA HandleIs ==
  ASSUME TypeInv, NEW a \in Apps, Handle(a)
  PROVE  /\ Effect
         /\ requests[a] # <<>> /\ requests' = [requests EXCEPT ![a] = Tail(requests[a])]
         /\ \/ Head(requests[a]).op = "destroy" /\ UNCHANGED reply
            \/ Head(requests[a]).op # "destroy" /\ Replied(a)
         /\ UNCHANGED <<restarts, manager, announced, gone>>
<1>1. /\ requests[a] \in Seq(RequestType) /\ requests[a] # <<>>
      /\ requests' = [requests EXCEPT ![a] = Tail(requests[a])]
      /\ UNCHANGED <<restarts, manager, announced, gone>>
  BY DEF Handle, TypeInv
<1>2. PICK r \in RequestType : r = Head(requests[a])
  BY <1>1
<1>3. live \subseteq Ids
  BY LiveAreIds
<1>4. ASSUME Make(a)
      PROVE  Effect /\ Replied(a)
  <2>1. Last_id' \in Ids /\ Last_id' \in live'
    BY <1>4, MadeIs DEF Make
  <2> QED BY <1>4, <2>1, OneIs DEF Make, Effect, Replied, Answer
<1>5. ASSUME NEW ids \in Seq(Ids), NEW ok \in BOOLEAN, ToSet(ids) \subseteq live, Answer(a, ok, ids),
             UNCHANGED <<live, Last_id, made, signals>>
      PROVE  Effect /\ Replied(a)
  BY <1>5 DEF Effect, Replied, Answer
<1>6. CASE r.op = "create" /\ Handle_create(a)
  <2>1. CASE Make(a)
    BY <1>1, <1>2, <1>4, <1>6, <2>1
  <2>2. CASE \E id \in live : Answer(a, TRUE, <<id>>) /\ UNCHANGED <<live, Last_id, made, signals>>
    <3>1. PICK id \in live : Answer(a, TRUE, <<id>>)
      BY <2>2
    <3>2. <<id>> \in Seq(Ids) /\ ToSet(<<id>>) \subseteq live
      BY <1>3, <3>1, OneIs
    <3>3. Effect /\ Replied(a)
      BY <1>5, <2>2, <3>1, <3>2
    <3> QED BY <1>1, <1>2, <1>6, <3>3
  <2>3. CASE Answer(a, FALSE, <<>>) /\ UNCHANGED <<live, Last_id, made, signals>>
    BY <1>1, <1>2, <1>5, <1>6, <2>3, EmptyIs
  <2> QED BY <1>6, <2>1, <2>2, <2>3 DEF Handle_create
<1>7. CASE r.op = "dup" /\ Handle_dup(a, r.id)
  <2>1. CASE Make(a)
    BY <1>1, <1>2, <1>4, <1>7, <2>1
  <2>2. CASE Answer(a, FALSE, <<>>) /\ UNCHANGED <<live, Last_id, made, signals>>
    BY <1>1, <1>2, <1>5, <1>7, <2>2, EmptyIs
  <2> QED BY <1>7, <2>1, <2>2 DEF Handle_dup
<1>8. ASSUME NEW ids, r.op # "destroy", Handle_list(a, ids)
      PROVE  Effect /\ Replied(a)
  <2>1. PICK list \in Listed(ids) : Answer(a, TRUE, list)
    BY <1>8 DEF Handle_list
  <2>2. list \in Listed(ids \cap Ids)
    <3>1. ids \cap live = (ids \cap Ids) \cap live
      BY <1>3
    <3> QED BY <3>1 DEF Listed
  <2>3. list \in Seq(Ids) /\ ToSet(list) \subseteq live
    BY <2>2, ListedIs
  <2> QED BY <1>5, <1>8, <2>1, <2>3 DEF Handle_list
<1>9. CASE r.op = "get" /\ Handle_list(a, {r.id})
  BY <1>1, <1>2, <1>8, <1>9
<1>10. CASE r.op \in {"list", "refetch"} /\ Handle_list(a, Ids)
  BY <1>1, <1>2, <1>8, <1>10
<1>11. CASE r.op = "destroy" /\ Handle_destroy(r.id) /\ UNCHANGED <<reply, Last_id, made>>
  BY <1>1, <1>2, <1>11 DEF Handle_destroy, Effect
<1> QED BY <1>2, <1>6, <1>7, <1>9, <1>10, <1>11 DEF Handle

\* The daemon's signals wait behind those sent before, for every application.
LEMMA EffectTyped ==
  ASSUME TypeInv, Effect
  PROVE  /\ Last_id' \in 0 .. MaxId /\ live' \subseteq 1 .. Last_id' /\ made' \subseteq 1 .. Last_id'
         /\ signals' \in [Apps -> Seq(SignalType)]
         /\ Last_id <= Last_id'
<1>1. CASE Made
  <2>1. CreatedMsg(Last_id') \in SignalType
    BY <1>1, MadeIs DEF CreatedMsg, SignalType
  <2>2. signals' \in [Apps -> Seq(SignalType)]
    BY <1>1, <2>1, MadeIs, BroadcastTyped DEF TypeInv
  <2>3. Last_id' \in 0 .. MaxId /\ Last_id <= Last_id' /\ 1 .. Last_id \cup {Last_id'} \subseteq 1 .. Last_id'
    BY <1>1, MadeIs, ManagerAssumption DEF Ids
  <2> QED BY <1>1, <2>2, <2>3, MadeIs DEF TypeInv
<1>2. ASSUME NEW id \in live, Handle_destroy(id), UNCHANGED <<Last_id, made>>
      PROVE  /\ live' \subseteq 1 .. Last_id'
             /\ signals' \in [Apps -> Seq(SignalType)]
  <2>1. id \in Ids
    BY LiveAreIds
  <2>2. /\ DestroyedMsg(id) \in SignalType
        /\ [type |-> "playlist_destruction_failed", id |-> id] \in SignalType
    BY <2>1 DEF DestroyedMsg, SignalType
  <2>3. PICK m \in SignalType : signals' = [a \in Apps |-> Append(signals[a], m)]
    BY <1>2, <2>2 DEF Handle_destroy, Broadcast, DestroyedMsg
  <2>4. signals' \in [Apps -> Seq(SignalType)]
    BY <2>3, BroadcastTyped DEF TypeInv
  <2> QED BY <1>2, <2>4 DEF Handle_destroy, TypeInv
<1>3. Last_id <= Last_id
  BY LiveAreIds
<1> QED BY <1>1, <1>2, <1>3 DEF Effect, TypeInv

-----------------------------------------------------------------------------
(* Types, and one call at a time *)

\* The requests of the others do not change.
LEMMA HandleTyped ==
  ASSUME TypeInv, \A b \in Apps : OneCall(b), NEW a \in Apps, Handle(a)
  PROVE  TypeInv' /\ \A b \in Apps : OneCall(b)'
<1>1. /\ Effect
      /\ requests[a] # <<>> /\ requests' = [requests EXCEPT ![a] = Tail(requests[a])]
      /\ UNCHANGED <<manager, announced, gone>>
  BY HandleIs
<1>2. /\ requests \in [Apps -> Seq(RequestType)] /\ reply \in [Apps -> ReplyType]
  BY DEF TypeInv
<1>3. /\ Tail(requests[a]) \in Seq(RequestType) /\ Head(requests[a]) = requests[a][1]
      /\ 1 \in DOMAIN requests[a] /\ Len(Tail(requests[a])) = Len(requests[a]) - 1
      /\ Len(requests[a]) \in Nat
      /\ \A k \in DOMAIN Tail(requests[a]) :
           k \in Nat /\ k > 0 /\ k + 1 \in DOMAIN requests[a] /\ Tail(requests[a])[k] = requests[a][k + 1]
  BY <1>1, <1>2
<1>4. reply' \in [Apps -> ReplyType] /\ \A b \in Apps \ {a} : reply'[b] = reply[b]
  <2>1. CASE UNCHANGED reply
    BY <1>2, <2>1
  <2>2. CASE Replied(a)
    <3>1. PICK m \in ReplyType : reply' = [reply EXCEPT ![a] = m]
      BY <2>2 DEF Replied, ReplyType
    <3> QED BY <1>2, <3>1
  <2> QED BY <2>1, <2>2, HandleIs
<1>5. TypeInv'
  BY <1>1, <1>2, <1>3, <1>4, EffectTyped DEF TypeInv, manager
<1>6. ASSUME NEW b \in Apps, b # a
      PROVE  OneCall(b)'
  <2>1. requests'[b] = requests[b] /\ reply'[b] = reply[b] /\ call'[b] = call[b]
    BY <1>1, <1>2, <1>4, <1>6 DEF manager
  <2> QED BY <2>1 DEF OneCall
<1>7. requests'[a] = Tail(requests[a]) /\ call'[a] = call[a]
  BY <1>1, <1>2 DEF manager
<1>8. CASE Head(requests[a]).op = "destroy" /\ UNCHANGED reply
  <2>1. ASSUME NEW k \in DOMAIN requests'[a], requests'[a][k].op # "destroy"
        PROVE  k = Len(requests'[a]) /\ call'[a] # NoCall /\ reply'[a] = NoReply
    <3>1. k + 1 \in DOMAIN requests[a] /\ requests[a][k + 1].op # "destroy" /\ k \in Nat
      BY <1>3, <1>7, <2>1
    <3>2. k + 1 = Len(requests[a]) /\ call[a] # NoCall /\ reply[a] = NoReply
      BY <3>1 DEF OneCall
    <3> QED BY <1>3, <1>7, <1>8, <3>1, <3>2
  <2>2. call'[a] = NoCall => reply'[a] = NoReply
    BY <1>7, <1>8 DEF OneCall
  <2>3. OneCall(a)'
    BY <2>1, <2>2 DEF OneCall
  <2> QED BY <1>5, <1>6, <2>3
<1>9. CASE Head(requests[a]).op # "destroy"
  <2>1. 1 = Len(requests[a]) /\ call[a] # NoCall
    BY <1>3, <1>9 DEF OneCall
  <2>2. DOMAIN requests'[a] = {}
    BY <1>3, <1>7, <2>1
  <2>3. OneCall(a)'
    BY <1>7, <2>1, <2>2 DEF OneCall
  <2> QED BY <1>5, <1>6, <2>3
<1> QED BY <1>5, <1>6, <1>8, <1>9, HandleIs

\* A free application sends a request, and waits for its answer if it has one.
LEMMA SendsTyped ==
  ASSUME TypeInv, \A b \in Apps : OneCall(b), NEW a \in Apps, Free(a), NEW r \in RequestType,
         requests' = [requests EXCEPT ![a] = Append(requests[a], r)],
         \/ r.op = "destroy" /\ UNCHANGED call
         \/ r.op # "destroy" /\ call' = [call EXCEPT ![a] = r],
         UNCHANGED <<daemon, reply, signals, playlists, history>>
  PROVE  TypeInv' /\ \A b \in Apps : OneCall(b)'
<1>1. requests[a] \in Seq(RequestType) /\ call[a] = NoCall /\ reply[a] = NoReply
  BY DEF TypeInv, Free, OneCall
<1>2. /\ requests'[a] = Append(requests[a], r) /\ requests' \in [Apps -> Seq(RequestType)]
      /\ \A b \in Apps \ {a} : requests'[b] = requests[b] /\ call'[b] = call[b]
      /\ call'[a] = IF r.op = "destroy" THEN NoCall ELSE r
      /\ call' \in [Apps -> {NoCall} \cup RequestType]
  BY <1>1, AppendAt DEF TypeInv
<1>3. TypeInv'
  BY <1>2 DEF TypeInv, daemon, history
<1>4. ASSUME NEW b \in Apps, b # a
      PROVE  OneCall(b)'
  BY <1>2, <1>4 DEF OneCall
<1>5. ASSUME NEW k \in DOMAIN requests'[a], requests'[a][k].op # "destroy"
      PROVE  k = Len(requests'[a]) /\ call'[a] # NoCall
  <2>1. k \notin DOMAIN requests[a]
    <3>1. ASSUME k \in DOMAIN requests[a] PROVE FALSE
      <4>1. requests'[a][k] = requests[a][k]
        BY <1>1, <1>2, <3>1, AppendAt
      <4> QED BY <1>1, <1>5, <3>1, <4>1 DEF OneCall
    <3> QED BY <3>1
  <2>2. k = Len(requests[a]) + 1 /\ requests'[a][k] = r /\ Len(requests'[a]) = Len(requests[a]) + 1
    BY <1>1, <1>2, <2>1, AppendAt
  <2>3. r # NoCall
    BY DEF RequestType, NoCall
  <2> QED BY <1>2, <1>5, <2>2, <2>3
<1>6. OneCall(a)'
  BY <1>1, <1>5 DEF OneCall
<1> QED BY <1>3, <1>4, <1>6

\* A reply was taken.
LEMMA ReturnsTyped ==
  ASSUME TypeInv, \A b \in Apps : OneCall(b), NEW a \in Apps, reply[a] # NoReply,
         reply' = [reply EXCEPT ![a] = NoReply], call' = [call EXCEPT ![a] = NoCall],
         playlists' \in [Apps -> Seq(Ids)],
         UNCHANGED <<daemon, requests, signals, history>>
  PROVE  TypeInv' /\ \A b \in Apps : OneCall(b)'
<1>1. NoReply \in ReplyType
  BY EmptyIs DEF NoReply, ReplyType
<1>2. TypeInv'
  BY <1>1 DEF TypeInv, daemon, history
<1>3. /\ reply'[a] = NoReply /\ call'[a] = NoCall
      /\ \A b \in Apps \ {a} : reply'[b] = reply[b] /\ call'[b] = call[b]
  BY DEF TypeInv
<1> QED BY <1>2, <1>3 DEF OneCall

-----------------------------------------------------------------------------
(* What the daemon does to what is under way *)

\* What is put behind a queue of signals waits, and so does what waited.
LEMMA SignalAppended ==
  ASSUME TypeInv, NEW m \in SignalType, signals' = [a \in Apps |-> Append(signals[a], m)], NEW a \in Apps
  PROVE  /\ DOMAIN signals'[a] = DOMAIN signals[a] \cup {Len(signals[a]) + 1}
         /\ \A k \in DOMAIN signals[a] :
              signals'[a][k] = signals[a][k] /\ k < Len(signals[a]) + 1 /\ k \in Nat
         /\ signals'[a][Len(signals[a]) + 1] = m
         /\ \A x : Waits(a, x)' <=> Waits(a, x) \/ x = m
<1>1. signals[a] \in Seq(SignalType) /\ signals'[a] = Append(signals[a], m)
  BY DEF TypeInv
<1>2. /\ DOMAIN signals'[a] = DOMAIN signals[a] \cup {Len(signals[a]) + 1}
      /\ \A k \in DOMAIN signals[a] :
           signals'[a][k] = signals[a][k] /\ k < Len(signals[a]) + 1 /\ k \in Nat
      /\ signals'[a][Len(signals[a]) + 1] = m
  BY <1>1, AppendAt
<1> QED BY <1>2 DEF Waits

\* The messages tell each other apart.
LEMMA MsgsDiffer ==
  /\ \A i, j : CreatedMsg(i) # DestroyedMsg(j)
  /\ \A i, j : CreatedMsg(i) = CreatedMsg(j) => i = j
  /\ \A i, j : DestroyedMsg(i) = DestroyedMsg(j) => i = j
BY DEF CreatedMsg, DestroyedMsg

\* A new playlist has an id that nothing under way and nothing gone has.
LEMMA MadeKeeps ==
  ASSUME TypeInv, NEW a \in Apps, NEW id \in Ids, Followed(a, id), Made,
         UNCHANGED <<playlists, announced, gone>>,
         ToSet(reply'[a].ids) \subseteq ToSet(reply[a].ids) \cup live'
  PROVE  Followed(a, id)'
<1>1. PICK new \in Ids :
        /\ new = Last_id + 1 /\ Last_id' = new /\ live' = live \cup {new} /\ made' = made \cup {new}
        /\ new \notin live /\ new \notin made
        /\ signals' = [b \in Apps |-> Append(signals[b], CreatedMsg(new))]
  BY MadeIs
<1>2. CreatedMsg(new) \in SignalType
  BY DEF CreatedMsg, SignalType
<1>3. PICK n \in Nat : n = Len(signals[a]) + 1
  BY DEF TypeInv
<1>4. /\ DOMAIN signals'[a] = DOMAIN signals[a] \cup {n}
      /\ \A k \in DOMAIN signals[a] : signals'[a][k] = signals[a][k] /\ k < n /\ k \in Nat
      /\ signals'[a][n] = CreatedMsg(new)
      /\ \A x : Waits(a, x)' <=> Waits(a, x) \/ x = CreatedMsg(new)
  BY <1>1, <1>2, <1>3, SignalAppended
<1>5. ~Waits(a, CreatedMsg(new)) \/ id # new
  BY <1>1 DEF Followed, CreatedOnce
<1>6. CreatedOnce(a, id)'
  <2>1. announced'[a][id] = announced[a][id]
    OBVIOUS
  <2>2. CreatedOnce(a, id)
    BY DEF Followed
  <2>3. Waits(a, CreatedMsg(id))' => id \in made'
    BY <1>1, <1>4, <2>2, MsgsDiffer DEF CreatedOnce
  <2>4. announced'[a][id] = IF id \in made' /\ ~Waits(a, CreatedMsg(id))' THEN 1 ELSE 0
    BY <1>1, <1>4, <2>1, <2>2, MsgsDiffer DEF CreatedOnce
  <2>5. ASSUME NEW j \in DOMAIN signals'[a], NEW k \in DOMAIN signals'[a],
               signals'[a][j] = CreatedMsg(id), signals'[a][k] = CreatedMsg(id)
        PROVE  j = k
    <3>1. CASE id = new
      <4>1. \A i \in DOMAIN signals[a] : signals[a][i] # CreatedMsg(id)
        BY <1>5, <3>1 DEF Waits
      <4> QED BY <1>4, <2>5, <4>1
    <3>2. CASE id # new
      <4>1. j \in DOMAIN signals[a] /\ k \in DOMAIN signals[a]
        BY <1>4, <2>5, <3>2, MsgsDiffer
      <4> QED BY <1>4, <2>2, <2>5, <4>1 DEF CreatedOnce
    <3> QED BY <3>1, <3>2
  <2> QED BY <2>3, <2>4, <2>5 DEF CreatedOnce
<1>7. InOrderOf(a, id)'
  <2>1. InOrderOf(a, id)
    BY DEF Followed
  <2>2. ASSUME NEW k \in DOMAIN signals'[a], signals'[a][k] = CreatedMsg(id)
        PROVE  id \in live' \/ \E j \in DOMAIN signals'[a] : j > k /\ signals'[a][j] = DestroyedMsg(id)
    <3>1. CASE k = n
      BY <1>1, <1>4, <2>2, <3>1, MsgsDiffer
    <3>2. CASE k \in DOMAIN signals[a]
      <4>1. id \in live \/ \E j \in DOMAIN signals[a] : j > k /\ signals[a][j] = DestroyedMsg(id)
        BY <1>4, <2>1, <2>2, <3>2 DEF InOrderOf
      <4> QED BY <1>1, <1>4, <4>1
    <3> QED BY <1>4, <3>1, <3>2
  <2>3. ASSUME NEW k \in DOMAIN signals'[a], signals'[a][k] = DestroyedMsg(id)
        PROVE  /\ id \notin live' /\ id <= Last_id'
               /\ \A j \in DOMAIN signals'[a] : j > k => signals'[a][j] # CreatedMsg(id)
    <3>1. k \in DOMAIN signals[a] /\ signals[a][k] = DestroyedMsg(id)
      BY <1>4, <2>3, MsgsDiffer
    <3>2. /\ id \notin live /\ id <= Last_id
          /\ \A j \in DOMAIN signals[a] : j > k => signals[a][j] # CreatedMsg(id)
      BY <2>1, <3>1 DEF InOrderOf
    <3>3. id # new /\ id <= Last_id'
      BY <1>1, <3>2, LiveAreIds DEF Ids
    <3> QED BY <1>1, <1>4, <3>2, <3>3, MsgsDiffer
  <2> QED BY <2>2, <2>3 DEF InOrderOf
<1>8. Met(a, id)'
  BY <1>1, <1>4 DEF Followed, Met, Known
<1>9. GoneForGood(a, id)'
  <2>1. CASE id \in gone[a]
    <3>1. /\ id \notin live /\ id <= Last_id /\ id \notin Known(a) \cup ToSet(reply[a].ids)
          /\ ~Waits(a, CreatedMsg(id))
      BY <2>1 DEF Followed, GoneForGood
    <3>2. id # new /\ id <= Last_id'
      BY <1>1, <3>1, LiveAreIds DEF Ids
    <3> QED BY <1>1, <1>4, <3>1, <3>2, MsgsDiffer DEF GoneForGood, Known
  <2> QED BY <2>1 DEF GoneForGood
<1> QED BY <1>6, <1>7, <1>8, <1>9 DEF Followed

\* A destroyed playlist is announced behind everything that names it.
LEMMA DestroyKeeps ==
  ASSUME TypeInv, NEW a \in Apps, NEW id \in Ids, Followed(a, id),
         NEW victim \in live, Handle_destroy(victim),
         UNCHANGED <<Last_id, made, playlists, announced, gone>>,
         ToSet(reply'[a].ids) \subseteq ToSet(reply[a].ids) \cup live'
  PROVE  Followed(a, id)'
<1>1. victim \in Ids /\ victim <= Last_id
  BY LiveAreIds DEF TypeInv
<1>2. PICK m \in SignalType :
        /\ signals' = [b \in Apps |-> Append(signals[b], m)]
        /\ \A i : m # CreatedMsg(i)
        /\ \/ m = DestroyedMsg(victim) /\ live' = live \ {victim}
           \/ (\A i : m # DestroyedMsg(i)) /\ live' = live
  <2>1. /\ DestroyedMsg(victim) \in SignalType
        /\ [type |-> "playlist_destruction_failed", id |-> victim] \in SignalType
        /\ \A i : /\ [type |-> "playlist_destruction_failed", id |-> victim] # CreatedMsg(i)
                  /\ [type |-> "playlist_destruction_failed", id |-> victim] # DestroyedMsg(i)
    BY <1>1 DEF CreatedMsg, DestroyedMsg, SignalType
  <2>2. CASE live' = live \ {victim} /\ Broadcast("playlist_destroyed", victim)
    BY <2>1, <2>2, MsgsDiffer DEF Broadcast, DestroyedMsg
  <2>3. CASE Broadcast("playlist_destruction_failed", victim) /\ UNCHANGED live
    BY <2>1, <2>3 DEF Broadcast
  <2> QED BY <2>2, <2>3 DEF Handle_destroy
<1>3. PICK n \in Nat : n = Len(signals[a]) + 1
  BY DEF TypeInv
<1>4. /\ DOMAIN signals'[a] = DOMAIN signals[a] \cup {n}
      /\ \A k \in DOMAIN signals[a] : signals'[a][k] = signals[a][k] /\ k < n /\ k \in Nat
      /\ signals'[a][n] = m
      /\ \A x : Waits(a, x)' <=> Waits(a, x) \/ x = m
  BY <1>2, <1>3, SignalAppended
<1>5. CreatedOnce(a, id)'
  BY <1>2, <1>4 DEF Followed, CreatedOnce
<1>6. InOrderOf(a, id)'
  <2>1. InOrderOf(a, id)
    BY DEF Followed
  <2>2. ASSUME NEW k \in DOMAIN signals'[a], signals'[a][k] = CreatedMsg(id)
        PROVE  id \in live' \/ \E j \in DOMAIN signals'[a] : j > k /\ signals'[a][j] = DestroyedMsg(id)
    <3>1. k \in DOMAIN signals[a] /\ signals[a][k] = CreatedMsg(id) /\ k < n
      BY <1>2, <1>4, <2>2
    <3>2. id \in live \/ \E j \in DOMAIN signals[a] : j > k /\ signals[a][j] = DestroyedMsg(id)
      BY <2>1, <3>1 DEF InOrderOf
    <3>3. CASE id \in live /\ id \notin live'
      BY <1>2, <1>4, <3>1, <3>3
    <3> QED BY <1>4, <3>2, <3>3
  <2>3. ASSUME NEW k \in DOMAIN signals'[a], signals'[a][k] = DestroyedMsg(id)
        PROVE  /\ id \notin live' /\ id <= Last_id'
               /\ \A j \in DOMAIN signals'[a] : j > k => signals'[a][j] # CreatedMsg(id)
    <3>1. CASE k = n
      BY <1>1, <1>2, <1>4, <2>3, <3>1, MsgsDiffer
    <3>2. CASE k \in DOMAIN signals[a]
      <4>1. /\ id \notin live /\ id <= Last_id
            /\ \A j \in DOMAIN signals[a] : j > k => signals[a][j] # CreatedMsg(id)
        BY <1>4, <2>1, <2>3, <3>2 DEF InOrderOf
      <4> QED BY <1>2, <1>4, <4>1
    <3> QED BY <1>4, <3>1, <3>2
  <2> QED BY <2>2, <2>3 DEF InOrderOf
<1>7. Met(a, id)'
  <2>1. id \in live => id \in live' \/ Waits(a, DestroyedMsg(id))'
    BY <1>2, <1>4
  <2>2. live' \subseteq live
    BY <1>2
  <2> QED BY <1>4, <2>1, <2>2 DEF Followed, Met, Known
<1>8. GoneForGood(a, id)'
  BY <1>2, <1>4 DEF Followed, GoneForGood, Known
<1> QED BY <1>5, <1>6, <1>7, <1>8 DEF Followed

LEMMA EffectKeeps ==
  ASSUME TypeInv, NEW a \in Apps, NEW id \in Ids, Followed(a, id), Effect,
         UNCHANGED <<playlists, announced, gone>>,
         ToSet(reply'[a].ids) \subseteq ToSet(reply[a].ids) \cup live'
  PROVE  Followed(a, id)'
<1>1. CASE UNCHANGED <<live, Last_id, made, signals>>
  BY <1>1 DEF Followed, CreatedOnce, InOrderOf, Met, GoneForGood, Waits, Known
<1> QED BY <1>1, MadeKeeps, DestroyKeeps DEF Effect

-----------------------------------------------------------------------------
(* What an application takes from what is under way *)

\* Nothing of this changes for an application that does nothing.
LEMMA OtherKeeps ==
  ASSUME NEW a \in Apps, NEW id \in Ids, Followed(a, id),
         UNCHANGED <<live, Last_id, made>>, signals'[a] = signals[a], reply'[a] = reply[a],
         playlists'[a] = playlists[a], announced'[a] = announced[a], gone'[a] = gone[a]
  PROVE  Followed(a, id)'
BY DEF Followed, CreatedOnce, InOrderOf, Met, GoneForGood, Waits, Known

\* A reply tells of nothing that is gone.
LEMMA ReturnKeeps ==
  ASSUME NEW a \in Apps, NEW id \in Ids, Followed(a, id),
         UNCHANGED <<live, Last_id, made, signals, announced, gone>>,
         ToSet(playlists'[a]) \subseteq Known(a) \cup ToSet(reply[a].ids), reply'[a] = NoReply
  PROVE  Followed(a, id)'
<1>1. ToSet(reply'[a].ids) = {}
  BY EmptyIs DEF NoReply
<1> QED BY <1>1 DEF Followed, CreatedOnce, InOrderOf, Met, GoneForGood, Waits, Known

\* The first signal is taken: what waits is what waited behind it.
LEMMA SignalTaken ==
  ASSUME TypeInv, NEW a \in Apps, Taken(a), signals[a] # <<>>
  PROVE  /\ signals' \in [Apps -> Seq(SignalType)]
         /\ \A b \in Apps \ {a} : signals'[b] = signals[b]
         /\ Head(signals[a]) \in SignalType /\ 1 \in DOMAIN signals[a] /\ signals[a][1] = Head(signals[a])
         /\ DOMAIN signals[a] \subseteq Nat /\ DOMAIN signals'[a] \subseteq Nat
         /\ \A k \in DOMAIN signals'[a] : k > 0 /\ k + 1 \in DOMAIN signals[a] /\ signals'[a][k] = signals[a][k + 1]
         /\ \A k \in DOMAIN signals[a] :
              k # 1 => k > 1 /\ k - 1 \in DOMAIN signals'[a] /\ signals'[a][k - 1] = signals[a][k]
         /\ \A x : Waits(a, x) <=> Waits(a, x)' \/ x = Head(signals[a])
<1>1. signals \in [Apps -> Seq(SignalType)]
  BY DEF TypeInv
<1>2. PICK q \in Seq(SignalType) : q = signals[a]
  BY <1>1
<1>3. signals' = [signals EXCEPT ![a] = Tail(q)] /\ q # <<>>
  BY <1>2 DEF Taken
<1>4. /\ Tail(q) \in Seq(SignalType) /\ Head(q) = q[1] /\ 1 \in DOMAIN q /\ q[1] \in SignalType
      /\ \A k \in DOMAIN Tail(q) : k > 0 /\ k + 1 \in DOMAIN q /\ Tail(q)[k] = q[k + 1]
      /\ \A k \in DOMAIN q : k # 1 => k > 1 /\ k - 1 \in DOMAIN Tail(q) /\ Tail(q)[k - 1] = q[k]
      /\ DOMAIN q \subseteq Nat /\ DOMAIN Tail(q) \subseteq Nat
  BY <1>3, TailAt
<1>5. signals'[a] = Tail(q) /\ signals' \in [Apps -> Seq(SignalType)]
      /\ \A b \in Apps \ {a} : signals'[b] = signals[b]
  BY <1>1, <1>3, <1>4
<1>6. \A x : Waits(a, x) <=> Waits(a, x)' \/ x = Head(q)
  <2>1. ASSUME NEW x, Waits(a, x), x # Head(q)
        PROVE  Waits(a, x)'
    <3>1. PICK k \in DOMAIN q : q[k] = x
      BY <1>2, <2>1 DEF Waits
    <3>2. k - 1 \in DOMAIN Tail(q) /\ Tail(q)[k - 1] = x
      BY <1>4, <2>1, <3>1
    <3> QED BY <1>5, <3>2 DEF Waits
  <2>2. ASSUME NEW x, Waits(a, x)'
        PROVE  Waits(a, x)
    <3>1. PICK k \in DOMAIN Tail(q) : Tail(q)[k] = x
      BY <1>5, <2>2 DEF Waits
    <3> QED BY <1>2, <1>4, <3>1 DEF Waits
  <2>3. Waits(a, Head(q))
    BY <1>2, <1>4 DEF Waits
  <2> QED BY <2>1, <2>2, <2>3
<1> QED BY <1>2, <1>4, <1>5, <1>6

\* The order of what waits does not change when the first signal is taken, but a
\* playlist may have lost its place in it.
LEMMA TakenKeepsOrder ==
  ASSUME TypeInv, NEW a \in Apps, Taken(a), signals[a] # <<>>, NEW id \in Ids, Followed(a, id),
         UNCHANGED <<live, Last_id, made>>
  PROVE  /\ InOrderOf(a, id)'
         /\ \A j, k \in DOMAIN signals'[a] :
              signals'[a][j] = CreatedMsg(id) /\ signals'[a][k] = CreatedMsg(id) => j = k
         /\ Waits(a, CreatedMsg(id))' => Head(signals[a]) # CreatedMsg(id) /\ Head(signals[a]) # DestroyedMsg(id)
<1>1. /\ 1 \in DOMAIN signals[a] /\ signals[a][1] = Head(signals[a])
      /\ DOMAIN signals[a] \subseteq Nat /\ DOMAIN signals'[a] \subseteq Nat
      /\ \A k \in DOMAIN signals'[a] : k > 0 /\ k + 1 \in DOMAIN signals[a] /\ signals'[a][k] = signals[a][k + 1]
      /\ \A k \in DOMAIN signals[a] :
           k # 1 => k > 1 /\ k - 1 \in DOMAIN signals'[a] /\ signals'[a][k - 1] = signals[a][k]
  BY SignalTaken
<1>2. InOrderOf(a, id) /\ CreatedOnce(a, id)
  BY DEF Followed
<1>3. ASSUME NEW j \in DOMAIN signals'[a], NEW k \in DOMAIN signals'[a],
             signals'[a][j] = CreatedMsg(id), signals'[a][k] = CreatedMsg(id)
      PROVE  j = k
  <2>1. j + 1 = k + 1
    BY <1>1, <1>2, <1>3 DEF CreatedOnce
  <2> QED BY <1>1, <2>1
<1>4. ASSUME NEW k \in DOMAIN signals'[a], signals'[a][k] = CreatedMsg(id)
      PROVE  id \in live \/ \E j \in DOMAIN signals'[a] : j > k /\ signals'[a][j] = DestroyedMsg(id)
  <2>1. CASE id \notin live
    <3>1. k \in Nat /\ k > 0 /\ k + 1 \in DOMAIN signals[a] /\ signals[a][k + 1] = CreatedMsg(id)
      BY <1>1, <1>4
    <3>2. PICK j \in DOMAIN signals[a] : j > k + 1 /\ signals[a][j] = DestroyedMsg(id)
      BY <1>2, <2>1, <3>1 DEF InOrderOf
    <3>3. j \in Nat /\ j # 1
      BY <1>1, <3>1, <3>2
    <3>4. j - 1 \in DOMAIN signals'[a] /\ signals'[a][j - 1] = DestroyedMsg(id) /\ j - 1 > k
      BY <1>1, <3>1, <3>2, <3>3
    <3> QED BY <3>4
  <2> QED BY <2>1
<1>5. ASSUME NEW k \in DOMAIN signals'[a], signals'[a][k] = DestroyedMsg(id)
      PROVE  /\ id \notin live /\ id <= Last_id
             /\ \A j \in DOMAIN signals'[a] : j > k => signals'[a][j] # CreatedMsg(id)
  <2>1. k \in Nat /\ k + 1 \in DOMAIN signals[a] /\ signals[a][k + 1] = DestroyedMsg(id)
    BY <1>1, <1>5
  <2>2. /\ id \notin live /\ id <= Last_id
        /\ \A j \in DOMAIN signals[a] : j > k + 1 => signals[a][j] # CreatedMsg(id)
    BY <1>2, <2>1 DEF InOrderOf
  <2>3. ASSUME NEW j \in DOMAIN signals'[a], j > k
        PROVE  signals'[a][j] # CreatedMsg(id)
    <3>1. j \in Nat /\ j + 1 \in DOMAIN signals[a] /\ signals'[a][j] = signals[a][j + 1] /\ j + 1 > k + 1
      BY <1>1, <2>1, <2>3
    <3> QED BY <2>2, <3>1
  <2> QED BY <2>2, <2>3
<1>6. InOrderOf(a, id)'
  BY <1>4, <1>5 DEF InOrderOf
<1>7. ASSUME Waits(a, CreatedMsg(id))'
      PROVE  Head(signals[a]) # CreatedMsg(id) /\ Head(signals[a]) # DestroyedMsg(id)
  <2>1. PICK k \in DOMAIN signals'[a] : signals'[a][k] = CreatedMsg(id)
    BY <1>7 DEF Waits
  <2>2. k \in Nat /\ k > 0 /\ k + 1 \in DOMAIN signals[a] /\ signals[a][k + 1] = CreatedMsg(id) /\ k + 1 # 1 /\ k + 1 > 1
    BY <1>1, <2>1
  <2>3. Head(signals[a]) # CreatedMsg(id)
    BY <1>1, <1>2, <2>2 DEF CreatedOnce
  <2>4. Head(signals[a]) # DestroyedMsg(id)
    BY <1>1, <1>2, <2>2 DEF InOrderOf
  <2> QED BY <2>3, <2>4
<1> QED BY <1>3, <1>6, <1>7

LEMMA CreatedKeeps ==
  ASSUME TypeInv, NEW a \in Apps, playlist_created(a), NEW id \in Ids, Followed(a, id)
  PROVE  Followed(a, id)'
<1>1. /\ Taken(a) /\ signals[a] # <<>> /\ Head(signals[a]) \in SignalType
      /\ UNCHANGED <<live, Last_id, made, reply, gone>>
  BY SignalTaken DEF playlist_created, Arrives, daemon
<1>2. PICK new \in Ids : new = Head(signals[a]).id
  BY <1>1 DEF SignalType
<1>3. /\ Head(signals[a]) = CreatedMsg(new)
      /\ playlists' = [playlists EXCEPT ![a] = Registered(playlists[a], new)]
      /\ announced' = [announced EXCEPT ![a][new] = announced[a][new] + 1]
  BY <1>1, <1>2 DEF playlist_created, Arrives, CreatedMsg, SignalType
<1>4. /\ ToSet(playlists'[a]) = Known(a) \cup {new}
      /\ announced'[a][id] = IF id = new THEN announced[a][id] + 1 ELSE announced[a][id]
  BY <1>3, RegisteredIs DEF TypeInv, Known
<1>5. \A x : Waits(a, x) <=> Waits(a, x)' \/ x = CreatedMsg(new)
  BY <1>1, <1>3, SignalTaken
<1>6. /\ InOrderOf(a, id)'
      /\ \A j, k \in DOMAIN signals'[a] :
           signals'[a][j] = CreatedMsg(id) /\ signals'[a][k] = CreatedMsg(id) => j = k
      /\ Waits(a, CreatedMsg(id))' => id # new
  BY <1>1, <1>3, TakenKeepsOrder
<1>7. CreatedOnce(a, id) /\ InOrderOf(a, id) /\ Met(a, id) /\ GoneForGood(a, id)
  BY DEF Followed
<1>8. CreatedOnce(a, id)'
  BY <1>1, <1>4, <1>5, <1>6, <1>7, MsgsDiffer DEF CreatedOnce
<1>9. id = new => id \in live \/ Waits(a, DestroyedMsg(id))
  <2>1. 1 \in DOMAIN signals[a] /\ signals[a][1] = CreatedMsg(new)
    BY <1>1, <1>3, SignalTaken
  <2> QED BY <1>7, <2>1 DEF InOrderOf, Waits
<1>10. Met(a, id)'
  BY <1>1, <1>4, <1>5, <1>7, <1>9, MsgsDiffer DEF Met, Known
<1>11. GoneForGood(a, id)'
  BY <1>1, <1>4, <1>5, <1>7, MsgsDiffer DEF GoneForGood, Known
<1> QED BY <1>6, <1>8, <1>10, <1>11 DEF Followed

\* What stays is what was there, without what leaves.
LEMMA RemovedIs ==
  ASSUME TypeInv, NEW a \in Apps, NEW ids, Removed(a, ids)
  PROVE  playlists' \in [Apps -> Seq(Ids)] /\ ToSet(playlists'[a]) \subseteq Known(a) \ ids
         /\ \A b \in Apps \ {a} : playlists'[b] = playlists[b]
<1>1. PICK pls \in Seq(Ids) : pls = playlists[a]
  BY DEF TypeInv
<1>2. PICK S : S = {k \in DOMAIN pls : pls[k] \notin ids}
  OBVIOUS
<1>3. PICK stays \in InOrder(S) :
        playlists' = [playlists EXCEPT ![a] = [k \in DOMAIN stays |-> pls[stays[k]]]]
  BY <1>1, <1>2 DEF Removed
<1>4. IsFiniteSet(S)
  <2>1. PICK n \in Int : n = Len(pls)
    OBVIOUS
  <2>2. S \subseteq 1 .. n
    BY <1>2, <2>1
  <2>3. IsFiniteSet(1 .. n)
    BY FS_Interval
  <2> QED BY <2>2, <2>3, FS_Subset
<1>5. stays \in Seq(S)
  BY <1>4, InOrderIsSeq
<1>6. PICK rest : rest = [k \in DOMAIN stays |-> pls[stays[k]]]
  OBVIOUS
<1>7. \A k \in DOMAIN stays : pls[stays[k]] \in Ids /\ pls[stays[k]] \in ToSet(pls) \ ids
  BY <1>2, <1>5 DEF ToSet
<1>8. rest \in Seq(Ids) /\ DOMAIN rest = DOMAIN stays
  BY <1>5, <1>6, <1>7
<1>9. ToSet(rest) \subseteq ToSet(pls) \ ids
  BY <1>6, <1>7 DEF ToSet
<1> QED BY <1>1, <1>3, <1>6, <1>8, <1>9 DEF TypeInv, Known

LEMMA DestroyedKeeps ==
  ASSUME TypeInv, NEW a \in Apps, OneCall(a), playlist_destroyed(a), NEW id \in Ids, Followed(a, id)
  PROVE  Followed(a, id)'
<1>1. /\ Taken(a) /\ signals[a] # <<>> /\ Head(signals[a]) \in SignalType
      /\ UNCHANGED <<live, Last_id, made, reply, announced>> /\ reply[a] = NoReply
  BY SignalTaken DEF playlist_destroyed, Arrives, daemon, OneCall, Free
<1>2. PICK old_id \in Ids : old_id = Head(signals[a]).id
  BY <1>1 DEF SignalType
<1>3. /\ Head(signals[a]) = DestroyedMsg(old_id) /\ Removed(a, {old_id})
      /\ gone' = [gone EXCEPT ![a] = gone[a] \cup {old_id}]
  BY <1>1, <1>2 DEF playlist_destroyed, Arrives, DestroyedMsg, SignalType
<1>4. /\ ToSet(playlists'[a]) \subseteq Known(a) \ {old_id}
      /\ gone'[a] = gone[a] \cup {old_id} /\ ToSet(reply'[a].ids) = {}
  <2>1. ToSet(playlists'[a]) \subseteq Known(a) \ {old_id}
    BY <1>3, RemovedIs
  <2>2. gone'[a] = gone[a] \cup {old_id}
    BY <1>3 DEF TypeInv
  <2>3. reply'[a].ids = <<>>
    BY <1>1 DEF NoReply
  <2> QED BY <2>1, <2>2, <2>3, EmptyIs
<1>5. \A x : Waits(a, x) <=> Waits(a, x)' \/ x = DestroyedMsg(old_id)
  BY <1>1, <1>3, SignalTaken
<1>6. /\ InOrderOf(a, id)'
      /\ \A j, k \in DOMAIN signals'[a] :
           signals'[a][j] = CreatedMsg(id) /\ signals'[a][k] = CreatedMsg(id) => j = k
      /\ Waits(a, CreatedMsg(id))' => id # old_id
  BY <1>1, <1>3, TakenKeepsOrder
<1>7. CreatedOnce(a, id) /\ InOrderOf(a, id) /\ Met(a, id) /\ GoneForGood(a, id)
  BY DEF Followed
<1>8. CreatedOnce(a, id)'
  BY <1>1, <1>5, <1>6, <1>7, MsgsDiffer DEF CreatedOnce
<1>9. id = old_id => id \notin live /\ id <= Last_id
  <2>1. 1 \in DOMAIN signals[a] /\ signals[a][1] = DestroyedMsg(old_id)
    BY <1>1, <1>3, SignalTaken
  <2> QED BY <1>7, <2>1 DEF InOrderOf
<1>10. Met(a, id)'
  BY <1>1, <1>4, <1>5, <1>7, MsgsDiffer DEF Met, Known
<1>11. GoneForGood(a, id)'
  <2>1. CASE id = old_id
    BY <1>1, <1>4, <1>6, <1>9, <2>1 DEF GoneForGood, Known
  <2>2. CASE id # old_id
    BY <1>1, <1>4, <1>5, <1>7, <2>2 DEF GoneForGood, Known
  <2> QED BY <2>1, <2>2
<1> QED BY <1>6, <1>8, <1>10, <1>11 DEF Followed

\* A failed destruction is only passed on.
LEMMA FailedKeeps ==
  ASSUME TypeInv, NEW a \in Apps, playlist_destruction_failed(a), NEW id \in Ids, Followed(a, id)
  PROVE  Followed(a, id)'
<1>1. /\ Taken(a) /\ signals[a] # <<>>
      /\ UNCHANGED <<live, Last_id, made, reply, announced, gone, playlists>>
  BY DEF playlist_destruction_failed, Arrives, daemon, manager, history
<1>2. \A i : Head(signals[a]) # CreatedMsg(i) /\ Head(signals[a]) # DestroyedMsg(i)
  BY DEF playlist_destruction_failed, Arrives, CreatedMsg, DestroyedMsg
<1>3. \A i : /\ Waits(a, CreatedMsg(i)) <=> Waits(a, CreatedMsg(i))'
             /\ Waits(a, DestroyedMsg(i)) <=> Waits(a, DestroyedMsg(i))'
  BY <1>1, <1>2, SignalTaken
<1>4. /\ InOrderOf(a, id)'
      /\ \A j, k \in DOMAIN signals'[a] :
           signals'[a][j] = CreatedMsg(id) /\ signals'[a][k] = CreatedMsg(id) => j = k
  BY <1>1, TakenKeepsOrder
<1>5. CreatedOnce(a, id)'
  BY <1>1, <1>3, <1>4 DEF Followed, CreatedOnce
<1>6. Met(a, id)' /\ GoneForGood(a, id)'
  BY <1>1, <1>3 DEF Followed, Met, GoneForGood, Known
<1> QED BY <1>4, <1>5, <1>6 DEF Followed

-----------------------------------------------------------------------------
(* The theorems *)

\* The states of the specification until the daemon is restarted.
LEMMA InitInv == Init => Inv
<1> SUFFICES ASSUME Init PROVE Inv
  OBVIOUS
<1>1. /\ NoReply \in ReplyType /\ ToSet(NoReply.ids) = {} /\ <<>> \in Seq(Ids)
  BY EmptyIs DEF NoReply, ReplyType
<1>2. TypeInv
  BY <1>1 DEF Init, TypeInv
<1>3. ASSUME NEW a \in Apps
      PROVE  /\ OneCall(a)
             /\ signals[a] = <<>> /\ Known(a) = {} /\ ToSet(reply[a].ids) = {}
  BY <1>1, <1>3, EmptyIs DEF Init, OneCall, Known
<1>4. ASSUME NEW a \in Apps, NEW id \in Ids
      PROVE  Followed(a, id)
  <2>1. \A x : ~Waits(a, x)
    BY <1>3, <1>4 DEF Waits
  <2>2. announced[a][id] = 0 /\ gone[a] = {} /\ made = {}
    BY <1>4 DEF Init
  <2> QED BY <1>3, <1>4, <2>1, <2>2 DEF Followed, CreatedOnce, InOrderOf, Met, GoneForGood, Waits
<1> QED BY <1>2, <1>3, <1>4 DEF Inv, Init

\* A function of the manager that is answered from the daemon, or not at all.
LEMMA FunctionKeeps ==
  ASSUME TypeInv, \A b \in Apps : OneCall(b), \A b \in Apps, i \in Ids : Followed(b, i),
         NEW a \in Apps, Functions(a)
  PROVE  TypeInv' /\ (\A b \in Apps : OneCall(b)') /\ \A b \in Apps, i \in Ids : Followed(b, i)'
<1>1. UNCHANGED <<daemon, reply, signals, playlists, history>>
  BY DEF Functions, create_playlist, get_playlists, dup_playlist, get_playlist, destroy_playlist,
         Unref, bus
<1>2. \A b \in Apps, i \in Ids : Followed(b, i)'
  BY <1>1, OtherKeeps DEF daemon, history
<1>3. CASE UNCHANGED <<requests, call>>
  BY <1>1, <1>2, <1>3 DEF TypeInv, OneCall, daemon, history
<1>4. ASSUME NEW op \in {"create", "dup", "get", "list"}, NEW id \in 0 .. MaxId, Free(a), Call(a, op, id)
      PROVE  TypeInv' /\ \A b \in Apps : OneCall(b)'
  <2>1. PICK r \in RequestType : r = [op |-> op, id |-> id]
    BY DEF RequestType
  <2>2. /\ requests' = [requests EXCEPT ![a] = Append(requests[a], r)]
        /\ call' = [call EXCEPT ![a] = r] /\ r.op # "destroy"
    BY <1>4, <2>1 DEF Call, Sent
  <2> QED BY <1>1, <1>4, <2>2, SendsTyped
<1>5. ASSUME NEW id \in 0 .. MaxId, destroy_playlist(a, id)
      PROVE  TypeInv' /\ \A b \in Apps : OneCall(b)'
  <2>1. PICK r \in RequestType : r = [op |-> "destroy", id |-> id]
    BY DEF RequestType
  <2>2. /\ requests' = [requests EXCEPT ![a] = Append(requests[a], r)]
        /\ UNCHANGED call /\ r.op = "destroy" /\ Free(a)
    BY <1>5, <2>1 DEF destroy_playlist, Sent
  <2> QED BY <1>1, <2>2, SendsTyped
<1>6. Ids \subseteq 0 .. MaxId /\ 0 \in 0 .. MaxId
  BY ManagerAssumption DEF Ids
<1>7. create_playlist(a) \/ get_playlists(a) => TypeInv' /\ \A b \in Apps : OneCall(b)'
  BY <1>4, <1>6 DEF create_playlist, get_playlists
<1>8. ASSUME NEW id \in Ids, dup_playlist(a, id) \/ get_playlist(a, id) \/ destroy_playlist(a, id) \/ Unref(a, id)
      PROVE  TypeInv' /\ \A b \in Apps : OneCall(b)'
  BY <1>3, <1>4, <1>5, <1>6, <1>8 DEF dup_playlist, get_playlist, Unref, bus
<1> QED BY <1>2, <1>7, <1>8 DEF Functions

\* The reply of the daemon is taken, past the signals that wait.
LEMMA ReturnsKeep ==
  ASSUME TypeInv, \A b \in Apps : OneCall(b), \A b \in Apps, i \in Ids : Followed(b, i),
         NEW a \in Apps, Returns(a)
  PROVE  TypeInv' /\ (\A b \in Apps : OneCall(b)') /\ \A b \in Apps, i \in Ids : Followed(b, i)'
<1>1. ~Refetched(a)
  <2>1. call[a] = NoCall \/ call[a] \in RequestType
    BY DEF TypeInv
  <2> QED BY <2>1 DEF Refetched, RequestType, NoCall
<1>2. /\ reply[a] # NoReply /\ reply' = [reply EXCEPT ![a] = NoReply]
      /\ call' = [call EXCEPT ![a] = NoCall]
      /\ UNCHANGED <<daemon, requests, signals, history>>
  BY <1>1 DEF Returns, GotPlaylist, GotPlaylists
<1>3. PICK pls \in Seq(Ids), ids \in Seq(Ids) : pls = playlists[a] /\ ids = reply[a].ids
  BY DEF TypeInv, ReplyType
<1>4. \E new \in Seq(Ids) :
        /\ playlists' = [playlists EXCEPT ![a] = new]
        /\ ToSet(new) \subseteq ToSet(pls) \cup ToSet(ids)
  <2>1. CASE GotPlaylist(a)
    <3>1. CASE ids = <<>>
      BY <1>3, <2>1, <3>1 DEF GotPlaylist, Found, TypeInv
    <3>2. CASE ids # <<>>
      <4>1. ids[1] \in Ids /\ ids[1] \in ToSet(ids)
        BY <3>2, TailAt DEF ToSet
      <4>2. playlists' = [playlists EXCEPT ![a] = Registered(pls, ids[1])]
        BY <1>3, <2>1, <3>2 DEF GotPlaylist, Found
      <4>3. PICK new \in Seq(Ids) : new = Registered(pls, ids[1]) /\ ToSet(new) = ToSet(pls) \cup {ids[1]}
        BY <4>1, RegisteredIs
      <4> QED BY <4>1, <4>2, <4>3
    <3> QED BY <3>1, <3>2
  <2>2. CASE GotPlaylists(a)
    <3>1. PICK S : S = ToSet(ids) \ ToSet(pls)
      OBVIOUS
    <3>2. PICK new \in InOrder(S) : playlists' = [playlists EXCEPT ![a] = pls \o new]
      BY <1>3, <2>2, <3>1 DEF GotPlaylists, Known
    <3>3. S \subseteq Ids /\ IsFiniteSet(S)
      BY <3>1, IdsFinite, FS_Subset DEF ToSet
    <3>4. new \in Seq(S)
      BY <3>3, InOrderIsSeq
    <3>5. new \in Seq(Ids) /\ ToSet(new) \subseteq ToSet(ids)
      BY <3>1, <3>3, <3>4 DEF ToSet
    <3>6. PICK all \in Seq(Ids) : all = pls \o new /\ ToSet(all) \subseteq ToSet(pls) \cup ToSet(new)
      <4>1. new \in Seq(Ids)
        BY <3>5
      <4>2. pls \o new \in Seq(Ids) /\ ToSet(pls \o new) \subseteq ToSet(pls) \cup ToSet(new)
        BY <4>1, JoinedIs
      <4> QED BY <4>2
    <3> QED BY <3>2, <3>5, <3>6
  <2> QED BY <1>1, <2>1, <2>2 DEF Returns
<1>5. /\ playlists' \in [Apps -> Seq(Ids)]
      /\ ToSet(playlists'[a]) \subseteq Known(a) \cup ToSet(reply[a].ids)
      /\ reply'[a] = NoReply
      /\ \A b \in Apps \ {a} : playlists'[b] = playlists[b] /\ reply'[b] = reply[b]
  BY <1>2, <1>3, <1>4 DEF TypeInv, Known
<1>6. TypeInv' /\ \A b \in Apps : OneCall(b)'
  BY <1>2, <1>5, ReturnsTyped
<1>7. ASSUME NEW b \in Apps, NEW i \in Ids
      PROVE  Followed(b, i)'
  <2>1. CASE b = a
    BY <1>2, <1>5, <2>1, ReturnKeeps DEF daemon, history
  <2>2. CASE b # a
    BY <1>2, <1>5, <2>2, OtherKeeps DEF daemon, history
  <2> QED BY <2>1, <2>2
<1> QED BY <1>6, <1>7

\* A signal is handled in the main loop of its application.
LEMMA HandlerKeeps ==
  ASSUME TypeInv, \A b \in Apps : OneCall(b), \A b \in Apps, i \in Ids : Followed(b, i),
         NEW a \in Apps, dbus_handler(a)
  PROVE  TypeInv' /\ (\A b \in Apps : OneCall(b)') /\ \A b \in Apps, i \in Ids : Followed(b, i)'
<1>1. signals[a] # <<>> /\ Taken(a)
  BY DEF dbus_handler, playlist_created, playlist_destroyed, playlist_destruction_failed,
         NameOwnerChanged, Arrives
<1>2. PICK m \in SignalType : m = Head(signals[a])
  BY <1>1, SignalTaken
<1>3. ~NameOwnerChanged(a)
  BY <1>2 DEF NameOwnerChanged, Arrives, SignalType
<1>4. UNCHANGED <<daemon, requests, reply, call, made>>
  BY <1>3 DEF dbus_handler, playlist_created, playlist_destroyed, playlist_destruction_failed,
              manager, history
<1>5. \A b \in Apps : OneCall(b)'
  BY <1>4 DEF OneCall
<1>6. PICK id \in Ids : id = m.id
  BY DEF SignalType
<1>7. /\ playlists' \in [Apps -> Seq(Ids)]
      /\ \A b \in Apps \ {a} : playlists'[b] = playlists[b]
      /\ announced' \in [Apps -> [Ids -> Nat]] /\ gone' \in [Apps -> SUBSET Ids]
      /\ \A b \in Apps \ {a} : announced'[b] = announced[b] /\ gone'[b] = gone[b]
  <2>1. CASE playlist_created(a)
    <3>1. /\ playlists' = [playlists EXCEPT ![a] = Registered(playlists[a], id)]
          /\ announced' = [announced EXCEPT ![a][id] = announced[a][id] + 1]
          /\ UNCHANGED gone
      BY <1>2, <1>6, <2>1 DEF playlist_created
    <3> QED BY <3>1, RegisteredIs DEF TypeInv
  <2>2. CASE playlist_destroyed(a)
    <3>1. /\ Removed(a, {id}) /\ gone' = [gone EXCEPT ![a] = gone[a] \cup {id}] /\ UNCHANGED announced
      BY <1>2, <1>6, <2>2 DEF playlist_destroyed
    <3> QED BY <3>1, RemovedIs DEF TypeInv
  <2>3. CASE playlist_destruction_failed(a)
    BY <2>3 DEF playlist_destruction_failed, manager, history, TypeInv
  <2> QED BY <1>3, <2>1, <2>2, <2>3 DEF dbus_handler
<1>8. TypeInv'
  BY <1>1, <1>4, <1>7, SignalTaken DEF TypeInv, daemon
<1>9. ASSUME NEW b \in Apps, NEW i \in Ids
      PROVE  Followed(b, i)'
  <2>1. CASE b = a
    BY <1>3, <2>1, CreatedKeeps, DestroyedKeeps, FailedKeeps DEF dbus_handler
  <2>2. CASE b # a
    BY <1>1, <1>4, <1>7, <2>2, SignalTaken, OtherKeeps DEF daemon
  <2> QED BY <2>1, <2>2
<1> QED BY <1>5, <1>8, <1>9

LEMMA NextKeepsInv == Inv /\ [Next]_vars => Inv'
<1> SUFFICES ASSUME Inv, [Next]_vars PROVE Inv'
  OBVIOUS
<1>1. CASE restarts # 0 \/ Restart
  <2>1. restarts' \in {restarts, restarts + 1} /\ restarts' # 0
    <3>1. CASE Restart
      BY <3>1 DEF Inv, Restart
    <3>2. CASE ~Restart
      <4>1. UNCHANGED restarts
        BY <3>2 DEF Next, vars, daemon, Others, Handle, Functions, create_playlist, get_playlists,
             dup_playlist, get_playlist, destroy_playlist, Unref, dbus_handler, playlist_created,
             playlist_destroyed, playlist_destruction_failed, NameOwnerChanged, Returns,
             GotPlaylist, GotPlaylists, Refetched
      <4> QED BY <1>1, <3>2, <4>1
    <3> QED BY <3>1, <3>2
  <2> QED BY <2>1 DEF Inv
<1>2. CASE restarts = 0 /\ ~Restart
  <2>1. TypeInv /\ (\A b \in Apps : OneCall(b)) /\ \A b \in Apps, i \in Ids : Followed(b, i)
    BY <1>2 DEF Inv
  <2>2. CASE UNCHANGED vars
    BY <2>1, <2>2, OtherKeeps DEF Inv, TypeInv, OneCall, vars, daemon, bus, manager, history
  <2>3. CASE Others
    <3>1. Effect /\ UNCHANGED <<restarts, requests, reply, manager, announced, gone>>
      BY <2>3 DEF Others, Effect
    <3>2. TypeInv' /\ \A b \in Apps : OneCall(b)'
      BY <2>1, <3>1, EffectTyped DEF TypeInv, OneCall, manager
    <3>3. \A b \in Apps, i \in Ids : Followed(b, i)'
      BY <2>1, <3>1, EffectKeeps DEF manager
    <3> QED BY <1>2, <3>1, <3>2, <3>3 DEF Inv
  <2>4. ASSUME NEW a \in Apps, Handle(a)
        PROVE  Inv'
    <3>1. /\ Effect /\ UNCHANGED <<restarts, playlists, announced, gone>>
          /\ UNCHANGED reply \/ Replied(a)
      BY <2>1, <2>4, HandleIs DEF manager
    <3>2. TypeInv' /\ \A b \in Apps : OneCall(b)'
      BY <2>1, <2>4, HandleTyped
    <3>3. \A b \in Apps : ToSet(reply'[b].ids) \subseteq ToSet(reply[b].ids) \cup live'
      <4>1. CASE UNCHANGED reply
        BY <4>1
      <4>2. CASE Replied(a)
        <5>1. PICK ok \in BOOLEAN, ids \in Seq(Ids) :
                /\ ToSet(ids) \subseteq live'
                /\ reply' = [reply EXCEPT ![a] = [ok |-> ok, ids |-> ids, at |-> "app"]]
          BY <4>2 DEF Replied
        <5>2. \A b \in Apps : reply'[b] = reply[b] \/ reply'[b].ids = ids
          BY <2>1, <5>1 DEF TypeInv
        <5> QED BY <5>1, <5>2
      <4> QED BY <3>1, <4>1, <4>2
    <3>4. \A b \in Apps, i \in Ids : Followed(b, i)'
      BY <2>1, <3>1, <3>3, EffectKeeps
    <3> QED BY <1>2, <3>1, <3>2, <3>4 DEF Inv
  <2>5. ASSUME NEW a \in Apps, Functions(a) \/ dbus_handler(a) \/ Returns(a)
        PROVE  Inv'
    <3>1. UNCHANGED restarts
      BY <2>5 DEF daemon, Functions, create_playlist, get_playlists,
           dup_playlist, get_playlist, destroy_playlist, Unref, dbus_handler, playlist_created,
           playlist_destroyed, playlist_destruction_failed, NameOwnerChanged, Returns,
           GotPlaylist, GotPlaylists, Refetched
    <3>2. TypeInv' /\ (\A b \in Apps : OneCall(b)') /\ \A b \in Apps, i \in Ids : Followed(b, i)'
      BY <2>1, <2>5, FunctionKeeps, ReturnsKeep, HandlerKeeps
    <3> QED BY <1>2, <3>1, <3>2 DEF Inv
  <2> QED BY <1>2, <2>2, <2>3, <2>4, <2>5 DEF Next
<1> QED BY <1>1, <1>2

LEMMA InvHolds == Spec => []Inv
BY InitInv, NextKeepsInv, PTL DEF Spec

\* Until the daemon is restarted, an object the manager keeps of a playlist that was
\* destroyed is one whose signal waits, whatever replies overtook it
\* (register_playlist(), dbus_handler()).
THEOREM StaleOnItsWay == Spec => []StaleIsOnItsWay
<1>1. Inv => StaleIsOnItsWay
  <2> SUFFICES ASSUME Inv, restarts = 0, NEW a \in Apps, NEW id \in Known(a) \ live
               PROVE  DestroyedMsg(id) \in ToSet(signals[a])
    BY DEF StaleIsOnItsWay, DestroyedMsg
  <2>1. id \in Ids
    BY DEF Inv, TypeInv, Known, ToSet
  <2>2. Waits(a, DestroyedMsg(id))
    BY <2>1 DEF Inv, Followed, Met
  <2> QED BY <2>2 DEF Waits, ToSet
<1> QED BY <1>1, InvHolds, PTL

\* Until the daemon is restarted, an id whose object left .playlists gets no second
\* object: neither from a signal sent before nor from a reply.
THEOREM OneObject == Spec => []SameObject
<1>1. Inv => SameObject
  <2> SUFFICES ASSUME Inv, restarts = 0, NEW a \in Apps, NEW id \in gone[a]
               PROVE  id \notin Known(a)
    BY DEF SameObject
  <2>1. id \in Ids
    BY DEF Inv, TypeInv
  <2> QED BY <2>1 DEF Inv, Followed, GoneForGood
<1> QED BY <1>1, InvHolds, PTL

\* Until the daemon is restarted, every application is told of every new playlist,
\* and once, the one that made it and those that met it in a reply included.
THEOREM EachToldOnce == Spec => []ToldOnce
<1>1. Inv => ToldOnce
  <2> SUFFICES ASSUME Inv, restarts = 0, NEW a \in Apps, NEW id \in Ids
               PROVE  announced[a][id] = IF id \in made /\ CreatedMsg(id) \notin ToSet(signals[a]) THEN 1 ELSE 0
    BY DEF ToldOnce, CreatedMsg
  <2>1. Waits(a, CreatedMsg(id)) <=> CreatedMsg(id) \in ToSet(signals[a])
    BY DEF Waits, ToSet
  <2> QED BY <2>1 DEF Inv, Followed, CreatedOnce
<1> QED BY <1>1, InvHolds, PTL
=============================================================================
