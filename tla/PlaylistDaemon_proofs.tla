----------------------- MODULE PlaylistDaemon_proofs -----------------------
(***************************************************************************)
(* The registry of playlists, for any number of clients, names and         *)
(* playlists: what is in the two trees, in the files and in the lists of   *)
(* holders stays consistent through every history of requests, saves,      *)
(* exits and restarts.                                                     *)
(***************************************************************************)
EXTENDS PlaylistDaemon, FiniteSetTheorems, FunctionTheorems, TLAPS

RequestType ==
  [op : {"create"}, from : Clients, name : Names]
    \cup [op : {"dup", "set_name"}, from : Clients, id : Ids, name : Names]
    \cup [op : {"destroy", "increment", "decrement"}, from : Clients, id : Ids]
ExitType == [op : {"NameOwnerChanged"}, from : Clients]
MessageType == RequestType \cup ExitType

\* Requests that make a playlist.
Makers == {k \in DOMAIN inbox : inbox[k].op \in {"create", "dup"}}

TypeInv ==
  /\ up \in BOOLEAN /\ lost \in BOOLEAN
  /\ Playlists \in [DOMAIN Playlists -> [name : Names, use_count : Nat]]
  /\ DOMAIN Playlists \subseteq Ids
  /\ Last_id \in 1 .. MaxId + 1
  /\ by_name \in [DOMAIN by_name -> Ids]
  /\ holders \in [Clients -> [Ids -> Nat]]
  /\ saved \in [DOMAIN saved -> Names] /\ DOMAIN saved \subseteq Ids
  /\ tmp \in [DOMAIN tmp -> Names] /\ DOMAIN tmp \subseteq Ids
  /\ unsaved \subseteq DOMAIN Playlists
  /\ inbox \in Seq(MessageType)
  /\ connected \subseteq Clients
  /\ mine \in [Clients -> [Ids -> Nat]]

\* A playlist that is to be made will get an id within the bound; while the daemon
\* does not run, none is to be made and none is to be saved.
HasRoom ==
  /\ up => Last_id + Cardinality(Makers) <= MaxId + 1
  /\ ~up => Makers = {} /\ unsaved = {}

LEMMA UintIsNat == ASSUME NEW n \in Int PROVE Wrap(n) \in Nat
BY InstanceAssumption DEF Wrap
LEMMA SmallIsItself == ASSUME NEW n \in Nat, n < UintMod PROVE Wrap(n) = n
BY InstanceAssumption DEF Wrap
LEMMA MakersFinite ==
  ASSUME TypeInv PROVE IsFiniteSet(Makers) /\ Cardinality(Makers) \in Nat
<1>1. inbox \in Seq(MessageType)
  BY DEF TypeInv
<1>2. IsFiniteSet(DOMAIN inbox)
  BY <1>1, FS_Interval
<1> QED BY <1>2, FS_Subset, FS_CardinalityType DEF Makers

\* One more message is on its way.
LEMMA SentMakers ==
  ASSUME TypeInv, NEW m \in MessageType, inbox' = Append(inbox, m)
  PROVE  /\ inbox' \in Seq(MessageType)
         /\ m.op \in {"create", "dup"} => Cardinality(Makers') = Cardinality(Makers) + 1
         /\ m.op \notin {"create", "dup"} => Makers' = Makers
<1>1. /\ inbox \in Seq(MessageType) /\ inbox' \in Seq(MessageType)
      /\ Len(inbox') = Len(inbox) + 1 /\ inbox'[Len(inbox) + 1] = m
      /\ \A k \in 1 .. Len(inbox) : inbox'[k] = inbox[k]
  BY DEF TypeInv
<1>2. Makers' = IF m.op \in {"create", "dup"} THEN Makers \cup {Len(inbox) + 1} ELSE Makers
  BY <1>1 DEF Makers
<1>3. Len(inbox) + 1 \notin Makers
  BY <1>1 DEF Makers
<1> QED BY <1>1, <1>2, <1>3, MakersFinite, FS_AddElement

\* The first message is taken.
LEMMA TakenMakers ==
  ASSUME TypeInv, inbox # <<>>, inbox' = Tail(inbox)
  PROVE  /\ Msg \in MessageType
         /\ inbox' \in Seq(MessageType)
         /\ Msg.op \in {"create", "dup"} => Cardinality(Makers') = Cardinality(Makers) - 1
         /\ Msg.op \notin {"create", "dup"} => Cardinality(Makers') = Cardinality(Makers)
         /\ Makers = {} => Makers' = {}
<1>1. /\ inbox \in Seq(MessageType) /\ inbox' \in Seq(MessageType)
      /\ Len(inbox) \in Nat \ {0} /\ Len(inbox') = Len(inbox) - 1
      /\ Msg = inbox[1] /\ Msg \in MessageType
      /\ \A k \in 1 .. Len(inbox') : inbox'[k] = inbox[k + 1]
  BY DEF TypeInv, Msg
<1> DEFINE rest == Makers \ {1}
           f == [k \in rest |-> k - 1]
<1>2. IsFiniteSet(rest) /\ Cardinality(rest) = IF Msg.op \in {"create", "dup"}
                                               THEN Cardinality(Makers) - 1
                                               ELSE Cardinality(Makers)
  <2>1. 1 \in Makers <=> Msg.op \in {"create", "dup"}
    BY <1>1 DEF Makers
  <2> QED BY <2>1, MakersFinite, FS_RemoveElement
<1>3. rest = {k \in 2 .. Len(inbox) : inbox[k].op \in {"create", "dup"}}
  BY <1>1 DEF Makers
<1>4. Makers' = {k \in 1 .. Len(inbox) - 1 : inbox[k + 1].op \in {"create", "dup"}}
  BY <1>1 DEF Makers
<1>5. f \in [rest -> Makers']
  BY <1>1, <1>3, <1>4
<1>6. \A a, b \in rest : f[a] = f[b] => a = b
  BY <1>1, <1>3
<1>7. ASSUME NEW k \in Makers' PROVE \E a \in rest : f[a] = k
  <2>1. k + 1 \in rest /\ f[k + 1] = k
    BY <1>1, <1>3, <1>4, <1>7
  <2> QED BY <2>1
<1>8. Cardinality(Makers') = Cardinality(rest)
  <2>1. ExistsBijection(rest, Makers')
    BY <1>5, <1>6, <1>7, Fun_IsBij DEF ExistsBijection
  <2> QED BY <1>2, <2>1, FS_Bijection
<1>9. Makers = {} => Makers' = {}
  BY <1>1, <1>3, <1>7
<1> QED BY <1>1, <1>2, <1>8, <1>9

\* The largest id in the files, when there is one.
LEMMA MaxIsLargest ==
  ASSUME NEW S, S \subseteq Ids, S # {}
  PROVE  Max(S) \in S /\ \A x \in S : x <= Max(S)
<1> DEFINE R == OpToRel(<, Nat)
           bounds == {n \in Nat : \A x \in S : x <= n}
<1>1. MaxId \in bounds /\ S \subseteq Nat
  BY InstanceAssumption DEF Ids
<1>2. PICK n \in bounds : \A y \in bounds : <<y, n>> \notin R
  <2>1. bounds \subseteq Nat /\ bounds # {}
    BY <1>1
  <2> QED BY <2>1, NatLessThanWellFounded, WFMin
<1>3. \A y \in bounds : ~(y < n)
  BY <1>2 DEF OpToRel
<1>4. n \in S
  <2>1. SUFFICES ASSUME n \notin S PROVE FALSE
    OBVIOUS
  <2>2. n \in Nat /\ \A x \in S : x <= n
    BY <1>2
  <2>3. \A x \in S : x \in Nat /\ x < n
    BY <1>1, <2>1, <2>2
  <2>4. n - 1 \in Nat /\ \A x \in S : x <= n - 1
    BY <2>2, <2>3
  <2> QED BY <1>3, <2>2, <2>4
<1>5. \E x \in S : \A y \in S : x >= y
  BY <1>1, <1>2, <1>4
<1>6. Max(S) \in S /\ \A y \in S : Max(S) >= y
  BY <1>5 DEF Max
<1> QED BY <1>1, <1>6

-----------------------------------------------------------------------------
(* Type correctness *)

Typed == TypeInv /\ HasRoom

LEMMA InitTyped == Init => Typed
<1> SUFFICES ASSUME Init PROVE Typed
  OBVIOUS
<1>1. MaxId \in Nat \ {0}
  BY InstanceAssumption
<1>2. /\ DOMAIN Nothing = {}
      /\ \A S : Nothing \in [{} -> S]
      /\ NoUse \in [Ids -> Nat]
  BY DEF Nothing, NoUse
<1>3. /\ up = TRUE /\ lost = FALSE
      /\ Playlists = Nothing /\ by_name = Nothing /\ saved = Nothing /\ tmp = Nothing
      /\ Last_id = 1 /\ unsaved = {} /\ inbox = <<>> /\ connected = Clients
      /\ holders = [c \in Clients |-> NoUse] /\ mine = [c \in Clients |-> NoUse]
  BY DEF Init
<1>4. TypeInv
  <2>1. inbox \in Seq(MessageType) /\ Last_id \in 1 .. MaxId + 1
    BY <1>1, <1>3
  <2>2. /\ Playlists \in [DOMAIN Playlists -> [name : Names, use_count : Nat]]
        /\ by_name \in [DOMAIN by_name -> Ids]
        /\ saved \in [DOMAIN saved -> Names] /\ tmp \in [DOMAIN tmp -> Names]
        /\ DOMAIN Playlists = {} /\ DOMAIN saved = {} /\ DOMAIN tmp = {}
    BY <1>2, <1>3, Zenon
  <2>3. holders \in [Clients -> [Ids -> Nat]] /\ mine \in [Clients -> [Ids -> Nat]]
    BY <1>2, <1>3
  <2> QED BY <1>3, <2>1, <2>2, <2>3 DEF TypeInv
<1>5. Makers = {}
  BY <1>3 DEF Makers
<1>6. HasRoom
  <2>1. Cardinality(Makers) = 0
    BY <1>5, FS_EmptySet
  <2> QED BY <1>1, <1>3, <2>1 DEF HasRoom
<1> QED BY <1>4, <1>6 DEF Typed

LEMMA ClientsKeepTyped ==
  ASSUME Typed, NEW c \in Clients, Send(c) \/ Vanish(c)
  PROVE  Typed'
<1>1. CASE Send(c)
  <2>1. PICK m \in Requests(c) :
          /\ m.op \in {"create", "dup"} => Room
          /\ inbox' = Append(inbox, m)
    BY <1>1 DEF Send
  <2>2. m \in MessageType
    BY DEF Requests, MessageType, RequestType
  <2>3. /\ inbox' \in Seq(MessageType)
        /\ m.op \in {"create", "dup"} => Cardinality(Makers') = Cardinality(Makers) + 1
        /\ m.op \notin {"create", "dup"} => Makers' = Makers
    BY <2>1, <2>2, SentMakers DEF Typed
  <2>4. UNCHANGED <<up, Playlists, by_name, Last_id, holders, saved, tmp, unsaved, connected, lost,
                    mine>>
    BY <1>1 DEF Send, trees, disk, history
  <2>5. m.op \in {"create", "dup"} => up /\ Last_id + Cardinality(Makers) <= MaxId
    BY <2>1 DEF Room, Makers
  <2>6. TypeInv'
    BY <2>3, <2>4 DEF Typed, TypeInv
  <2>7. HasRoom'
    <3>1. Cardinality(Makers) \in Nat /\ Last_id \in Nat /\ MaxId \in Nat
      BY MakersFinite, InstanceAssumption DEF Typed, TypeInv
    <3>2. CASE m.op \in {"create", "dup"}
      BY <2>3, <2>4, <2>5, <3>1, <3>2 DEF HasRoom
    <3>3. CASE m.op \notin {"create", "dup"}
      BY <2>3, <2>4, <3>3 DEF Typed, HasRoom
    <3> QED BY <3>2, <3>3
  <2> QED BY <2>6, <2>7 DEF Typed
<1>2. CASE Vanish(c)
  <2> DEFINE m == [op |-> "NameOwnerChanged", from |-> c]
  <2>1. m \in MessageType
    BY DEF MessageType, ExitType
  <2>2. inbox' = inbox \/ inbox' = Append(inbox, m)
    BY <1>2 DEF Vanish
  <2>3. inbox' \in Seq(MessageType) /\ Makers' = Makers
    BY <2>1, <2>2, SentMakers DEF Typed, TypeInv, Makers
  <2>4. /\ UNCHANGED <<up, Playlists, by_name, Last_id, holders, saved, tmp, unsaved, lost>>
        /\ connected' \subseteq connected
        /\ mine' = [mine EXCEPT ![c] = NoUse]
    BY <1>2 DEF Vanish, trees, disk, history
  <2>5. NoUse \in [Ids -> Nat]
    BY DEF NoUse
  <2>6. TypeInv'
    BY <2>3, <2>4, <2>5 DEF Typed, TypeInv
  <2> QED BY <2>3, <2>4, <2>6 DEF Typed, HasRoom
<1> QED BY <1>1, <1>2

\* What every request has in common.
LEMMA Taken ==
  ASSUME Typed, NEW op, Handle(op)
  PROVE  /\ up /\ Msg \in MessageType /\ Msg.op = op
         /\ inbox' \in Seq(MessageType)
         /\ op \in {"create", "dup"} => Cardinality(Makers') = Cardinality(Makers) - 1
         /\ op \notin {"create", "dup"} => Cardinality(Makers') = Cardinality(Makers)
BY TakenMakers DEF Typed, Handle

\* What a request is about.
LEMMA IsRequest ==
  ASSUME NEW m \in MessageType
  PROVE  /\ m.from \in Clients
         /\ m.op \in {"create", "dup", "set_name"} => m.name \in Names
         /\ m.op \in {"dup", "set_name", "destroy", "increment", "decrement"} => m.id \in Ids
BY DEF MessageType, RequestType, ExitType

\* pls_new(): there is an id for it, which no other playlist has.
LEMMA AddedIsTyped ==
  ASSUME Typed, up, NEW name \in Names, Added(name),
         Last_id \in Ids
  PROVE  /\ Playlists' \in [DOMAIN Playlists' -> [name : Names, use_count : Nat]]
         /\ DOMAIN Playlists' = DOMAIN Playlists \cup {Last_id}
         /\ DOMAIN Playlists' \subseteq Ids
         /\ Last_id' = Last_id + 1
         /\ by_name' \in [DOMAIN by_name' -> Ids]
         /\ unsaved' \subseteq DOMAIN Playlists'
<1>1. [name |-> name, use_count |-> 0] \in [name : Names, use_count : Nat]
  OBVIOUS
<1> QED BY <1>1 DEF Typed, TypeInv, Added

LEMMA MakersKeepTyped ==
  ASSUME Typed, create \/ dup
  PROVE  Typed'
<1>1. PICK op \in {"create", "dup"} :
        /\ Handle(op)
        /\ UNCHANGED <<trees, disk>> \/ Added(Msg.name)
        /\ UNCHANGED <<up, holders, connected, lost, mine>>
  BY DEF create, dup, history
<1>2. /\ up /\ Msg.name \in Names /\ inbox' \in Seq(MessageType)
      /\ Cardinality(Makers') = Cardinality(Makers) - 1
  BY <1>1, Taken, IsRequest
<1>3. /\ Cardinality(Makers) \in Nat /\ Cardinality(Makers) # 0
      /\ Last_id + Cardinality(Makers) <= MaxId + 1
      /\ Last_id \in Nat \ {0}
  <2>1. 1 \in Makers
    BY <1>1 DEF Typed, TypeInv, Handle, Makers, Msg
  <2> QED BY <1>2, <2>1, MakersFinite, FS_EmptySet DEF Typed, TypeInv, HasRoom
<1>4. Last_id \in Ids
  BY <1>3, InstanceAssumption DEF Ids
<1>5. CASE UNCHANGED <<trees, disk>>
  <2>1. TypeInv'
    BY <1>1, <1>2, <1>5 DEF Typed, TypeInv, trees, disk
  <2> QED BY <1>1, <1>2, <1>3, <1>5, <2>1, InstanceAssumption DEF Typed, HasRoom, trees
<1>6. CASE Added(Msg.name)
  <2>1. TypeInv'
    <3>1. Last_id + 1 \in 1 .. MaxId + 1 /\ UNCHANGED <<saved, tmp>>
      BY <1>4, <1>6, InstanceAssumption DEF Ids, Added
    <3> QED BY <1>1, <1>2, <1>4, <1>6, <3>1, AddedIsTyped DEF Typed, TypeInv
  <2>2. Last_id' = Last_id + 1
    BY <1>6 DEF Added
  <2> QED BY <1>1, <1>2, <1>3, <2>1, <2>2, InstanceAssumption DEF Typed, HasRoom
<1> QED BY <1>1, <1>5, <1>6

LEMMA DestroyKeepsTyped == ASSUME Typed, destroy PROVE Typed'
<1>1. /\ up /\ inbox' \in Seq(MessageType) /\ Cardinality(Makers') = Cardinality(Makers)
      /\ UNCHANGED <<up, Last_id, holders, tmp, connected, lost, mine>>
  BY Taken DEF destroy, history
<1>2. CASE UNCHANGED <<Playlists, by_name, saved, unsaved>>
  <2>1. TypeInv'
    BY <1>1, <1>2 DEF Typed, TypeInv
  <2> QED BY <1>1, <2>1 DEF Typed, HasRoom
<1>3. CASE /\ saved' = Restrict(saved, DOMAIN saved \ {Msg.id})
           /\ unsaved' = unsaved \ {Msg.id}
           /\ by_name' = Restrict(by_name, DOMAIN by_name \ {Playlists[Msg.id].name})
           /\ Playlists' = Restrict(Playlists, DOMAIN Playlists \ {Msg.id})
  <2>1. /\ Playlists' \in [DOMAIN Playlists' -> [name : Names, use_count : Nat]]
        /\ DOMAIN Playlists' = DOMAIN Playlists \ {Msg.id}
    BY <1>3 DEF Typed, TypeInv, Restrict
  <2>2. saved' \in [DOMAIN saved' -> Names] /\ DOMAIN saved' \subseteq DOMAIN saved
    BY <1>3 DEF Typed, TypeInv, Restrict
  <2>3. by_name' \in [DOMAIN by_name' -> Ids]
    BY <1>3 DEF Typed, TypeInv, Restrict
  <2>4. TypeInv'
    BY <1>1, <1>3, <2>1, <2>2, <2>3 DEF Typed, TypeInv
  <2> QED BY <1>1, <2>4 DEF Typed, HasRoom
<1> QED BY <1>2, <1>3 DEF destroy

LEMMA RenameKeepsTyped == ASSUME Typed, set_name PROVE Typed'
<1>1. /\ up /\ inbox' \in Seq(MessageType) /\ Cardinality(Makers') = Cardinality(Makers)
      /\ Msg.id \in Ids /\ Msg.name \in Names
      /\ UNCHANGED <<up, Last_id, holders, saved, tmp, connected, lost, mine>>
  BY Taken, IsRequest DEF set_name, history
<1>2. CASE UNCHANGED <<Playlists, by_name, unsaved>>
  <2>1. TypeInv'
    BY <1>1, <1>2 DEF Typed, TypeInv
  <2> QED BY <1>1, <2>1 DEF Typed, HasRoom
<1>3. CASE ~UNCHANGED <<Playlists, by_name, unsaved>>
  <2>1. PICK others : /\ others \subseteq DOMAIN by_name
                      /\ by_name' = [n \in others \cup {Msg.name} |->
                                       IF n = Msg.name THEN Msg.id ELSE by_name[n]]
    BY <1>3 DEF set_name
  <2>2. /\ Known(Msg.id)
        /\ Playlists' = [Playlists EXCEPT ![Msg.id].name = Msg.name]
        /\ unsaved' = unsaved \cup {Msg.id}
    BY <1>3 DEF set_name
  <2>3. by_name' \in [DOMAIN by_name' -> Ids]
    BY <1>1, <2>1 DEF Typed, TypeInv
  <2>4. /\ Playlists' \in [DOMAIN Playlists' -> [name : Names, use_count : Nat]]
        /\ DOMAIN Playlists' = DOMAIN Playlists
    BY <1>1, <2>2 DEF Typed, TypeInv, Known
  <2>5. TypeInv'
    BY <1>1, <2>2, <2>3, <2>4 DEF Typed, TypeInv, Known
  <2> QED BY <1>1, <2>5 DEF Typed, HasRoom
<1> QED BY <1>2, <1>3

LEMMA UseKeepsTyped ==
  ASSUME Typed, increment_use_count \/ decrement_use_count
  PROVE  Typed'
<1>1. /\ up /\ inbox' \in Seq(MessageType) /\ Cardinality(Makers') = Cardinality(Makers)
      /\ Msg.id \in Ids /\ Msg.from \in Clients /\ Known(Msg.id)
      /\ UNCHANGED <<up, by_name, Last_id, saved, tmp, connected, lost>>
      /\ unsaved' = unsaved \cup {Msg.id}
  BY Taken, IsRequest DEF increment_use_count, decrement_use_count, history
<1>2. PICK d \in {1, -1} :
        Playlists' = [Playlists EXCEPT ![Msg.id].use_count = Wrap(@ + d)]
  <2>1. Playlists[Msg.id].use_count - 1 = Playlists[Msg.id].use_count + (-1)
    BY <1>1 DEF Typed, TypeInv, Known
  <2> QED BY <2>1 DEF increment_use_count, decrement_use_count
<1>3. /\ Playlists' \in [DOMAIN Playlists' -> [name : Names, use_count : Nat]]
      /\ DOMAIN Playlists' = DOMAIN Playlists
  <2>1. Playlists[Msg.id].use_count + d \in Int
    BY <1>1 DEF Typed, TypeInv, Known
  <2>2. Wrap(Playlists[Msg.id].use_count + d) \in Nat
    BY <2>1, UintIsNat
  <2> QED BY <1>1, <1>2, <2>2 DEF Typed, TypeInv, Known
<1>4. holders' \in [Clients -> [Ids -> Nat]]
  <2>1. holders[Msg.from][Msg.id] \in Nat
    BY <1>1 DEF Typed, TypeInv
  <2>2. /\ holders[Msg.from][Msg.id] + 1 \in Nat
        /\ (IF holders[Msg.from][Msg.id] > 0 THEN holders[Msg.from][Msg.id] - 1 ELSE 0) \in Nat
    BY <2>1
  <2>3. \/ holders' = [holders EXCEPT ![Msg.from][Msg.id] = holders[Msg.from][Msg.id] + 1]
        \/ holders' = [holders EXCEPT ![Msg.from][Msg.id] =
                         IF holders[Msg.from][Msg.id] > 0 THEN holders[Msg.from][Msg.id] - 1 ELSE 0]
    BY DEF increment_use_count, decrement_use_count
  <2>4. PICK n \in Nat : holders' = [holders EXCEPT ![Msg.from][Msg.id] = n]
    BY <2>2, <2>3, Zenon
  <2> QED BY <1>1, <2>4 DEF Typed, TypeInv
<1>5. mine' \in [Clients -> [Ids -> Nat]]
  <2>1. mine[Msg.from][Msg.id] \in Nat
    BY <1>1 DEF Typed, TypeInv
  <2>2. CASE UNCHANGED mine
    BY <2>2 DEF Typed, TypeInv
  <2>3. ASSUME NEW k \in Int, mine[Msg.from][Msg.id] + k >= 0,
               mine' = [mine EXCEPT ![Msg.from][Msg.id] = @ + k]
        PROVE  mine' \in [Clients -> [Ids -> Nat]]
    <3>1. mine[Msg.from][Msg.id] + k \in Nat
      BY <2>1, <2>3
    <3> QED BY <1>1, <2>3, <3>1 DEF Typed, TypeInv
  <2>4. CASE increment_use_count
    <3>1. UNCHANGED mine \/ mine' = [mine EXCEPT ![Msg.from][Msg.id] = @ + 1]
      BY <2>4 DEF increment_use_count, Acknowledged
    <3> QED BY <2>1, <2>2, <2>3, <3>1
  <2>5. CASE decrement_use_count
    <3> DEFINE k == IF mine[Msg.from][Msg.id] > 0 THEN -1 ELSE 0
    <3>1. UNCHANGED mine \/ mine' = [mine EXCEPT ![Msg.from][Msg.id] = @ + k]
      BY <2>5 DEF decrement_use_count, Acknowledged
    <3>2. k \in Int /\ mine[Msg.from][Msg.id] + k >= 0
      BY <2>1
    <3> HIDE DEF k
    <3> QED BY <2>2, <2>3, <3>1, <3>2
  <2> QED BY <2>4, <2>5
<1>6. TypeInv'
  BY <1>1, <1>3, <1>4, <1>5 DEF Typed, TypeInv, Known
<1> QED BY <1>1, <1>6 DEF Typed, HasRoom

LEMMA OtherRequestsKeepTyped ==
  ASSUME Typed, no_such_playlist \/ NameOwnerChanged
  PROVE  Typed'
<1>1. CASE no_such_playlist
  <2>1. /\ up /\ inbox' \in Seq(MessageType) /\ Cardinality(Makers') = Cardinality(Makers)
        /\ UNCHANGED <<up, trees, holders, disk, connected, lost, mine>>
    BY <1>1, Taken DEF no_such_playlist, history
  <2>2. TypeInv'
    BY <2>1 DEF Typed, TypeInv, trees, disk
  <2> QED BY <2>1, <2>2 DEF Typed, HasRoom, trees
<1>2. CASE NameOwnerChanged
  <2>1. /\ up /\ inbox' \in Seq(MessageType) /\ Cardinality(Makers') = Cardinality(Makers)
        /\ Msg.from \in Clients
    BY <1>2, Taken DEF NameOwnerChanged, MessageType, RequestType, ExitType
  <2>2. /\ UNCHANGED <<up, by_name, Last_id, saved, tmp, connected, lost, mine>>
        /\ holders' = [holders EXCEPT ![Msg.from] = NoUse]
        /\ Playlists' = [id \in DOMAIN Playlists |->
             [Playlists[id] EXCEPT !.use_count = Wrap(@ - holders[Msg.from][id])]]
        /\ unsaved' = unsaved \cup {id \in DOMAIN Playlists : holders[Msg.from][id] > 0}
    BY <1>2 DEF NameOwnerChanged, history
  <2>3. \A id \in DOMAIN Playlists :
          Wrap(Playlists[id].use_count - holders[Msg.from][id]) \in Nat
    <3>1. \A id \in DOMAIN Playlists :
            Playlists[id].use_count - holders[Msg.from][id] \in Int
      BY <2>1 DEF Typed, TypeInv
    <3> QED BY <3>1, UintIsNat
  <2>4. /\ DOMAIN Playlists' = DOMAIN Playlists
        /\ Playlists' \in [DOMAIN Playlists' -> [name : Names, use_count : Nat]]
    BY <2>2, <2>3 DEF Typed, TypeInv
  <2>5. holders' \in [Clients -> [Ids -> Nat]]
    BY <2>2 DEF Typed, TypeInv, NoUse
  <2>6. unsaved' \subseteq DOMAIN Playlists
    BY <2>2 DEF Typed, TypeInv
  <2>7. TypeInv'
    BY <2>1, <2>2, <2>4, <2>5, <2>6 DEF Typed, TypeInv
  <2> QED BY <2>1, <2>2, <2>7 DEF Typed, HasRoom
<1> QED BY <1>1, <1>2

\* What saves with an outcome each make of the files.
LEMMA Saved ==
  ASSUME Typed, NEW ids \in SUBSET DOMAIN Playlists,
         NEW outcome \in [ids -> {"ok", "open", "write", "rename"}], pls_save(outcome)
  PROVE  /\ DOMAIN saved' = DOMAIN saved \cup {i \in ids : outcome[i] = "ok"}
         /\ \A i \in DOMAIN saved' :
              saved'[i] = IF i \in ids /\ outcome[i] = "ok" THEN Playlists[i].name ELSE saved[i]
         /\ DOMAIN tmp' = (DOMAIN tmp \ {i \in ids : outcome[i] \in {"ok", "write"}})
                            \cup {i \in ids : outcome[i] = "rename"}
         /\ \A i \in DOMAIN tmp' :
              tmp'[i] = IF i \in ids /\ outcome[i] = "rename" THEN Playlists[i].name ELSE tmp[i]
         /\ saved' \in [DOMAIN saved' -> Names] /\ DOMAIN saved' \subseteq Ids
         /\ tmp' \in [DOMAIN tmp' -> Names] /\ DOMAIN tmp' \subseteq Ids
<1>1. /\ DOMAIN saved' = DOMAIN saved \cup {i \in ids : outcome[i] = "ok"}
      /\ \A i \in DOMAIN saved' :
           saved'[i] = IF i \in ids /\ outcome[i] = "ok" THEN Playlists[i].name ELSE saved[i]
      /\ saved' = [i \in DOMAIN saved' |-> saved'[i]]
  BY DEF pls_save
<1>2. /\ DOMAIN tmp' = (DOMAIN tmp \ {i \in ids : outcome[i] \in {"ok", "write"}})
                         \cup {i \in ids : outcome[i] = "rename"}
      /\ \A i \in DOMAIN tmp' :
           tmp'[i] = IF i \in ids /\ outcome[i] = "rename" THEN Playlists[i].name ELSE tmp[i]
      /\ tmp' = [i \in DOMAIN tmp' |-> tmp'[i]]
  BY DEF pls_save
<1>3. \A i \in ids : Playlists[i].name \in Names /\ i \in Ids
  BY DEF Typed, TypeInv
<1>4. saved' \in [DOMAIN saved' -> Names] /\ DOMAIN saved' \subseteq Ids
  BY <1>1, <1>3 DEF Typed, TypeInv
<1>5. tmp' \in [DOMAIN tmp' -> Names] /\ DOMAIN tmp' \subseteq Ids
  BY <1>2, <1>3 DEF Typed, TypeInv
<1> QED BY <1>1, <1>2, <1>4, <1>5

\* The timer of one playlist, as such saves.
LEMMA SavesOne ==
  ASSUME Typed, NEW id \in Ids, save_me(id)
  PROVE  \E outcome \in [{id} -> {"ok", "open", "write", "rename"}] :
           /\ pls_save(outcome)
           /\ unsaved' = IF outcome[id] = "ok" THEN unsaved \ {id} ELSE unsaved
           /\ {id} \subseteq DOMAIN Playlists
<1>1. PICK out \in Outcomes :
        /\ pls_save([i \in {id} |-> out])
        /\ unsaved' = IF out = "ok" THEN unsaved \ {id} ELSE unsaved
  BY DEF save_me
<1>2. out \in {"ok", "open", "write", "rename"}
  BY DEF Outcomes
<1>3. id \in DOMAIN Playlists
  BY DEF save_me, Typed, TypeInv
<1>4. /\ [i \in {id} |-> out] \in [{id} -> {"ok", "open", "write", "rename"}]
      /\ [i \in {id} |-> out][id] = out
  BY <1>2
<1> QED BY <1>1, <1>3, <1>4

LEMMA SavingKeepsTyped ==
  ASSUME Typed, NEW id \in Ids, save_me(id)
  PROVE  Typed'
<1>1. UNCHANGED <<up, Playlists, by_name, Last_id, holders, inbox, connected, lost, mine>>
  BY DEF save_me, trees, history
<1>2. PICK outcome \in [{id} -> {"ok", "open", "write", "rename"}] :
        /\ pls_save(outcome)
        /\ unsaved' = IF outcome[id] = "ok" THEN unsaved \ {id} ELSE unsaved
        /\ {id} \subseteq DOMAIN Playlists
  BY SavesOne
<1>3. /\ saved' \in [DOMAIN saved' -> Names] /\ DOMAIN saved' \subseteq Ids
      /\ tmp' \in [DOMAIN tmp' -> Names] /\ DOMAIN tmp' \subseteq Ids
  BY <1>2, Saved
<1>4. TypeInv'
  BY <1>1, <1>2, <1>3 DEF Typed, TypeInv
<1> QED BY <1>1, <1>2, <1>4 DEF Typed, HasRoom, Makers

\* The two ends of the process, and what they write.
LEMMA Ends ==
  ASSUME Typed, Exit \/ Kill
  PROVE  /\ up
         /\ \/ \E outcome \in [DOMAIN Playlists -> {"ok", "open", "write", "rename"}] :
                 /\ pls_save(outcome)
                 /\ Ended({id \in unsaved : outcome[id] \in {"open", "write"}})
            \/ UNCHANGED <<saved, tmp>> /\ Ended(unsaved)
<1>1. Outcomes \subseteq {"ok", "open", "write", "rename"}
  BY DEF Outcomes
<1>2. ASSUME Exit
      PROVE  \E outcome \in [DOMAIN Playlists -> {"ok", "open", "write", "rename"}] :
               /\ pls_save(outcome)
               /\ Ended({id \in unsaved : outcome[id] \in {"open", "write"}})
  <2>1. PICK outcome \in [DOMAIN Playlists -> Outcomes] :
          /\ pls_save(outcome)
          /\ Ended({id \in unsaved : outcome[id] \in {"open", "write"}})
    BY <1>2 DEF Exit
  <2>2. outcome \in [DOMAIN Playlists -> {"ok", "open", "write", "rename"}]
    BY <1>1
  <2> QED BY <2>1, <2>2
<1> QED BY <1>2 DEF Exit, Kill

LEMMA EndKeepsTyped ==
  ASSUME Typed, Exit \/ Kill
  PROVE  Typed'
<1>1. /\ up' = FALSE /\ lost' \in BOOLEAN
      /\ Playlists' = Nothing /\ by_name' = Nothing /\ Last_id' = 1
      /\ holders' = [c \in Clients |-> NoUse]
      /\ unsaved' = {} /\ inbox' = <<>> /\ UNCHANGED <<connected, mine>>
  BY DEF Typed, TypeInv, Exit, Kill, Ended
<1>2. /\ saved' \in [DOMAIN saved' -> Names] /\ DOMAIN saved' \subseteq Ids
      /\ tmp' \in [DOMAIN tmp' -> Names] /\ DOMAIN tmp' \subseteq Ids
  <2>1. CASE UNCHANGED <<saved, tmp>>
    BY <2>1 DEF Typed, TypeInv
  <2>2. ASSUME NEW outcome \in [DOMAIN Playlists -> {"ok", "open", "write", "rename"}],
               pls_save(outcome)
        PROVE  /\ saved' \in [DOMAIN saved' -> Names] /\ DOMAIN saved' \subseteq Ids
               /\ tmp' \in [DOMAIN tmp' -> Names] /\ DOMAIN tmp' \subseteq Ids
    BY <2>2, Saved
  <2> QED BY <2>1, <2>2, Ends
<1>3. inbox' \in Seq(MessageType) /\ 1 \in 1 .. MaxId + 1
  BY <1>1, InstanceAssumption
<1>4. /\ Playlists' \in [DOMAIN Playlists' -> [name : Names, use_count : Nat]]
      /\ by_name' \in [DOMAIN by_name' -> Ids]
      /\ DOMAIN Playlists' = {}
  <2>1. DOMAIN Nothing = {} /\ \A S : Nothing \in [{} -> S]
    BY DEF Nothing
  <2> QED BY <1>1, <2>1, Zenon
<1>5. holders' \in [Clients -> [Ids -> Nat]]
  BY <1>1 DEF NoUse
<1>6. TypeInv'
  BY <1>1, <1>2, <1>3, <1>4, <1>5 DEF Typed, TypeInv
<1>7. Makers' = {}
  BY <1>1 DEF Makers
<1> QED BY <1>1, <1>6, <1>7 DEF Typed, HasRoom

\* Names of playlists, as they are in the files.
FileSets == SUBSET (Ids \X Names)

\* What load_playlists() makes of the files.
LEMMA Loaded ==
  ASSUME NEW files \in FileSets, load_playlists(files)
  PROVE  /\ \A id : id \in DOMAIN Playlists' <=> \E n : <<id, n>> \in files
         /\ \A id \in DOMAIN Playlists' : <<id, Playlists'[id].name>> \in files
         /\ Playlists' \in [DOMAIN Playlists' -> [name : Names, use_count : Nat]]
         /\ DOMAIN Playlists' \subseteq Ids
         /\ \A n : n \in DOMAIN by_name' <=> \E id : <<id, n>> \in files
         /\ \A n \in DOMAIN by_name' : <<by_name'[n], n>> \in files
         /\ by_name' \in [DOMAIN by_name' -> Ids]
         /\ Last_id' \in 1 .. MaxId + 1
         /\ \A id \in DOMAIN Playlists' : id < Last_id'
<1>1. PICK ids, names :
        /\ ids = {f[1] : f \in files} /\ names = {f[2] : f \in files}
        /\ \E name \in [ids -> names] :
             /\ \A id \in ids : <<id, name[id]>> \in files
             /\ Playlists' = [id \in ids |-> [name |-> name[id], use_count |-> 0]]
        /\ \E last \in [names -> ids] :
             /\ \A n \in names : <<last[n], n>> \in files
             /\ by_name' = last
        /\ Last_id' = IF ids = {} THEN 1 ELSE Max(ids) + 1
  BY DEF load_playlists
<1>2. /\ \A id : id \in ids <=> \E n : <<id, n>> \in files
      /\ \A n : n \in names <=> \E id : <<id, n>> \in files
      /\ ids \subseteq Ids /\ names \subseteq Names
  <2>1. \A f \in files : f = <<f[1], f[2]>> /\ f[1] \in Ids /\ f[2] \in Names
    BY DEF FileSets
  <2>2. \A id : id \in ids <=> \E f \in files : id = f[1]
    BY <1>1
  <2>3. \A n : n \in names <=> \E f \in files : n = f[2]
    BY <1>1
  <2>4. \A a, b : <<a, b>>[1] = a /\ <<a, b>>[2] = b
    OBVIOUS
  <2>5. ASSUME NEW id PROVE id \in ids <=> \E n : <<id, n>> \in files
    <3>1. ASSUME id \in ids PROVE \E n : <<id, n>> \in files
      <4>1. PICK f \in files : id = f[1]
        BY <2>2, <3>1
      <4> QED BY <2>1, <4>1
    <3>2. ASSUME NEW n, <<id, n>> \in files PROVE id \in ids
      BY <2>2, <2>4, <3>2
    <3> QED BY <3>1, <3>2
  <2>6. ASSUME NEW n PROVE n \in names <=> \E id : <<id, n>> \in files
    <3>1. ASSUME n \in names PROVE \E id : <<id, n>> \in files
      <4>1. PICK f \in files : n = f[2]
        BY <2>3, <3>1
      <4> QED BY <2>1, <4>1
    <3>2. ASSUME NEW id, <<id, n>> \in files PROVE n \in names
      BY <2>3, <2>4, <3>2
    <3> QED BY <3>1, <3>2
  <2>7. ids \subseteq Ids /\ names \subseteq Names
    BY <2>1, <2>2, <2>3
  <2> QED BY <2>5, <2>6, <2>7
<1>3. Last_id' \in 1 .. MaxId + 1 /\ \A id \in ids : id < Last_id'
  <2>1. Last_id' = IF ids = {} THEN 1 ELSE Max(ids) + 1
    BY <1>1, Zenon
  <2>2. CASE ids = {}
    BY <2>1, <2>2, InstanceAssumption
  <2>3. CASE ids # {}
    <3>1. ids \subseteq Ids
      BY <1>2
    <3>2. Max(ids) \in ids /\ \A id \in ids : id <= Max(ids)
      BY <2>3, <3>1, MaxIsLargest
    <3>3. \A id \in ids : id \in 1 .. MaxId
      BY <3>1 DEF Ids
    <3>4. PICK max \in 1 .. MaxId : max = Max(ids)
      BY <3>2, <3>3
    <3> QED BY <2>1, <2>3, <3>2, <3>3, <3>4, InstanceAssumption
  <2> QED BY <2>2, <2>3
<1>4. /\ DOMAIN Playlists' = ids
      /\ \A id \in ids : <<id, Playlists'[id].name>> \in files
      /\ Playlists' \in [ids -> [name : Names, use_count : Nat]]
  <2>1. PICK name \in [ids -> names] :
          /\ \A id \in ids : <<id, name[id]>> \in files
          /\ Playlists' = [id \in ids |-> [name |-> name[id], use_count |-> 0]]
    BY <1>1, Zenon
  <2>2. \A id \in ids : [name |-> name[id], use_count |-> 0] \in [name : Names, use_count : Nat]
    BY <1>2
  <2> QED BY <2>1, <2>2
<1>5. /\ DOMAIN by_name' = names
      /\ \A n \in names : <<by_name'[n], n>> \in files
      /\ by_name' \in [names -> Ids]
  <2>1. PICK last \in [names -> ids] :
          /\ \A n \in names : <<last[n], n>> \in files
          /\ by_name' = last
    BY <1>1, Zenon
  <2> QED BY <1>2, <2>1
<1> QED BY <1>2, <1>3, <1>4, <1>5

\* What the directory and the .tmp files hold once the daemon has started.
LEMMA FilesRead ==
  ASSUME Typed, Start
  PROVE  /\ saved' \in [DOMAIN saved' -> Names] /\ DOMAIN saved' \subseteq Ids
         /\ tmp' \in [DOMAIN tmp' -> Names] /\ DOMAIN tmp' \subseteq Ids
         /\ \E files \in FileSets :
              /\ load_playlists(files)
              /\ \A id, n : <<id, n>> \in files <=>
                   \/ id \in DOMAIN saved' /\ n = saved'[id]
                   \/ id \in DOMAIN tmp' /\ n = tmp'[id]
<1>1. PICK inDir \in BOOLEAN : Recovered(inDir)
  BY DEF Start
<1>2. /\ saved' \in [DOMAIN saved' -> Names] /\ DOMAIN saved' \subseteq Ids
      /\ tmp' \in [DOMAIN tmp' -> Names] /\ DOMAIN tmp' \subseteq Ids
  <2>1. CASE UNCHANGED <<saved, tmp>>
    BY <2>1 DEF Typed, TypeInv
  <2>2. CASE /\ saved' = [id \in DOMAIN saved \cup DOMAIN tmp |->
                            IF id \in DOMAIN tmp THEN tmp[id] ELSE saved[id]]
             /\ tmp' = Nothing
    <3>1. saved' \in [DOMAIN saved' -> Names] /\ DOMAIN saved' \subseteq Ids
      BY <2>2 DEF Typed, TypeInv
    <3>2. DOMAIN Nothing = {} /\ \A S : Nothing \in [{} -> S]
      BY DEF Nothing
    <3>3. tmp' \in [DOMAIN tmp' -> Names] /\ DOMAIN tmp' = {}
      BY <2>2, <3>2, Zenon
    <3> QED BY <3>1, <3>3
  <2> QED BY <1>1, <2>1, <2>2 DEF Recovered
<1>3. PICK files : /\ files = Files(saved') \cup Files(tmp')
                   /\ load_playlists(files)
  BY DEF Start
<1>4. \A id, n : <<id, n>> \in files <=>
        \/ id \in DOMAIN saved' /\ n = saved'[id]
        \/ id \in DOMAIN tmp' /\ n = tmp'[id]
  BY <1>3 DEF Files
<1>5. files \in FileSets
  BY <1>2, <1>3 DEF Files, FileSets
<1> QED BY <1>2, <1>3, <1>4, <1>5

LEMMA StartKeepsTyped ==
  ASSUME Typed, Start
  PROVE  Typed'
<1>1. /\ ~up /\ up' = TRUE /\ lost' \in BOOLEAN
      /\ UNCHANGED <<holders, unsaved, inbox, connected, mine>>
  BY DEF Start, Typed, TypeInv
<1>2. /\ saved' \in [DOMAIN saved' -> Names] /\ DOMAIN saved' \subseteq Ids
      /\ tmp' \in [DOMAIN tmp' -> Names] /\ DOMAIN tmp' \subseteq Ids
  BY FilesRead
<1>3. PICK files \in FileSets : load_playlists(files)
  BY FilesRead
<1>4. /\ Playlists' \in [DOMAIN Playlists' -> [name : Names, use_count : Nat]]
      /\ by_name' \in [DOMAIN by_name' -> Ids]
      /\ Last_id' \in 1 .. MaxId + 1
      /\ DOMAIN Playlists' \subseteq Ids
  BY <1>3, Loaded
<1>5. Makers = {} /\ Makers' = {} /\ unsaved' = {}
  BY <1>1 DEF Typed, HasRoom, Makers
<1>6. TypeInv'
  BY <1>1, <1>2, <1>4, <1>5 DEF Typed, TypeInv
<1>7. HasRoom'
  <2>1. Cardinality(Makers') = 0
    BY <1>5, FS_EmptySet
  <2> QED BY <1>1, <1>4, <2>1, InstanceAssumption DEF HasRoom
<1> QED BY <1>6, <1>7 DEF Typed

\* Type correctness: ids stay within the bound, counts are natural numbers, and
\* only playlists that exist wait to be saved.
THEOREM TypeCorrect == Spec => []Typed
<1>1. ASSUME Typed, [Next]_vars PROVE Typed'
  <2>1. CASE UNCHANGED vars
    <3>1. Makers' = Makers
      BY <2>1 DEF vars, Makers
    <3>2. TypeInv'
      BY <1>1, <2>1 DEF Typed, TypeInv, vars, trees, disk, history
    <3> QED BY <1>1, <2>1, <3>1, <3>2 DEF Typed, HasRoom, vars, trees, disk
  <2> QED BY <1>1, <2>1, ClientsKeepTyped, MakersKeepTyped, DestroyKeepsTyped,
             RenameKeepsTyped, UseKeepsTyped, OtherRequestsKeepTyped,
             SavingKeepsTyped, EndKeepsTyped, StartKeepsTyped
          DEF Next, Request
<1> QED BY InitTyped, <1>1, PTL DEF Spec

-----------------------------------------------------------------------------
(* Names: in the trees and in the files *)

\* FilesMatch, said of each playlist by itself.
Settled ==
  up => /\ \A id \in DOMAIN Playlists \ unsaved :
             /\ \/ id \in DOMAIN saved /\ saved[id] = Playlists[id].name
                \/ id \in DOMAIN tmp /\ tmp[id] = Playlists[id].name
             /\ ~lost => id \notin DOMAIN tmp
        /\ DOMAIN saved \subseteq DOMAIN Playlists
        /\ IdsFresh

\* The names that a daemon started in the playlist directory will find: a .tmp file
\* comes before the file it was for.
OnDisk ==
  [id \in DOMAIN saved \cup DOMAIN tmp |-> IF id \in DOMAIN tmp THEN tmp[id] ELSE saved[id]]

\* While the daemon does not run, and the one before lost nothing, what it had is on
\* disk with a name each.
Named ==
  /\ Settled
  /\ ~up => Playlists = Nothing /\ by_name = Nothing
  /\ TreesAgreeUnlessLost
  /\ ~lost /\ ~up => /\ had = OnDisk
                     /\ \A i, j \in DOMAIN had : had[i] = had[j] => i = j

LEMMA InitNamed == Init => Named
<1>1. DOMAIN Nothing = {}
  BY DEF Nothing
<1> QED BY <1>1 DEF Init, Named, Settled, IdsFresh, TreesAgreeUnlessLost, TreesAgree

\* A step that keeps the names of all playlists and the files.
LEMMA NamesKept ==
  ASSUME Typed, Named, UNCHANGED <<up, by_name, Last_id, saved, tmp, history>>,
         DOMAIN Playlists' = DOMAIN Playlists,
         \A id \in DOMAIN Playlists : Playlists'[id].name = Playlists[id].name,
         unsaved \subseteq unsaved',
         up \/ UNCHANGED Playlists
  PROVE  Named'
<1>1. Settled'
  BY DEF Named, Settled, IdsFresh, history
<1>2. TreesAgreeUnlessLost'
  BY DEF Named, TreesAgreeUnlessLost, TreesAgree, Known, history
<1>3. OnDisk' = OnDisk
  BY DEF OnDisk
<1> QED BY <1>1, <1>2, <1>3 DEF Named, history

LEMMA UsesKeepNamed ==
  ASSUME Typed, Named, increment_use_count \/ decrement_use_count \/ NameOwnerChanged
  PROVE  Named'
<1>1. /\ up /\ UNCHANGED <<up, by_name, Last_id, saved, tmp, history>>
      /\ unsaved \subseteq unsaved'
  BY DEF increment_use_count, decrement_use_count, NameOwnerChanged, Handle
<1>2. /\ DOMAIN Playlists' = DOMAIN Playlists
      /\ \A id \in DOMAIN Playlists : Playlists'[id].name = Playlists[id].name
  <2>1. CASE increment_use_count
    BY <2>1 DEF increment_use_count, Known, Typed, TypeInv
  <2>2. CASE decrement_use_count
    BY <2>2 DEF decrement_use_count, Known, Typed, TypeInv
  <2>3. CASE NameOwnerChanged
    BY <2>3 DEF NameOwnerChanged, Typed, TypeInv
  <2> QED BY <2>1, <2>2, <2>3
<1> QED BY <1>1, <1>2, NamesKept

LEMMA MakersKeepNamed ==
  ASSUME Typed, Named, create \/ dup
  PROVE  Named'
<1>1. /\ up /\ UNCHANGED <<up, history>>
      /\ \/ UNCHANGED <<trees, disk>>
         \/ Msg.name \notin DOMAIN by_name /\ Added(Msg.name)
  BY DEF create, dup, Handle
<1>2. CASE UNCHANGED <<trees, disk>>
  BY <1>1, <1>2, NamesKept DEF trees, disk
<1>3. CASE Msg.name \notin DOMAIN by_name /\ Added(Msg.name)
  <2>1. /\ DOMAIN Playlists' = DOMAIN Playlists \cup {Last_id}
        /\ Playlists'[Last_id].name = Msg.name
        /\ DOMAIN by_name' = DOMAIN by_name \cup {Msg.name}
        /\ by_name'[Msg.name] = Last_id
        /\ \A n \in DOMAIN by_name : by_name'[n] = by_name[n]
        /\ Last_id' = Last_id + 1
        /\ unsaved' = unsaved \cup {Last_id}
        /\ UNCHANGED <<saved, tmp>>
    BY <1>3 DEF Added
  <2>2. /\ Last_id \in Nat /\ DOMAIN Playlists \subseteq Nat
        /\ DOMAIN saved \subseteq Nat /\ DOMAIN tmp \subseteq Nat
    BY DEF Typed, TypeInv, Ids
  <2>3. Last_id \notin DOMAIN Playlists
    BY <1>1, <2>2 DEF Named, Settled, IdsFresh
  <2>4. \A id \in DOMAIN Playlists : Playlists'[id] = Playlists[id]
    BY <1>3, <2>3 DEF Added
  <2>5. IdsFresh'
    BY <1>1, <2>1, <2>2 DEF Named, Settled, IdsFresh
  <2>6. Settled'
    BY <1>1, <2>1, <2>4, <2>5 DEF Named, Settled, history
  <2>7. TreesAgreeUnlessLost'
    BY <1>1, <1>3, <2>1, <2>3, <2>4 DEF Named, TreesAgreeUnlessLost, TreesAgree, Known, history
  <2> QED BY <1>1, <2>6, <2>7 DEF Named
<1> QED BY <1>1, <1>2, <1>3

LEMMA DestroyKeepsNamed ==
  ASSUME Typed, Named, destroy
  PROVE  Named'
<1>1. up /\ UNCHANGED <<up, Last_id, tmp, history>>
  BY DEF destroy, Handle
<1>2. CASE UNCHANGED <<Playlists, by_name, saved, unsaved>>
  BY <1>1, <1>2, NamesKept
<1>3. CASE /\ Known(Msg.id)
           /\ saved' = Restrict(saved, DOMAIN saved \ {Msg.id})
           /\ unsaved' = unsaved \ {Msg.id}
           /\ by_name' = Restrict(by_name, DOMAIN by_name \ {Playlists[Msg.id].name})
           /\ Playlists' = Restrict(Playlists, DOMAIN Playlists \ {Msg.id})
  <2>1. /\ DOMAIN Playlists' = DOMAIN Playlists \ {Msg.id}
        /\ \A id \in DOMAIN Playlists' : Playlists'[id] = Playlists[id]
        /\ DOMAIN saved' = DOMAIN saved \ {Msg.id}
        /\ \A id \in DOMAIN saved' : saved'[id] = saved[id]
        /\ DOMAIN by_name' = DOMAIN by_name \ {Playlists[Msg.id].name}
        /\ \A n \in DOMAIN by_name' : by_name'[n] = by_name[n]
    BY <1>3 DEF Restrict
  <2>2. Settled'
    BY <1>1, <1>3, <2>1 DEF Named, Settled, IdsFresh, history
  <2>3. ASSUME ~lost PROVE TreesAgree'
    <3>1. TreesAgree /\ Msg.id \in DOMAIN Playlists
      BY <1>3, <2>3 DEF Named, TreesAgreeUnlessLost, Known
    <3>2. \A id \in DOMAIN Playlists' :
            /\ Playlists[id].name \in DOMAIN by_name'
            /\ by_name'[Playlists[id].name] = id
      BY <2>1, <3>1 DEF TreesAgree
    <3>3. \A n \in DOMAIN by_name' :
            by_name[n] \in DOMAIN Playlists' /\ Playlists[by_name[n]].name = n
      BY <2>1, <3>1 DEF TreesAgree, Known
    <3> QED BY <2>1, <3>2, <3>3 DEF TreesAgree, Known
  <2>4. TreesAgreeUnlessLost'
    BY <1>1, <2>3 DEF TreesAgreeUnlessLost, history
  <2> QED BY <1>1, <2>2, <2>4 DEF Named
<1> QED BY <1>2, <1>3 DEF destroy

LEMMA RenameKeepsNamed ==
  ASSUME Typed, Named, set_name
  PROVE  Named'
<1>1. up /\ UNCHANGED <<up, Last_id, saved, tmp, history>>
  BY DEF set_name, Handle
<1>2. CASE UNCHANGED <<Playlists, by_name, unsaved>>
  BY <1>1, <1>2, NamesKept
<1>3. CASE ~UNCHANGED <<Playlists, by_name, unsaved>>
  <2>1. /\ Known(Msg.id) /\ Msg.name \notin DOMAIN by_name
        /\ Playlists' = [Playlists EXCEPT ![Msg.id].name = Msg.name]
        /\ unsaved' = unsaved \cup {Msg.id}
        /\ by_name' = [n \in (DOMAIN by_name \ {Playlists[Msg.id].name}) \cup {Msg.name} |->
                         IF n = Msg.name THEN Msg.id ELSE by_name[n]]
    BY <1>3 DEF set_name
  <2>2. /\ DOMAIN Playlists' = DOMAIN Playlists
        /\ Playlists'[Msg.id].name = Msg.name
        /\ \A id \in DOMAIN Playlists \ {Msg.id} : Playlists'[id] = Playlists[id]
    BY <2>1 DEF Typed, TypeInv, Known
  <2>3. /\ DOMAIN by_name' = (DOMAIN by_name \ {Playlists[Msg.id].name}) \cup {Msg.name}
        /\ by_name'[Msg.name] = Msg.id
        /\ \A n \in DOMAIN by_name' \ {Msg.name} : by_name'[n] = by_name[n]
    BY <2>1
  <2>4. Settled'
    BY <1>1, <2>1, <2>2 DEF Named, Settled, IdsFresh, history
  <2>5. TreesAgreeUnlessLost'
    BY <1>1, <2>1, <2>2, <2>3 DEF Named, TreesAgreeUnlessLost, TreesAgree, Known, history
  <2> QED BY <1>1, <2>4, <2>5 DEF Named
<1> QED BY <1>2, <1>3

\* A save that fails leaves the playlist waiting for its timer.
LEMMA SavingKeepsNamed ==
  ASSUME Typed, Named, NEW id \in Ids, save_me(id)
  PROVE  Named'
<1>1. up /\ UNCHANGED <<up, Playlists, by_name, Last_id, history>>
  BY DEF save_me, trees
<1>2. PICK outcome \in [{id} -> {"ok", "open", "write", "rename"}] :
        /\ pls_save(outcome)
        /\ unsaved' = IF outcome[id] = "ok" THEN unsaved \ {id} ELSE unsaved
        /\ {id} \subseteq DOMAIN Playlists
  BY SavesOne
<1>3. id \in unsaved
  BY DEF save_me
<1>4. /\ DOMAIN saved' = DOMAIN saved \cup {i \in {id} : outcome[i] = "ok"}
      /\ \A i \in DOMAIN saved' :
           saved'[i] = IF i \in {id} /\ outcome[i] = "ok" THEN Playlists[i].name ELSE saved[i]
      /\ DOMAIN tmp' = (DOMAIN tmp \ {i \in {id} : outcome[i] \in {"ok", "write"}})
                         \cup {i \in {id} : outcome[i] = "rename"}
      /\ \A i \in DOMAIN tmp' :
           tmp'[i] = IF i \in {id} /\ outcome[i] = "rename" THEN Playlists[i].name ELSE tmp[i]
  <2>1. {id} \in SUBSET DOMAIN Playlists
    BY <1>2
  <2> QED BY <1>2, <2>1, Saved, Zenon
<1>5. IdsFresh'
  BY <1>1, <1>2, <1>4 DEF Named, Settled, IdsFresh
<1>6. Settled'
  <2>1. DOMAIN saved' \subseteq DOMAIN Playlists
    BY <1>1, <1>2, <1>4 DEF Named, Settled
  <2>2. ASSUME NEW i \in DOMAIN Playlists \ unsaved'
        PROVE  /\ \/ i \in DOMAIN saved' /\ saved'[i] = Playlists[i].name
                  \/ i \in DOMAIN tmp' /\ tmp'[i] = Playlists[i].name
               /\ ~lost => i \notin DOMAIN tmp'
    <3>1. CASE i = id
      <4>1. outcome[id] = "ok"
        BY <1>2, <1>3, <2>2, <3>1
      <4> QED BY <1>4, <3>1, <4>1
    <3>2. CASE i # id
      <4>1. i \in DOMAIN Playlists \ unsaved
        BY <1>2, <2>2, <3>2
      <4>2. /\ i \in DOMAIN saved' <=> i \in DOMAIN saved
            /\ i \in DOMAIN tmp' <=> i \in DOMAIN tmp
            /\ i \in DOMAIN saved => saved'[i] = saved[i]
            /\ i \in DOMAIN tmp => tmp'[i] = tmp[i]
        BY <1>4, <3>2
      <4> QED BY <1>1, <4>1, <4>2 DEF Named, Settled
    <3> QED BY <3>1, <3>2
  <2> QED BY <1>1, <1>5, <2>1, <2>2 DEF Settled, history
<1>7. TreesAgreeUnlessLost'
  BY <1>1 DEF Named, TreesAgreeUnlessLost, TreesAgree, Known, history
<1> QED BY <1>1, <1>6, <1>7 DEF Named

\* At an end that loses nothing, what is written beside what was already on disk is
\* what the daemon has.
LEMMA EndWritesAll ==
  ASSUME Typed, Named, Exit \/ Kill, ~lost'
  PROVE  OnDisk' = AllNames
<1>1. up /\ ~lost /\ DOMAIN tmp \subseteq DOMAIN Playlists
  BY Ends DEF Ended, LeftOver, Typed, TypeInv, Exit, Kill
<1>2. /\ DOMAIN saved \subseteq DOMAIN Playlists
      /\ \A id \in DOMAIN Playlists \ unsaved :
           id \in DOMAIN saved /\ saved[id] = Playlists[id].name /\ id \notin DOMAIN tmp
  BY <1>1 DEF Named, Settled
<1>3. SUFFICES
        /\ DOMAIN saved' \cup DOMAIN tmp' = DOMAIN Playlists
        /\ \A id \in DOMAIN Playlists :
             (IF id \in DOMAIN tmp' THEN tmp'[id] ELSE saved'[id]) = Playlists[id].name
  BY DEF OnDisk, AllNames
<1>4. CASE UNCHANGED <<saved, tmp>> /\ Ended(unsaved)
  <2>1. unsaved = {}
    BY <1>4 DEF Ended
  <2> QED BY <1>1, <1>2, <1>4, <2>1
<1>5. ASSUME NEW outcome \in [DOMAIN Playlists -> {"ok", "open", "write", "rename"}],
             pls_save(outcome),
             Ended({id \in unsaved : outcome[id] \in {"open", "write"}})
      PROVE  /\ DOMAIN saved' \cup DOMAIN tmp' = DOMAIN Playlists
             /\ \A id \in DOMAIN Playlists :
                  (IF id \in DOMAIN tmp' THEN tmp'[id] ELSE saved'[id]) = Playlists[id].name
  <2>1. /\ DOMAIN saved' = DOMAIN saved \cup {i \in DOMAIN Playlists : outcome[i] = "ok"}
        /\ \A i \in DOMAIN saved' :
             saved'[i] = IF i \in DOMAIN Playlists /\ outcome[i] = "ok"
                         THEN Playlists[i].name ELSE saved[i]
        /\ DOMAIN tmp' =
             (DOMAIN tmp \ {i \in DOMAIN Playlists : outcome[i] \in {"ok", "write"}})
               \cup {i \in DOMAIN Playlists : outcome[i] = "rename"}
        /\ \A i \in DOMAIN tmp' :
             tmp'[i] = IF i \in DOMAIN Playlists /\ outcome[i] = "rename"
                       THEN Playlists[i].name ELSE tmp[i]
    <3>1. DOMAIN Playlists \in SUBSET DOMAIN Playlists
      OBVIOUS
    <3> QED BY <1>5, <3>1, Saved, Zenon
  <2>2. \A id \in unsaved : outcome[id] \notin {"open", "write"}
    BY <1>5 DEF Ended
  <2>3. ASSUME NEW id \in DOMAIN Playlists
        PROVE  /\ id \in DOMAIN saved' \/ id \in DOMAIN tmp'
               /\ (IF id \in DOMAIN tmp' THEN tmp'[id] ELSE saved'[id]) = Playlists[id].name
    <3>1. CASE outcome[id] = "rename"
      BY <2>1, <3>1
    <3>2. CASE outcome[id] = "ok"
      BY <2>1, <3>2
    <3>3. CASE outcome[id] \in {"open", "write"}
      <4>1. id \in DOMAIN saved /\ saved[id] = Playlists[id].name /\ id \notin DOMAIN tmp
        BY <1>2, <2>2, <3>3
      <4>2. id \notin DOMAIN tmp' /\ id \in DOMAIN saved' /\ saved'[id] = saved[id]
        BY <2>1, <3>3, <4>1
      <4> QED BY <4>1, <4>2
    <3> QED BY <3>1, <3>2, <3>3
  <2>4. DOMAIN saved' \cup DOMAIN tmp' \subseteq DOMAIN Playlists
    BY <1>1, <1>2, <2>1
  <2> QED BY <2>3, <2>4
<1> QED BY <1>4, <1>5, Ends

LEMMA EndKeepsNamed ==
  ASSUME Typed, Named, Exit \/ Kill
  PROVE  Named'
<1>1. ~up' /\ Playlists' = Nothing /\ by_name' = Nothing /\ had' = AllNames
  BY DEF Exit, Kill, Ended
<1>2. DOMAIN Nothing = {}
  BY DEF Nothing
<1>3. Settled' /\ TreesAgreeUnlessLost'
  BY <1>1, <1>2 DEF Settled, TreesAgreeUnlessLost, TreesAgree
<1>4. ASSUME ~lost'
      PROVE  /\ had' = OnDisk'
             /\ \A i, j \in DOMAIN had' : had'[i] = had'[j] => i = j
  <2>1. ~lost
    BY <1>4 DEF Exit, Kill, Ended
  <2>2. TreesAgree
    BY <2>1 DEF Named, TreesAgreeUnlessLost
  <2>3. \A i, j \in DOMAIN had' : had'[i] = had'[j] => i = j
    BY <1>1, <2>2 DEF AllNames, TreesAgree
  <2> QED BY <1>1, <1>4, <2>3, EndWritesAll
<1> QED BY <1>1, <1>3, <1>4 DEF Named

\* A start that brings nothing back reads just what the daemon before it had.
LEMMA StartReadsAll ==
  ASSUME Typed, Named, Start, ~lost'
  PROVE  /\ ~lost
         /\ DOMAIN saved' = DOMAIN had /\ DOMAIN tmp' = {}
         /\ \A id \in DOMAIN had : saved'[id] = had[id]
<1>1. ~up
  BY DEF Start
<1>2. PICK inDir \in BOOLEAN :
        /\ Recovered(inDir)
        /\ lost' = (lost \/ (~inDir /\ DOMAIN tmp # {}))
  BY DEF Start
<1>3. ~lost /\ (inDir \/ DOMAIN tmp = {})
  BY <1>2
<1>4. had = OnDisk
  BY <1>1, <1>3 DEF Named
<1>5. CASE inDir
  <2>1. /\ saved' = [id \in DOMAIN saved \cup DOMAIN tmp |->
                       IF id \in DOMAIN tmp THEN tmp[id] ELSE saved[id]]
        /\ tmp' = Nothing
    BY <1>2, <1>5 DEF Recovered
  <2>2. DOMAIN tmp' = {}
    BY <2>1 DEF Nothing
  <2> QED BY <1>3, <1>4, <2>1, <2>2 DEF OnDisk
<1>6. CASE ~inDir
  <2>1. UNCHANGED <<saved, tmp>> /\ DOMAIN tmp = {}
    BY <1>2, <1>3, <1>6 DEF Recovered
  <2> QED BY <1>3, <1>4, <2>1 DEF OnDisk
<1> QED BY <1>5, <1>6

\* What the trees hold after a start.
LEMMA StartLoads ==
  ASSUME Typed, Start
  PROVE  /\ \A id : id \in DOMAIN Playlists' <=> id \in DOMAIN saved' \/ id \in DOMAIN tmp'
         /\ \A id \in DOMAIN Playlists' :
              \/ id \in DOMAIN saved' /\ Playlists'[id].name = saved'[id]
              \/ id \in DOMAIN tmp' /\ Playlists'[id].name = tmp'[id]
         /\ \A n : n \in DOMAIN by_name' <=> \/ \E id \in DOMAIN saved' : n = saved'[id]
                                             \/ \E id \in DOMAIN tmp' : n = tmp'[id]
         /\ \A n \in DOMAIN by_name' :
              \/ by_name'[n] \in DOMAIN saved' /\ n = saved'[by_name'[n]]
              \/ by_name'[n] \in DOMAIN tmp' /\ n = tmp'[by_name'[n]]
         /\ \A id \in DOMAIN Playlists' : id < Last_id'
<1>1. PICK files \in FileSets :
        /\ load_playlists(files)
        /\ \A id, n : <<id, n>> \in files <=>
             \/ id \in DOMAIN saved' /\ n = saved'[id]
             \/ id \in DOMAIN tmp' /\ n = tmp'[id]
  BY FilesRead
<1>2. /\ \A id : id \in DOMAIN Playlists' <=> \E n : <<id, n>> \in files
      /\ \A id \in DOMAIN Playlists' : <<id, Playlists'[id].name>> \in files
      /\ \A n : n \in DOMAIN by_name' <=> \E id : <<id, n>> \in files
      /\ \A n \in DOMAIN by_name' : <<by_name'[n], n>> \in files
      /\ \A id \in DOMAIN Playlists' : id < Last_id'
  BY <1>1, Loaded
<1> QED BY <1>1, <1>2

LEMMA StartKeepsNames ==
  ASSUME Typed, Named, Start, ~lost'
  PROVE  /\ DOMAIN Playlists' = DOMAIN had
         /\ \A id \in DOMAIN had : Playlists'[id].name = had[id]
         /\ TreesAgree'
<1>1. /\ ~lost /\ DOMAIN saved' = DOMAIN had /\ DOMAIN tmp' = {}
      /\ \A id \in DOMAIN had : saved'[id] = had[id]
  BY StartReadsAll
<1>2. ~up
  BY DEF Start
<1>3. \A i, j \in DOMAIN had : had[i] = had[j] => i = j
  BY <1>1, <1>2 DEF Named
<1>4. /\ DOMAIN Playlists' = DOMAIN had
      /\ \A id \in DOMAIN had : Playlists'[id].name = had[id]
  BY <1>1, StartLoads
<1>5. /\ \A n : n \in DOMAIN by_name' <=> \E id \in DOMAIN had : n = had[id]
      /\ \A n \in DOMAIN by_name' : by_name'[n] \in DOMAIN had /\ n = had[by_name'[n]]
  BY <1>1, StartLoads
<1>6. TreesAgree'
  BY <1>3, <1>4, <1>5 DEF TreesAgree, Known
<1> QED BY <1>4, <1>6

LEMMA StartKeepsNamed ==
  ASSUME Typed, Named, Start
  PROVE  Named'
<1>1. ~up /\ up' /\ UNCHANGED unsaved
  BY DEF Start
<1>2. unsaved' = {}
  BY <1>1 DEF Typed, HasRoom
<1>3. IdsFresh'
  BY StartLoads DEF IdsFresh
<1>4. ~lost' => DOMAIN tmp' = {}
  BY StartReadsAll
<1>5. Settled'
  BY <1>2, <1>3, <1>4, StartLoads DEF Settled
<1>6. TreesAgreeUnlessLost'
  BY StartKeepsNames DEF TreesAgreeUnlessLost
<1> QED BY <1>1, <1>5, <1>6 DEF Named

LEMMA NamedHolds == Spec => []Named
<1>1. ASSUME Typed, Named, [Next]_vars PROVE Named'
  <2>1. CASE UNCHANGED <<up, trees, disk, history>>
    BY <1>1, <2>1, NamesKept DEF trees, disk
  <2>2. /\ \A c \in Clients : Send(c) \/ Vanish(c) => UNCHANGED <<up, trees, disk, history>>
        /\ no_such_playlist => UNCHANGED <<up, trees, disk, history>>
        /\ UNCHANGED vars => UNCHANGED <<up, trees, disk, history>>
    BY DEF Send, Vanish, no_such_playlist, vars
  <2> QED BY <1>1, <2>1, <2>2, UsesKeepNamed, MakersKeepNamed, DestroyKeepsNamed,
             RenameKeepsNamed, SavingKeepsNamed, EndKeepsNamed, StartKeepsNamed
          DEF Next, Request
<1> QED BY InitNamed, TypeCorrect, <1>1, PTL DEF Spec

\* As long as no daemon ended with a change unwritten or beside a .tmp file of a
\* destroyed playlist, and none read .tmp files beside the files they were for, the tree
\* by ids and the tree by names hold the same playlists: destroy and set_name find the
\* name they assert.
THEOREM TreesHold == Spec => []TreesAgreeUnlessLost
<1>1. Named => TreesAgreeUnlessLost
  BY DEF Named
<1> QED BY <1>1, NamedHolds, PTL

\* Whatever ended the daemons before and whichever saves failed: what does not wait to
\* be saved is on disk, what was destroyed is not, and no new playlist takes over a file.
THEOREM FilesHold == Spec => []FilesMatch
<1>1. ASSUME Settled PROVE FilesMatch
  <2>1. \A id \in DOMAIN Playlists \ unsaved :
          \/ id \in DOMAIN saved /\ saved[id] = Playlists[id].name
          \/ id \in DOMAIN tmp /\ tmp[id] = Playlists[id].name
          => <<id, Playlists[id].name>> \in Files(saved) \cup Files(tmp)
    BY DEF Files
  <2> QED BY <1>1, <2>1 DEF Settled, FilesMatch
<1>2. Named => FilesMatch
  BY <1>1 DEF Named
<1> QED BY <1>2, NamedHolds, PTL

\* Failed renames lose nothing: if all that was to be saved had been written when a daemon
\* ended, with no .tmp file of a destroyed playlist beside it, the next daemon, started
\* in the playlist directory or finding no .tmp file, has the same playlists under the
\* same names.
THEOREM RestartKeeps == Spec => RestartKeepsPlaylists
<1>1. ASSUME Typed, Named, [Next]_vars
      PROVE  [~up /\ up' /\ ~lost' => [id \in DOMAIN Playlists' |-> Playlists'[id].name] = had]_vars
  <2>1. SUFFICES ASSUME ~up, up', ~lost'
                 PROVE  [id \in DOMAIN Playlists' |-> Playlists'[id].name] = had
    OBVIOUS
  <2>2. Start
    <3>1. /\ \A c \in Clients : ~Send(c) /\ ~Vanish(c)
          /\ \A id \in Ids : ~save_me(id)
          /\ ~Request /\ ~Exit /\ ~Kill /\ ~UNCHANGED vars
      BY <2>1
         DEF Send, Vanish, save_me, Exit, Kill, vars, Request, create, dup, destroy, set_name,
             increment_use_count, decrement_use_count, no_such_playlist, NameOwnerChanged, Handle
    <3> QED BY <1>1, <3>1 DEF Next
  <2>3. /\ DOMAIN Playlists' = DOMAIN had
        /\ \A id \in DOMAIN had : Playlists'[id].name = had[id]
    BY <1>1, <2>1, <2>2, StartKeepsNames
  <2>4. had = [id \in DOMAIN had |-> had[id]]
    <3>1. ~lost
      BY <1>1, <2>1, <2>2, StartReadsAll
    <3> QED BY <1>1, <2>1, <3>1 DEF Named, OnDisk
  <2> QED BY <2>3, <2>4
<1> QED BY <1>1, TypeCorrect, NamedHolds, PTL DEF Spec, RestartKeepsPlaylists

-----------------------------------------------------------------------------
(* Use counts, while the daemon runs on and its clients keep to the convention: *)
(* no fault of the model.  A restart of the daemon, a client that dies within a *)
(* call and one that gives back what it does not have break them.               *)

\* Few enough uses for a guint.
Countable ==
  /\ Faults = {}
  /\ IsFiniteSet(Clients)
  /\ Cardinality(Clients) * MaxUse < UintMod

Changing == {"increment", "decrement"}

\* The requests of clients that wait for them: one each, of a client that is
\* there, within its rights.  The bus tells of the exit of clients that are gone.
InboxOK ==
  \A k \in 1 .. Len(inbox) :
    LET m == inbox[k]
    IN  /\ m.op \in Changing =>
             /\ m.from \in connected
             /\ \A l \in 1 .. Len(inbox) :
                  inbox[l].op \in Changing /\ inbox[l].from = m.from => l = k
        /\ m.op = "increment" => mine[m.from][m.id] < MaxUse
        /\ m.op = "decrement" => mine[m.from][m.id] > 0
        /\ m.op = "NameOwnerChanged" => m.from \notin connected

\* The daemon's list of what a client holds is what the client thinks it has.
HoldersOK ==
  /\ \A c \in Clients, id \in Ids :
       /\ holders[c][id] <= MaxUse
       /\ holders[c][id] > 0 => Known(id)
  /\ \A c \in connected : mine[c] = holders[c]

CountsOK ==
  \A id \in DOMAIN Playlists : Playlists[id].use_count = Cardinality(Entries(id))

\* The inductive invariant.
Counted == up /\ InboxOK /\ HoldersOK /\ CountsOK

-----------------------------------------------------------------------------
(* Lemmas about the entries *)

LEMMA EntryIs ==
  ASSUME NEW id
  PROVE  \A e : e \in Entries(id) <=>
                \E c \in Clients : \E n \in 1 .. holders[c][id] : e = <<c, n>>
BY DEF Entries

LEMMA FewEntries ==
  ASSUME Countable, NEW E \in SUBSET (Clients \X (1 .. MaxUse))
  PROVE  IsFiniteSet(E) /\ Cardinality(E) \in 0 .. UintMod - 1
<1>1. IsFiniteSet(1 .. MaxUse) /\ Cardinality(1 .. MaxUse) = MaxUse
  BY InstanceAssumption, FS_Interval
<1>2. /\ IsFiniteSet(Clients \X (1 .. MaxUse))
      /\ Cardinality(Clients \X (1 .. MaxUse)) = Cardinality(Clients) * MaxUse
  BY <1>1, FS_Product DEF Countable
<1>3. IsFiniteSet(E) /\ Cardinality(E) <= Cardinality(Clients) * MaxUse
  BY <1>2, FS_Subset
<1>4. Cardinality(E) \in Nat /\ Cardinality(Clients) * MaxUse \in Nat
  BY <1>2, <1>3, FS_CardinalityType
<1> QED BY <1>3, <1>4, InstanceAssumption DEF Countable

LEMMA EntriesFit ==
  ASSUME Countable, Typed, HoldersOK, NEW id \in Ids
  PROVE  /\ IsFiniteSet(Entries(id))
         /\ Cardinality(Entries(id)) \in 0 .. UintMod - 1
<1>1. ASSUME NEW c \in Clients, NEW n \in 1 .. holders[c][id] PROVE n \in 1 .. MaxUse
  BY InstanceAssumption DEF HoldersOK, Typed, TypeInv
<1>2. Entries(id) \subseteq Clients \X (1 .. MaxUse)
  BY <1>1, EntryIs
<1> QED BY <1>2, FewEntries

\* The lists of the other playlists stay as they are.
LEMMA OtherEntries ==
  ASSUME Typed, NEW c \in Clients, NEW id \in Ids, NEW n \in Nat,
         holders' = [holders EXCEPT ![c][id] = n],
         NEW other \in Ids, other # id
  PROVE  Entries(other)' = Entries(other)
BY DEF Typed, TypeInv, Entries

LEMMA EntryAdded ==
  ASSUME Countable, Typed, HoldersOK, NEW c \in Clients, NEW id \in Ids,
         holders' = [holders EXCEPT ![c][id] = @ + 1]
  PROVE  Cardinality(Entries(id)') = Cardinality(Entries(id)) + 1
<1> DEFINE new == <<c, holders[c][id] + 1>>
<1>1. /\ holders[c][id] \in Nat /\ holders'[c][id] = holders[c][id] + 1
      /\ \A d \in Clients \ {c} : holders'[d][id] = holders[d][id]
  BY DEF Typed, TypeInv
<1>2. \A e : e \in Entries(id)' <=>
              \E d \in Clients : \E n \in 1 .. holders'[d][id] : e = <<d, n>>
  BY EntryIs DEF Entries
<1>3. 1 .. holders'[c][id] = (1 .. holders[c][id]) \cup {holders[c][id] + 1}
  BY <1>1
<1>4. Entries(id)' = Entries(id) \cup {new}
  BY <1>1, <1>2, <1>3, EntryIs
<1>5. new \notin Entries(id)
  BY <1>1, EntryIs
<1>6. Cardinality(Entries(id)') = Cardinality(Entries(id) \cup {new})
  BY <1>4
<1> QED BY <1>5, <1>6, EntriesFit, FS_AddElement

LEMMA EntryRemoved ==
  ASSUME Countable, Typed, HoldersOK, NEW c \in Clients, NEW id \in Ids,
         holders[c][id] > 0, holders' = [holders EXCEPT ![c][id] = @ - 1]
  PROVE  Cardinality(Entries(id)') = Cardinality(Entries(id)) - 1
<1> DEFINE old == <<c, holders[c][id]>>
<1>1. /\ holders[c][id] \in Nat \ {0} /\ holders'[c][id] = holders[c][id] - 1
      /\ \A d \in Clients \ {c} : holders'[d][id] = holders[d][id]
  BY DEF Typed, TypeInv
<1>2. \A e : e \in Entries(id)' <=>
              \E d \in Clients : \E n \in 1 .. holders'[d][id] : e = <<d, n>>
  BY EntryIs DEF Entries
<1>3. 1 .. holders'[c][id] = (1 .. holders[c][id]) \ {holders[c][id]}
  BY <1>1
<1>4. Entries(id)' = Entries(id) \ {old}
  BY <1>1, <1>2, <1>3, EntryIs
<1>5. old \in Entries(id)
  BY <1>1, EntryIs
<1>6. Cardinality(Entries(id)') = Cardinality(Entries(id) \ {old})
  BY <1>4
<1> QED BY <1>5, <1>6, EntriesFit, FS_RemoveElement

LEMMA EntriesDropped ==
  ASSUME Countable, Typed, HoldersOK, NEW c \in Clients, NEW id \in Ids,
         holders' = [holders EXCEPT ![c] = NoUse]
  PROVE  Cardinality(Entries(id)') = Cardinality(Entries(id)) - holders[c][id]
<1> DEFINE own == {c} \X (1 .. holders[c][id])
<1>1. /\ holders[c][id] \in Nat /\ holders'[c][id] = 0
      /\ \A d \in Clients \ {c} : holders'[d][id] = holders[d][id]
  BY DEF Typed, TypeInv, NoUse
<1>2. \A e : e \in Entries(id)' <=>
              \E d \in Clients : \E n \in 1 .. holders'[d][id] : e = <<d, n>>
  BY EntryIs DEF Entries
<1>3. 1 .. holders'[c][id] = {}
  BY <1>1
<1>4. Entries(id)' = Entries(id) \ own
  BY <1>1, <1>2, <1>3, EntryIs
<1>5. Entries(id) \cap own = own
  BY EntryIs
<1>6. Cardinality(own) = holders[c][id]
  <2>1. IsFiniteSet({c}) /\ Cardinality({c}) = 1
    BY FS_Singleton
  <2>2. PICK n \in Nat : n = holders[c][id]
    BY <1>1
  <2>3. IsFiniteSet(1 .. n) /\ Cardinality(1 .. n) = n
    BY FS_Interval
  <2>4. Cardinality({c} \X (1 .. n)) = Cardinality({c}) * Cardinality(1 .. n)
    BY <2>1, <2>3, FS_Product, Zenon
  <2>5. Cardinality({c} \X (1 .. n)) = 1 * n
    BY <2>1, <2>3, <2>4, Zenon
  <2> QED BY <2>2, <2>5
<1>7. Cardinality(Entries(id) \ own) = Cardinality(Entries(id)) - Cardinality(Entries(id) \cap own)
  BY EntriesFit, FS_Difference
<1> QED BY <1>4, <1>5, <1>6, <1>7

-----------------------------------------------------------------------------
(* Each step keeps the counts *)

LEMMA InitCounted == Countable /\ Init => Counted
<1> SUFFICES ASSUME Init PROVE Counted
  OBVIOUS
<1>1. DOMAIN Nothing = {}
  BY DEF Nothing
<1>2. HoldersOK /\ CountsOK
  BY <1>1, InstanceAssumption DEF Init, HoldersOK, CountsOK, NoUse, Known
<1>3. InboxOK /\ up
  BY DEF Init, InboxOK
<1> QED BY <1>2, <1>3 DEF Counted

\* A message is taken, and its sender's uses change at most.
LEMMA InboxTaken ==
  ASSUME Typed, Counted, inbox # <<>>, inbox' = Tail(inbox), UNCHANGED connected,
         UNCHANGED mine \/ Msg.op \in Changing,
         \A c \in Clients \ {Msg.from} : UNCHANGED mine[c]
  PROVE  InboxOK'
<1>1. /\ inbox \in Seq(MessageType) /\ Len(inbox) \in Nat \ {0}
      /\ Len(inbox') = Len(inbox) - 1
      /\ Msg = inbox[1]
      /\ \A k \in 1 .. Len(inbox') : inbox'[k] = inbox[k + 1]
  BY DEF Typed, TypeInv, Msg
<1>2. SUFFICES ASSUME NEW k \in 1 .. Len(inbox')
               PROVE  LET m == inbox'[k]
                      IN  /\ m.op \in Changing =>
                               /\ m.from \in connected
                               /\ \A l \in 1 .. Len(inbox') :
                                    inbox'[l].op \in Changing /\ inbox'[l].from = m.from => l = k
                          /\ m.op = "increment" => mine'[m.from][m.id] < MaxUse
                          /\ m.op = "decrement" => mine'[m.from][m.id] > 0
                          /\ m.op = "NameOwnerChanged" => m.from \notin connected
  BY DEF InboxOK
<1>3. /\ k + 1 \in 1 .. Len(inbox) /\ inbox'[k] = inbox[k + 1] /\ 1 \in 1 .. Len(inbox)
      /\ inbox[k + 1] \in MessageType
  BY <1>1, <1>2
<1> DEFINE m == inbox[k + 1]
<1>4. m.from \in Clients
  BY <1>3 DEF MessageType, RequestType, ExitType
<1>5. m.op \in Changing => mine'[m.from] = mine[m.from]
  <2>1. SUFFICES ASSUME m.op \in Changing, Msg.op \in Changing, m.from = Msg.from
                 PROVE  FALSE
    BY <1>4
  <2>2. k + 1 = 1
    BY <1>1, <1>3, <2>1 DEF Counted, InboxOK
  <2> QED BY <1>2, <2>2
<1>6. m.op \in Changing =>
        /\ m.from \in connected
        /\ \A l \in 1 .. Len(inbox') : inbox'[l].op \in Changing /\ inbox'[l].from = m.from => l = k
  <2>1. \A l \in 1 .. Len(inbox') : l + 1 \in 1 .. Len(inbox) /\ (l + 1 = k + 1 => l = k)
    BY <1>1, <1>2
  <2> QED BY <1>1, <1>3, <2>1 DEF Counted, InboxOK
<1>7. /\ m.op = "increment" => mine[m.from][m.id] < MaxUse
      /\ m.op = "decrement" => mine[m.from][m.id] > 0
      /\ m.op = "NameOwnerChanged" => m.from \notin connected
  BY <1>3 DEF Counted, InboxOK
<1> QED BY <1>3, <1>5, <1>6, <1>7 DEF Changing

LEMMA ClientsKeepCounted ==
  ASSUME Countable, Typed, Counted, NEW c \in Clients, Send(c) \/ Vanish(c)
  PROVE  Counted'
<1>1. /\ UNCHANGED <<up, Playlists, holders>>
      /\ c \in connected /\ (~Waiting(c))
  BY DEF Send, Vanish, trees, Countable
<1>2. CountsOK'
  BY <1>1 DEF Counted, CountsOK, Entries
<1>3. \A k \in 1 .. Len(inbox) : inbox[k].from = c => inbox[k].op \notin Changing
  BY <1>1 DEF Waiting, Changing, Typed, TypeInv
<1>4. CASE Send(c)
  <2>1. PICK m \in Requests(c) :
          /\ m.op = "increment" => mine[c][m.id] < MaxUse
          /\ m.op = "decrement" => mine[c][m.id] > 0
          /\ inbox' = Append(inbox, m)
    BY <1>4 DEF Send, Countable
  <2>2. UNCHANGED <<connected, mine>>
    BY <1>4 DEF Send
  <2>3. /\ inbox \in Seq(MessageType) /\ Len(inbox') = Len(inbox) + 1
        /\ inbox'[Len(inbox) + 1] = m
        /\ \A k \in 1 .. Len(inbox) : inbox'[k] = inbox[k]
    <3>1. m \in MessageType
      BY DEF Requests, MessageType, RequestType
    <3> QED BY <2>1, <3>1 DEF Typed, TypeInv
  <2>4. m.op # "NameOwnerChanged" /\ m.from = c
    BY DEF Requests
  <2>5. InboxOK'
    BY <1>1, <1>3, <2>1, <2>2, <2>3, <2>4 DEF Counted, InboxOK
  <2>6. HoldersOK'
    BY <1>1, <2>2 DEF Counted, HoldersOK, Known
  <2> QED BY <1>1, <1>2, <2>5, <2>6 DEF Counted
<1>5. CASE Vanish(c)
  <2> DEFINE m == [op |-> "NameOwnerChanged", from |-> c]
  <2>1. /\ connected' = connected \ {c}
        /\ mine' = [mine EXCEPT ![c] = NoUse]
        /\ inbox' = inbox \/ inbox' = Append(inbox, m)
    BY <1>5 DEF Vanish
  <2>2. \A d \in Clients \ {c} : mine'[d] = mine[d]
    BY <2>1 DEF Typed, TypeInv
  <2>3. /\ inbox \in Seq(MessageType)
        /\ \A k \in 1 .. Len(inbox) : inbox'[k] = inbox[k] /\ inbox[k].from \in Clients
        /\ \/ Len(inbox') = Len(inbox)
           \/ Len(inbox') = Len(inbox) + 1 /\ inbox'[Len(inbox) + 1] = m
    BY <2>1 DEF Typed, TypeInv, MessageType, RequestType, ExitType
  <2>4. "NameOwnerChanged" \notin Changing /\ "increment" \in Changing /\ "decrement" \in Changing
    BY DEF Changing
  <2>5. InboxOK'
    BY <1>1, <1>3, <2>1, <2>2, <2>3, <2>4 DEF Counted, InboxOK
  <2>6. HoldersOK'
    BY <1>1, <2>1, <2>2 DEF Counted, HoldersOK, Known, Typed, TypeInv
  <2> QED BY <1>1, <1>2, <2>5, <2>6 DEF Counted
<1> QED BY <1>4, <1>5

LEMMA ListingKeepsCounted ==
  ASSUME Countable, Typed, Named, Counted, create \/ dup \/ destroy \/ set_name
  PROVE  Counted'
<1>1. /\ inbox # <<>> /\ inbox' = Tail(inbox)
      /\ UNCHANGED <<up, holders, connected, mine>>
  BY DEF create, dup, destroy, set_name, Handle
<1>2. InboxOK'
  BY <1>1, InboxTaken
<1>3. \A id : Entries(id)' = Entries(id)
  BY <1>1 DEF Entries
<1>4. CASE create \/ dup
  <2>1. UNCHANGED trees \/ Added(Msg.name)
    BY <1>4 DEF create, dup
  <2>2. CASE UNCHANGED trees
    BY <1>1, <1>2, <1>3, <2>2 DEF Counted, HoldersOK, CountsOK, Known, trees
  <2>3. CASE Added(Msg.name)
    <3>1. Last_id \notin DOMAIN Playlists
      BY DEF Counted, Named, Settled, IdsFresh, Typed, TypeInv
    <3>2. /\ DOMAIN Playlists' = DOMAIN Playlists \cup {Last_id}
          /\ Playlists'[Last_id].use_count = 0
          /\ \A id \in DOMAIN Playlists : Playlists'[id] = Playlists[id]
      BY <2>3, <3>1 DEF Added
    <3>3. HoldersOK'
      BY <1>1, <3>2 DEF Counted, HoldersOK, Known
    <3>4. Last_id \in Ids => Cardinality(Entries(Last_id)) = 0
      <4>1. SUFFICES ASSUME Last_id \in Ids PROVE Entries(Last_id) = {}
        BY FS_EmptySet
      <4>2. \A c \in Clients : holders[c][Last_id] \in Nat /\ ~(holders[c][Last_id] > 0)
        BY <3>1, <4>1 DEF Counted, HoldersOK, Known, Typed, TypeInv
      <4>3. \A c \in Clients : 1 .. holders[c][Last_id] = {}
        BY <4>2
      <4> QED BY <4>3, EntryIs
    <3>5. Last_id \in Ids
      <4>1. Last_id \in DOMAIN Playlists' /\ DOMAIN Playlists' \subseteq Ids
        BY <1>4, <3>2, MakersKeepTyped DEF Typed, TypeInv
      <4> QED BY <4>1
    <3>6. CountsOK'
      BY <1>3, <3>2, <3>4, <3>5 DEF Counted, CountsOK
    <3> QED BY <1>1, <1>2, <3>3, <3>6 DEF Counted
  <2> QED BY <2>1, <2>2, <2>3
<1>5. CASE destroy
  <2>1. CASE UNCHANGED Playlists
    BY <1>1, <1>2, <1>3, <2>1 DEF Counted, HoldersOK, CountsOK, Known
  <2>2. CASE ~UNCHANGED Playlists
    <3>1. /\ Known(Msg.id) /\ Playlists[Msg.id].use_count = 0
          /\ Playlists' = Restrict(Playlists, DOMAIN Playlists \ {Msg.id})
      BY <1>5, <2>2 DEF destroy
    <3>2. /\ DOMAIN Playlists' = DOMAIN Playlists \ {Msg.id}
          /\ \A id \in DOMAIN Playlists' : Playlists'[id] = Playlists[id]
      BY <3>1 DEF Restrict
    <3>3. Msg.id \in Ids /\ Entries(Msg.id) = {}
      BY <3>1, EntriesFit, FS_EmptySet DEF Counted, CountsOK, Known, Typed, TypeInv
    <3>4. \A c \in Clients : ~(holders[c][Msg.id] > 0)
      <4>1. ASSUME NEW c \in Clients, holders[c][Msg.id] > 0 PROVE FALSE
        <5>1. 1 \in 1 .. holders[c][Msg.id]
          BY <3>3, <4>1 DEF Typed, TypeInv
        <5> QED BY <3>3, <5>1, EntryIs
      <4> QED BY <4>1
    <3>5. HoldersOK'
      BY <1>1, <3>2, <3>4 DEF Counted, HoldersOK, Known
    <3>6. CountsOK'
      BY <1>3, <3>2 DEF Counted, CountsOK
    <3> QED BY <1>1, <1>2, <3>5, <3>6 DEF Counted
  <2> QED BY <2>1, <2>2
<1>6. CASE set_name
  <2>1. /\ DOMAIN Playlists' = DOMAIN Playlists
        /\ \A id \in DOMAIN Playlists : Playlists'[id].use_count = Playlists[id].use_count
    <3>1. CASE UNCHANGED Playlists
      BY <3>1
    <3>2. CASE Known(Msg.id) /\ Playlists' = [Playlists EXCEPT ![Msg.id].name = Msg.name]
      BY <3>2 DEF Known, Typed, TypeInv
    <3> QED BY <1>6, <3>1, <3>2 DEF set_name
  <2>2. HoldersOK' /\ CountsOK'
    BY <1>1, <1>3, <2>1 DEF Counted, HoldersOK, CountsOK, Known
  <2> QED BY <1>1, <1>2, <2>2 DEF Counted
<1> QED BY <1>4, <1>5, <1>6

LEMMA IncrementKeepsCounted ==
  ASSUME Countable, Typed, Counted, increment_use_count
  PROVE  Counted'
<1>1. PICK c \in Clients, id \in Ids :
        /\ c = Msg.from /\ id = Msg.id /\ Known(id)
        /\ up' = up /\ UNCHANGED connected
        /\ inbox # <<>> /\ inbox' = Tail(inbox) /\ Msg.op = "increment"
  BY Taken, IsRequest DEF increment_use_count, Handle
<1>2. c \in connected /\ mine[c][id] < MaxUse /\ mine[c] = holders[c]
  <2>1. Len(inbox) > 0 /\ Msg = inbox[1]
    BY <1>1 DEF Typed, TypeInv, Msg
  <2>2. 1 \in 1 .. Len(inbox)
    BY <2>1 DEF Typed, TypeInv
  <2> QED BY <1>1, <2>1, <2>2 DEF Counted, InboxOK, HoldersOK, Changing
<1>3. /\ holders' = [holders EXCEPT ![c][id] = @ + 1]
      /\ mine' = [mine EXCEPT ![c][id] = @ + 1]
      /\ Playlists' = [Playlists EXCEPT ![id].use_count = Wrap(@ + 1)]
  BY <1>1, <1>2 DEF increment_use_count, Acknowledged
<1>4. InboxOK'
  <2>1. \A d \in Clients \ {c} : UNCHANGED mine[d]
    BY <1>1, <1>3 DEF Typed, TypeInv
  <2> QED BY <1>1, <2>1, InboxTaken DEF Changing
<1>5. /\ DOMAIN Playlists' = DOMAIN Playlists
      /\ \A other \in DOMAIN Playlists \ {id} : Playlists'[other] = Playlists[other]
      /\ Playlists'[id].use_count = Wrap(Cardinality(Entries(id)) + 1)
  BY <1>1, <1>3 DEF Typed, TypeInv, Known, Counted, CountsOK
<1>6. holders[c][id] \in Nat /\ holders[c][id] < MaxUse /\ holders[c][id] + 1 \in Nat
  BY <1>1, <1>2 DEF Typed, TypeInv
<1>7. HoldersOK'
  <2>1. \A d \in Clients, other \in Ids :
          holders'[d][other] = IF d = c /\ other = id THEN holders[c][id] + 1 ELSE holders[d][other]
    BY <1>1, <1>3 DEF Typed, TypeInv
  <2>2. \A d \in Clients, other \in Ids :
          /\ holders'[d][other] <= MaxUse
          /\ holders'[d][other] > 0 => other \in DOMAIN Playlists'
    BY <1>1, <1>5, <1>6, <2>1, InstanceAssumption DEF Counted, HoldersOK, Known
  <2>3. \A d \in connected : mine'[d] = holders'[d]
    BY <1>1, <1>2, <1>3 DEF Counted, HoldersOK, Typed, TypeInv
  <2> QED BY <1>1, <2>2, <2>3 DEF HoldersOK, Known
<1>8. Cardinality(Entries(id)') = Cardinality(Entries(id)) + 1
  BY <1>1, <1>3, EntryAdded DEF Counted
<1>9. \A other \in Ids \ {id} : Entries(other)' = Entries(other)
  BY <1>1, <1>3, <1>6, OtherEntries
<1>10. Wrap(Cardinality(Entries(id)) + 1) = Cardinality(Entries(id)')
  <2>1. Typed'
    BY UseKeepsTyped
  <2>2. Cardinality(Entries(id)') \in 0 .. UintMod - 1
    <3>1. ASSUME NEW d \in Clients, NEW n \in 1 .. holders'[d][id] PROVE n \in 1 .. MaxUse
      BY <1>7, <2>1, InstanceAssumption DEF HoldersOK, Typed, TypeInv
    <3>2. Entries(id)' \subseteq Clients \X (1 .. MaxUse)
      BY <3>1 DEF Entries
    <3> QED BY <3>2, FewEntries
  <2> QED BY <1>8, <2>2, SmallIsItself, InstanceAssumption
<1>11. CountsOK'
  BY <1>5, <1>8, <1>9, <1>10 DEF Counted, CountsOK, Typed, TypeInv
<1> QED BY <1>1, <1>4, <1>7, <1>11 DEF Counted

LEMMA DecrementKeepsCounted ==
  ASSUME Countable, Typed, Counted, decrement_use_count
  PROVE  Counted'
<1>1. PICK c \in Clients, id \in Ids :
        /\ c = Msg.from /\ id = Msg.id /\ Known(id)
        /\ up' = up /\ UNCHANGED connected
        /\ inbox # <<>> /\ inbox' = Tail(inbox) /\ Msg.op = "decrement"
  BY Taken, IsRequest DEF decrement_use_count, Handle
<1>2. c \in connected /\ mine[c][id] > 0 /\ mine[c] = holders[c]
  <2>1. Len(inbox) > 0 /\ Msg = inbox[1]
    BY <1>1 DEF Typed, TypeInv, Msg
  <2>2. 1 \in 1 .. Len(inbox)
    BY <2>1 DEF Typed, TypeInv
  <2> QED BY <1>1, <2>1, <2>2 DEF Counted, InboxOK, HoldersOK, Changing
<1>3. holders[c][id] \in Nat \ {0} /\ holders[c][id] - 1 \in Nat
  BY <1>1, <1>2 DEF Typed, TypeInv
<1>4. /\ holders' = [holders EXCEPT ![c][id] = @ - 1]
      /\ mine' = [mine EXCEPT ![c][id] = @ - 1]
      /\ Playlists' = [Playlists EXCEPT ![id].use_count = Wrap(@ - 1)]
  <2>1. /\ holders' = [holders EXCEPT ![c][id] = IF @ > 0 THEN @ - 1 ELSE 0]
        /\ mine' = [mine EXCEPT ![c][id] = @ + (-1)]
        /\ Playlists' = [Playlists EXCEPT ![id].use_count = Wrap(@ - 1)]
    BY <1>1, <1>2 DEF decrement_use_count, Acknowledged
  <2>2. mine[c][id] + (-1) = mine[c][id] - 1
    BY <1>2, <1>3
  <2>3. mine' = [mine EXCEPT ![c][id] = @ - 1]
    BY <2>1, <2>2
  <2>4. holders' = [holders EXCEPT ![c][id] = @ - 1]
    <3>1. (IF holders[c][id] > 0 THEN holders[c][id] - 1 ELSE 0) = holders[c][id] - 1
      BY <1>3
    <3> QED BY <2>1, <3>1, Zenon
  <2> QED BY <2>1, <2>3, <2>4
<1>5. InboxOK'
  <2>1. \A d \in Clients \ {c} : UNCHANGED mine[d]
    BY <1>1, <1>4 DEF Typed, TypeInv
  <2> QED BY <1>1, <2>1, InboxTaken DEF Changing
<1>6. HoldersOK'
  <2>1. \A d \in Clients, other \in Ids :
          holders'[d][other] = IF d = c /\ other = id THEN holders[c][id] - 1 ELSE holders[d][other]
    BY <1>1, <1>4 DEF Typed, TypeInv
  <2>2. DOMAIN Playlists' = DOMAIN Playlists
    BY <1>4
  <2>3. \A d \in Clients, other \in Ids :
          /\ holders'[d][other] <= MaxUse
          /\ holders'[d][other] > 0 => other \in DOMAIN Playlists'
    <3>1. \A d \in Clients, other \in Ids :
            /\ holders[d][other] <= MaxUse
            /\ holders[d][other] > 0 => other \in DOMAIN Playlists
      BY DEF Counted, HoldersOK, Known
    <3>2. holders[c][id] - 1 <= MaxUse /\ id \in DOMAIN Playlists
      BY <1>1, <1>3, <3>1, InstanceAssumption DEF Known
    <3> QED BY <2>1, <2>2, <3>1, <3>2
  <2>4. \A d \in connected : mine'[d] = holders'[d]
    BY <1>1, <1>2, <1>4 DEF Counted, HoldersOK, Typed, TypeInv
  <2> QED BY <1>1, <2>3, <2>4 DEF HoldersOK, Known
<1>7. /\ DOMAIN Playlists' = DOMAIN Playlists
      /\ \A other \in DOMAIN Playlists \ {id} : Playlists'[other] = Playlists[other]
      /\ Playlists'[id].use_count = Wrap(Cardinality(Entries(id)) - 1)
  BY <1>1, <1>4 DEF Typed, TypeInv, Known, Counted, CountsOK
<1>8. Cardinality(Entries(id)') = Cardinality(Entries(id)) - 1
  <2>1. holders[c][id] > 0
    BY <1>3
  <2> QED BY <1>1, <1>4, <2>1, EntryRemoved DEF Counted
<1>9. \A other \in Ids \ {id} : Entries(other)' = Entries(other)
  BY <1>1, <1>3, <1>4, OtherEntries
<1>10. Wrap(Cardinality(Entries(id)) - 1) = Cardinality(Entries(id)')
  <2>1. IsFiniteSet(Entries(id)) /\ Cardinality(Entries(id)) \in 0 .. UintMod - 1
    BY <1>1, EntriesFit DEF Counted
  <2>2. Cardinality(Entries(id)) # 0
    <3>1. 1 \in 1 .. holders[c][id]
      BY <1>3
    <3>2. <<c, 1>> \in Entries(id)
      BY <3>1, EntryIs
    <3>3. Entries(id) # {}
      BY <3>2
    <3> QED BY <2>1, <3>3, FS_EmptySet
  <2>3. Cardinality(Entries(id)) - 1 \in Nat /\ Cardinality(Entries(id)) - 1 < UintMod
    BY <2>1, <2>2, InstanceAssumption
  <2> QED BY <1>8, <2>3, SmallIsItself
<1>11. CountsOK'
  BY <1>7, <1>8, <1>9, <1>10 DEF Counted, CountsOK, Typed, TypeInv
<1> QED BY <1>1, <1>5, <1>6, <1>11 DEF Counted

LEMMA ExitKeepsCounted ==
  ASSUME Countable, Typed, Counted, NameOwnerChanged
  PROVE  Counted'
<1>1. PICK c \in Clients :
        /\ c = Msg.from
        /\ UNCHANGED <<up, connected, mine>>
        /\ inbox # <<>> /\ inbox' = Tail(inbox) /\ Msg.op = "NameOwnerChanged"
  BY Taken DEF NameOwnerChanged, Handle, MessageType, RequestType, ExitType
<1>2. c \notin connected
  <2>1. Len(inbox) \in Nat \ {0} /\ Msg = inbox[1]
    BY <1>1 DEF Typed, TypeInv, Msg
  <2>2. 1 \in 1 .. Len(inbox)
    BY <2>1
  <2> QED BY <1>1, <2>1, <2>2 DEF Counted, InboxOK
<1>3. /\ holders' = [holders EXCEPT ![c] = NoUse]
      /\ Playlists' = [id \in DOMAIN Playlists |->
           [Playlists[id] EXCEPT !.use_count = Wrap(@ - holders[c][id])]]
  BY <1>1 DEF NameOwnerChanged
<1>4. InboxOK'
  BY <1>1, InboxTaken
<1>5. HoldersOK'
  <2>1. \A d \in Clients, id \in Ids :
          holders'[d][id] = IF d = c THEN 0 ELSE holders[d][id]
    BY <1>1, <1>3 DEF Typed, TypeInv, NoUse
  <2>2. \A d \in connected : mine'[d] = holders'[d]
    BY <1>1, <1>2, <1>3 DEF Counted, HoldersOK, Typed, TypeInv
  <2>3. DOMAIN Playlists' = DOMAIN Playlists
    BY <1>3
  <2>4. \A d \in Clients, id \in Ids :
          /\ holders'[d][id] <= MaxUse
          /\ holders'[d][id] > 0 => id \in DOMAIN Playlists'
    BY <2>1, <2>3, InstanceAssumption DEF Counted, HoldersOK, Known
  <2> QED BY <1>1, <2>2, <2>4 DEF HoldersOK, Known
<1>6. ASSUME NEW id \in DOMAIN Playlists
      PROVE  Playlists'[id].use_count = Cardinality(Entries(id)')
  <2>1. id \in Ids
    BY <1>6 DEF Typed, TypeInv
  <2>2. Playlists'[id].use_count = Wrap(Cardinality(Entries(id)) - holders[c][id])
    BY <1>3, <1>6 DEF Typed, TypeInv, Counted, CountsOK
  <2>3. Cardinality(Entries(id)') = Cardinality(Entries(id)) - holders[c][id]
    BY <1>1, <1>3, <2>1, EntriesDropped DEF Counted
  <2>4. Cardinality(Entries(id)') \in 0 .. UintMod - 1
    <3>1. Typed'
      BY OtherRequestsKeepTyped
    <3>2. ASSUME NEW d \in Clients, NEW n \in 1 .. holders'[d][id] PROVE n \in 1 .. MaxUse
      BY <1>5, <2>1, <3>1, InstanceAssumption DEF HoldersOK, Typed, TypeInv
    <3>3. Entries(id)' \subseteq Clients \X (1 .. MaxUse)
      BY <3>2 DEF Entries
    <3> QED BY <3>3, FewEntries
  <2> QED BY <2>2, <2>3, <2>4, SmallIsItself, InstanceAssumption
<1>7. CountsOK'
  BY <1>3, <1>6 DEF CountsOK
<1> QED BY <1>1, <1>4, <1>5, <1>7 DEF Counted

LEMMA CountedHolds == ASSUME Countable PROVE Spec => []Counted
<1>1. ASSUME Typed, Named, Counted, [Next]_vars PROVE Counted'
  <2>1. CASE UNCHANGED vars
    BY <1>1, <2>1
       DEF vars, trees, disk, Counted, InboxOK, HoldersOK, CountsOK, Entries, Known
  <2>2. CASE no_such_playlist
    <3>1. UNCHANGED <<up, Playlists, holders, connected, mine>>
      BY <2>2 DEF no_such_playlist, trees
    <3>2. InboxOK'
      BY <1>1, <2>2, <3>1, InboxTaken DEF no_such_playlist, Handle
    <3> QED BY <1>1, <3>1, <3>2 DEF Counted, HoldersOK, CountsOK, Entries, Known
  <2>3. ASSUME NEW id \in Ids, save_me(id) PROVE Counted'
    BY <1>1, <2>3
       DEF save_me, trees, Counted, InboxOK, HoldersOK, CountsOK, Entries, Known
  <2>4. ~Exit /\ ~Kill /\ ~Start
    BY <1>1 DEF Counted, Countable, Exit, Kill, Start
  <2> QED BY <1>1, <2>1, <2>2, <2>3, <2>4, ClientsKeepCounted, ListingKeepsCounted,
             IncrementKeepsCounted, DecrementKeepsCounted, ExitKeepsCounted
          DEF Next, Request
<1>2. Init => Counted
  BY InitCounted
<1> QED BY <1>1, <1>2, TypeCorrect, NamedHolds, PTL DEF Spec

\* Whatever clients request and whenever they go away, the use count is the number
\* of entries in the holders' lists, and no entry outlives its playlist.
THEOREM UseCountsHold == ASSUME Countable PROVE Spec => []UseCountIsHolders
<1>1. ASSUME Typed, Counted PROVE UseCountIsHolders
  <2>1. ASSUME NEW id \in DOMAIN Playlists
        PROVE  Playlists[id].use_count = Wrap(Cardinality(Entries(id)))
    <3>1. Playlists[id].use_count = Cardinality(Entries(id))
      BY <1>1, <2>1 DEF Counted, CountsOK
    <3>2. Cardinality(Entries(id)) \in 0 .. UintMod - 1
      BY <1>1, <2>1, EntriesFit DEF Counted, Typed, TypeInv
    <3> QED BY <3>1, <3>2, SmallIsItself, InstanceAssumption
  <2> QED BY <1>1, <2>1 DEF UseCountIsHolders, Counted, HoldersOK
<1> QED BY <1>1, TypeCorrect, CountedHolds, PTL

\* No destroy takes away a playlist that a client was acknowledged to use.
THEOREM UsedStay == ASSUME Countable PROVE Spec => []UsedIsKept
<1>1. ASSUME Typed, Counted PROVE UsedIsKept
  BY <1>1 DEF UsedIsKept, Typed, TypeInv, Counted, HoldersOK
<1> QED BY <1>1, TypeCorrect, CountedHolds, PTL
=============================================================================
