--------------------------- MODULE Discovery_proofs ---------------------------
(***************************************************************************)
(* Theorems about Discovery, for any finite number of services and any     *)
(* number of lives, renames and calls of mafw_shared_init().               *)
(*                                                                         *)
(* The messages to the application are one queue for all services.  Of the *)
(* messages of one service the invariants count the answers its proxy      *)
(* waits for, and say which may come before which: the end of a service    *)
(* before the errors that answer its calls, a hello after the end of an    *)
(* earlier life, and a name that is no longer true before the true one.    *)
(***************************************************************************)
EXTENDS Discovery, FiniteSetTheorems, SequenceTheorems, TLAPS

CallType == [type : {"get_name", "list_properties"}] \cup [type : {"set_name"}, name : Names]
MsgType ==
  [type : {"hello", "gone", "no_name", "list", "no_list"}, svc : Services]
    \cup [type : {"name", "name_changed"}, svc : Services, name : Names]
Stages == {"none", "naming", "listing", "registered", "kept"}

TypeInv ==
  /\ owned \subseteq Services /\ announced \subseteq owned /\ lives \in Nat
  /\ name \in [Services -> Names]
  /\ toExt \in [Services -> Seq(CallType)] /\ inbox \in Seq(MsgType)
  /\ tracking \in {"off", "asking", "answered", "on"} /\ inits \in Nat /\ listed \subseteq Services
  /\ tracking # "off" => inits > 0
  /\ proxy \in [Services -> Stages] /\ pname \in [Services -> Names \cup {NoName}]
  /\ held \subseteq Services /\ matched \subseteq Services /\ rules \in [Services -> Nat]
  /\ connrefs \in Int /\ refused \in Nat
  /\ outlived \subseteq Services /\ blocked \subseteq Services /\ renames \in Nat

\* How many of the elements of a sequence are in T.
Count(q, T) == Cardinality({k \in DOMAIN q : q[k] \in T})

Calls(type) == {c \in CallType : c.type = type}
Msgs(s, types) == {m \in MsgType : m.svc = s /\ m.type \in types}
NameAnswers(s) == Msgs(s, {"name", "no_name"})
ListAnswers(s) == Msgs(s, {"list", "no_list"})

\* A proxy waits for the one answer its stage needs.
Handshake(s) ==
  /\ Count(toExt[s], Calls("get_name")) + Count(inbox, NameAnswers(s))
       = IF proxy[s] = "naming" THEN 1 ELSE 0
  /\ Count(toExt[s], Calls("list_properties")) + Count(inbox, ListAnswers(s))
       = IF proxy[s] = "listing" THEN 1 ELSE 0
  /\ s \in held => proxy[s] \in {"registered", "kept"}

\* The messages of a service in a queue: some, none from position k on, none
\* behind it.
Has(q, s, types) == \E k \in DOMAIN q : q[k] \in Msgs(s, types)
HasBefore(q, k, s, types) == \E j \in DOMAIN q : j < k /\ q[j] \in Msgs(s, types)
HasBehind(q, k, s, types) == \E j \in DOMAIN q : j > k /\ q[j] \in Msgs(s, types)

\* A life that said hello did so behind the end of the lives before it.
HelloLast(q, s) == \A k \in DOMAIN q : q[k] \in Msgs(s, {"gone"}) => HasBehind(q, k, s, {"hello"})

\* A question for the name that failed comes behind the end of its service.
EndFirst(q, s) == \A k \in DOMAIN q : q[k] \in Msgs(s, {"no_name"}) => HasBefore(q, k, s, {"gone"})

\* The last name under way is the true one.
TrueLast(q, s, n) ==
  \A k \in DOMAIN q :
    q[k] \in Msgs(s, {"name", "name_changed"}) =>
      q[k].name = n \/ HasBehind(q, k, s, {"name", "name_changed"})

Attached(s) == proxy[s] \in {"naming", "listing", "registered"}

\* Who listens to what since when.
Listened(s) ==
  /\ proxy[s] # "none" \/ Has(inbox, s, {"name", "name_changed"}) => s \in matched
  /\ rules[s] > 0 \/ Has(inbox, s, {"gone"}) => inits > 0

\* What an extension that said hello can count on.
Heard(s) ==
  s \in announced =>
    /\ HelloLast(inbox, s)
    /\ tracking = "answered" => s \in listed \/ Has(inbox, s, {"hello"})
    /\ tracking = "on" => Attached(s) \/ s \in blocked \/ Has(inbox, s, {"hello"})

\* The end of a service is under way to its proxy, or was missed.
Ended(s) ==
  /\ s \notin owned /\ Attached(s) => s \in outlived \/ Has(inbox, s, {"gone"})
  /\ s \notin outlived => EndFirst(inbox, s)

\* Both sides call the extension by one name, but for what is under way.
Called(s) ==
  /\ TrueLast(inbox, s, name[s])
  /\ /\ proxy[s] \in {"listing", "registered"} /\ s \notin outlived
     /\ ~Has(inbox, s, {"gone"}) /\ ~Has(inbox, s, {"name", "name_changed"})
     /\ Count(toExt[s], Calls("set_name")) = 0
     => pname[s] = name[s]

Service(s) == Handshake(s) /\ Listened(s) /\ Heard(s) /\ Ended(s) /\ Called(s)

Inv == TypeInv /\ ConnectionAccounted /\ \A s \in Services : Service(s)

-----------------------------------------------------------------------------
(* Counting the elements of sequences *)

LEMMA CountType ==
  ASSUME NEW S, NEW q \in Seq(S), NEW T
  PROVE  /\ IsFiniteSet({k \in DOMAIN q : q[k] \in T}) /\ Count(q, T) \in Nat
         /\ Count(q, T) = 0 <=> \A k \in DOMAIN q : q[k] \notin T
<1>1. PICK n \in Nat : n = Len(q)
  OBVIOUS
<1>2. PICK P : P = {k \in DOMAIN q : q[k] \in T}
  OBVIOUS
<1>3. IsFiniteSet(P)
  <2>1. P \subseteq 1 .. n
    BY <1>1, <1>2
  <2>2. IsFiniteSet(1 .. n)
    BY FS_Interval
  <2> QED BY <2>1, <2>2, FS_Subset
<1>4. Cardinality(P) \in Nat /\ (Cardinality(P) = 0 <=> P = {})
  BY <1>3, FS_CardinalityType, FS_EmptySet
<1> QED BY <1>2, <1>3, <1>4 DEF Count

\* Where the elements of two sequences are when the second is put behind the first.
LEMMA JoinedAt ==
  ASSUME NEW S, NEW p \in Seq(S), NEW q \in Seq(S), NEW r, r = p \o q, NEW n \in Nat, n = Len(p)
  PROVE  /\ r \in Seq(S) /\ DOMAIN p = 1 .. n
         /\ \A k \in DOMAIN p : k \in DOMAIN r /\ r[k] = p[k] /\ k \in Nat /\ k > 0 /\ k <= n
         /\ \A k \in DOMAIN q : k \in Nat /\ k > 0 /\ k + n \in DOMAIN r /\ r[k + n] = q[k]
         /\ \A k \in DOMAIN r : k \in Nat /\ (k \in DOMAIN p \/ (k > n /\ k - n \in DOMAIN q /\ r[k] = q[k - n]))
<1>1. PICK m \in Nat : m = Len(q)
  OBVIOUS
<1>2. /\ r \in Seq(S) /\ DOMAIN p = 1 .. n /\ DOMAIN q = 1 .. m /\ DOMAIN r = 1 .. n + m
  BY <1>1
<1>3. \A k \in 1 .. n + m : r[k] = IF k <= n THEN p[k] ELSE q[k - n]
  BY <1>1
<1>4. ASSUME NEW k \in 1 .. m
      PROVE  k \in Nat /\ k > 0 /\ k + n \in 1 .. n + m /\ r[k + n] = q[k]
  <2>1. k + n \in 1 .. n + m /\ ~(k + n <= n) /\ (k + n) - n = k
    OBVIOUS
  <2>2. r[k + n] = IF k + n <= n THEN p[k + n] ELSE q[(k + n) - n]
    BY <1>3, <2>1
  <2> QED BY <2>1, <2>2
<1> QED BY <1>2, <1>3, <1>4

LEMMA CountJoined ==
  ASSUME NEW S, NEW p \in Seq(S), NEW q \in Seq(S), NEW T
  PROVE  Count(p \o q, T) = Count(p, T) + Count(q, T)
<1>1. PICK n \in Nat : n = Len(p)
  OBVIOUS
<1>2. PICK r : r = p \o q
  OBVIOUS
<1>3. /\ r \in Seq(S)
      /\ \A k \in DOMAIN p : k \in DOMAIN r /\ r[k] = p[k] /\ k \in Nat /\ k <= n
      /\ \A k \in DOMAIN q : k \in Nat /\ k > 0 /\ k + n \in DOMAIN r /\ r[k + n] = q[k]
      /\ \A k \in DOMAIN r : k \in Nat /\ (k \in DOMAIN p \/ (k > n /\ k - n \in DOMAIN q /\ r[k] = q[k - n]))
  BY <1>1, <1>2, JoinedAt
<1>4. PICK A, B, C, D :
        /\ A = {k \in DOMAIN p : p[k] \in T} /\ B = {k \in DOMAIN q : q[k] \in T}
        /\ C = {k \in DOMAIN r : r[k] \in T} /\ D = {k \in C : k > n}
  OBVIOUS
<1>5. IsFiniteSet(A) /\ IsFiniteSet(B) /\ IsFiniteSet(C)
  BY <1>3, <1>4, CountType
<1>6. C = A \cup D /\ A \cap D = {}
  BY <1>3, <1>4
<1>7. IsFiniteSet(D)
  BY <1>4, <1>5, FS_Subset
<1>8. Cardinality(D) = Cardinality(B)
  <2>1. PICK f : f = [k \in B |-> k + n]
    OBVIOUS
  <2>2. f \in [B -> D]
    BY <1>3, <1>4, <2>1
  <2>3. \A j, k \in B : f[j] = f[k] => j = k
    BY <1>3, <1>4, <2>1
  <2>4. \A d \in D : \E k \in B : f[k] = d
    <3>1. ASSUME NEW d \in D
          PROVE  d - n \in B /\ f[d - n] = d
      BY <1>3, <1>4, <2>1, <3>1
    <3> QED BY <3>1
  <2>5. f \in Bijection(B, D)
    BY <2>2, <2>3, <2>4 DEF Bijection, Injection, Surjection, IsInjective
  <2> QED BY <1>5, <2>5, FS_Bijection DEF ExistsBijection
<1>9. Cardinality(C) = Cardinality(A) + Cardinality(D)
  <2>1. /\ IsFiniteSet(A \cup D) /\ Cardinality(A \cap D) = 0
        /\ Cardinality(A) \in Nat /\ Cardinality(D) \in Nat
    BY <1>5, <1>6, <1>7, FS_EmptySet, FS_CardinalityType
  <2>2. Cardinality(A \cup D) = Cardinality(A) + Cardinality(D) - Cardinality(A \cap D)
    BY <1>5, <1>7, FS_Union
  <2> QED BY <1>6, <2>1, <2>2
<1> QED BY <1>2, <1>4, <1>8, <1>9 DEF Count

LEMMA CountOne ==
  ASSUME NEW m, NEW T
  PROVE  Count(<<m>>, T) = IF m \in T THEN 1 ELSE 0
<1>1. PICK P : P = {k \in DOMAIN <<m>> : <<m>>[k] \in T}
  OBVIOUS
<1>2. P = IF m \in T THEN {1} ELSE {}
  BY <1>1
<1>3. Cardinality({1}) = 1 /\ Cardinality({}) = 0
  BY FS_Singleton, FS_EmptySet
<1> QED BY <1>1, <1>2, <1>3 DEF Count

LEMMA CountAppend ==
  ASSUME NEW S, NEW q \in Seq(S), NEW m \in S, NEW T
  PROVE  Count(Append(q, m), T) = Count(q, T) + (IF m \in T THEN 1 ELSE 0)
<1>1. Append(q, m) = q \o <<m>> /\ <<m>> \in Seq(S)
  OBVIOUS
<1>2. Count(q \o <<m>>, T) = Count(q, T) + Count(<<m>>, T)
  BY <1>1, CountJoined
<1> QED BY <1>1, <1>2, CountOne

LEMMA CountTail ==
  ASSUME NEW S, NEW q \in Seq(S), q # <<>>, NEW T
  PROVE  Count(q, T) = Count(Tail(q), T) + (IF Head(q) \in T THEN 1 ELSE 0)
<1>1. q = <<Head(q)>> \o Tail(q) /\ <<Head(q)>> \in Seq(S) /\ Tail(q) \in Seq(S)
  OBVIOUS
<1>2. Count(Tail(q), T) \in Nat
  BY <1>1, CountType
<1>3. Count(<<Head(q)>> \o Tail(q), T) = Count(<<Head(q)>>, T) + Count(Tail(q), T)
  BY <1>1, CountJoined
<1>4. Count(<<Head(q)>>, T) = IF Head(q) \in T THEN 1 ELSE 0
  BY CountOne
<1>5. Count(q, T) = Count(<<Head(q)>> \o Tail(q), T)
  BY <1>1
<1>6. CASE Head(q) \in T
  BY <1>2, <1>3, <1>4, <1>5, <1>6
<1>7. CASE Head(q) \notin T
  BY <1>2, <1>3, <1>4, <1>5, <1>7
<1> QED BY <1>6, <1>7

-----------------------------------------------------------------------------
(* The messages of a service in a queue *)

LEMMA MsgIs ==
  ASSUME NEW x \in Services
  PROVE  /\ \A t \in {"hello", "gone", "no_name", "list", "no_list"} :
              Msg(t, x) \in MsgType /\ Msg(t, x).type = t /\ Msg(t, x).svc = x
         /\ \A t \in {"name", "name_changed"}, n \in Names :
              /\ NameMsg(t, x, n) \in MsgType /\ NameMsg(t, x, n).type = t
              /\ NameMsg(t, x, n).svc = x /\ NameMsg(t, x, n).name = n
BY DEF Msg, NameMsg, MsgType

LEMMA MsgFields ==
  ASSUME NEW m \in MsgType
  PROVE  /\ m.svc \in Services
         /\ m.type \in {"hello", "gone", "no_name", "list", "no_list", "name", "name_changed"}
         /\ m.type \in {"name", "name_changed"} => m.name \in Names
BY DEF MsgType

LEMMA CallFields ==
  ASSUME NEW c \in CallType
  PROVE  /\ c.type \in {"get_name", "list_properties", "set_name"}
         /\ c.type = "set_name" => c.name \in Names
         /\ \A t : c \in Calls(t) <=> c.type = t
BY DEF CallType, Calls

LEMMA NothingIn == \A x, t, T : ~Has(<<>>, x, t) /\ Count(<<>>, T) = 0
BY FS_EmptySet DEF Has, Count

LEMMA OneIn ==
  ASSUME NEW m \in MsgType
  PROVE  /\ <<m>> \in Seq(MsgType)
         /\ \A x, t : Has(<<m>>, x, t) <=> m.svc = x /\ m.type \in t
BY DEF Has, Msgs

\* A message is put behind a queue, or a queue behind another.
LEMMA JoinedKeeps ==
  ASSUME NEW p \in Seq(MsgType), NEW q \in Seq(MsgType), NEW x
  PROVE  /\ \A t : Has(p \o q, x, t) <=> Has(p, x, t) \/ Has(q, x, t)
         /\ ~Has(q, x, {"gone"}) /\ (HelloLast(p, x) \/ Has(q, x, {"hello"})) => HelloLast(p \o q, x)
         /\ EndFirst(p, x) /\ EndFirst(q, x) => EndFirst(p \o q, x)
         /\ \A n : TrueLast(q, x, n) /\ (TrueLast(p, x, n) \/ Has(q, x, {"name", "name_changed"}))
                    => TrueLast(p \o q, x, n)
<1>1. PICK n \in Nat : n = Len(p)
  OBVIOUS
<1>2. PICK r : r = p \o q
  OBVIOUS
<1>3. /\ r \in Seq(MsgType) /\ DOMAIN p = 1 .. n
      /\ \A k \in DOMAIN p : k \in DOMAIN r /\ r[k] = p[k] /\ k \in Nat /\ k > 0 /\ k <= n
      /\ \A k \in DOMAIN q : k \in Nat /\ k > 0 /\ k + n \in DOMAIN r /\ r[k + n] = q[k]
      /\ \A k \in DOMAIN r : k \in Nat /\ (k \in DOMAIN p \/ (k > n /\ k - n \in DOMAIN q /\ r[k] = q[k - n]))
  BY <1>1, <1>2, JoinedAt
<1>4. \A t : Has(r, x, t) <=> Has(p, x, t) \/ Has(q, x, t)
  BY <1>3 DEF Has
\* what is behind an element of p or q is behind it in r
<1>5. \A t : /\ \A k \in DOMAIN p : HasBehind(p, k, x, t) \/ Has(q, x, t) => HasBehind(r, k, x, t)
             /\ \A k \in DOMAIN q : HasBehind(q, k, x, t) => HasBehind(r, k + n, x, t)
             /\ \A k \in DOMAIN p : HasBefore(p, k, x, t) => HasBefore(r, k, x, t)
             /\ \A k \in DOMAIN q : HasBefore(q, k, x, t) => HasBefore(r, k + n, x, t)
  <2>1. ASSUME NEW t, NEW k \in DOMAIN p, HasBehind(p, k, x, t)
        PROVE  HasBehind(r, k, x, t)
    BY <1>3, <2>1 DEF HasBehind
  <2>2. ASSUME NEW t, NEW k \in DOMAIN p, Has(q, x, t)
        PROVE  HasBehind(r, k, x, t)
    <3>1. PICK j \in DOMAIN q : q[j] \in Msgs(x, t)
      BY <2>2 DEF Has
    <3>2. j + n \in DOMAIN r /\ r[j + n] \in Msgs(x, t) /\ j + n > k
      BY <1>3, <3>1
    <3> QED BY <3>2 DEF HasBehind
  <2>3. ASSUME NEW t, NEW k \in DOMAIN q, HasBehind(q, k, x, t)
        PROVE  HasBehind(r, k + n, x, t)
    <3>1. PICK j \in DOMAIN q : j > k /\ q[j] \in Msgs(x, t)
      BY <2>3 DEF HasBehind
    <3>2. j + n \in DOMAIN r /\ r[j + n] \in Msgs(x, t) /\ j + n > k + n
      BY <1>3, <3>1
    <3> QED BY <3>2 DEF HasBehind
  <2>4. ASSUME NEW t, NEW k \in DOMAIN p, HasBefore(p, k, x, t)
        PROVE  HasBefore(r, k, x, t)
    BY <1>3, <2>4 DEF HasBefore
  <2>5. ASSUME NEW t, NEW k \in DOMAIN q, HasBefore(q, k, x, t)
        PROVE  HasBefore(r, k + n, x, t)
    <3>1. PICK j \in DOMAIN q : j < k /\ q[j] \in Msgs(x, t)
      BY <2>5 DEF HasBefore
    <3>2. j + n \in DOMAIN r /\ r[j + n] \in Msgs(x, t) /\ j + n < k + n
      BY <1>3, <3>1
    <3> QED BY <3>2 DEF HasBefore
  <2> QED BY <2>1, <2>2, <2>3, <2>4, <2>5
\* an element of r is one of p or of q
<1>6. ASSUME NEW k \in DOMAIN r
      PROVE  \/ k \in DOMAIN p /\ r[k] = p[k]
             \/ \E j \in DOMAIN q : r[k] = q[j] /\ k = j + n
  <2>1. CASE k \notin DOMAIN p
    <3>1. k - n \in DOMAIN q /\ r[k] = q[k - n] /\ k = (k - n) + n
      BY <1>3, <2>1
    <3> QED BY <3>1
  <2> QED BY <1>3, <2>1
<1>7. ASSUME ~Has(q, x, {"gone"}), HelloLast(p, x) \/ Has(q, x, {"hello"})
      PROVE  HelloLast(r, x)
  <2>1. ASSUME NEW k \in DOMAIN r, r[k] \in Msgs(x, {"gone"})
        PROVE  k \in DOMAIN p /\ p[k] \in Msgs(x, {"gone"})
    BY <1>6, <1>7, <2>1 DEF Has
  <2> QED BY <1>5, <1>7, <2>1 DEF HelloLast
<1>8. ASSUME EndFirst(p, x), EndFirst(q, x)
      PROVE  EndFirst(r, x)
  BY <1>5, <1>6, <1>8 DEF EndFirst
<1>9. ASSUME NEW nm, TrueLast(q, x, nm), TrueLast(p, x, nm) \/ Has(q, x, {"name", "name_changed"})
      PROVE  TrueLast(r, x, nm)
  <2> SUFFICES ASSUME NEW k \in DOMAIN r, r[k] \in Msgs(x, {"name", "name_changed"})
               PROVE  r[k].name = nm \/ HasBehind(r, k, x, {"name", "name_changed"})
    BY DEF TrueLast
  <2>1. CASE k \in DOMAIN p /\ r[k] = p[k]
    BY <1>5, <1>9, <2>1 DEF TrueLast
  <2>2. CASE \E j \in DOMAIN q : r[k] = q[j] /\ k = j + n
    BY <1>5, <1>9, <2>2 DEF TrueLast
  <2> QED BY <1>6, <2>1, <2>2
<1> QED BY <1>2, <1>4, <1>7, <1>8, <1>9

\* The first message is taken.
LEMMA TailKeeps ==
  ASSUME NEW q \in Seq(MsgType), q # <<>>, NEW x
  PROVE  /\ Tail(q) \in Seq(MsgType) /\ Head(q) \in MsgType
         /\ \A t : Has(q, x, t) <=> Has(Tail(q), x, t) \/ (Head(q).svc = x /\ Head(q).type \in t)
         /\ HelloLast(q, x) => HelloLast(Tail(q), x)
         /\ HelloLast(q, x) /\ Head(q).svc = x /\ Head(q).type = "gone" => Has(Tail(q), x, {"hello"})
         /\ EndFirst(q, x) /\ ~(Head(q).svc = x /\ Head(q).type = "gone") => EndFirst(Tail(q), x)
         /\ EndFirst(q, x) => ~(Head(q).svc = x /\ Head(q).type = "no_name")
         /\ \A n : TrueLast(q, x, n) =>
              /\ TrueLast(Tail(q), x, n)
              /\ \/ ~(Head(q).svc = x /\ Head(q).type \in {"name", "name_changed"})
                 \/ Head(q).name = n
                 \/ Has(Tail(q), x, {"name", "name_changed"})
<1>1. PICK m \in MsgType : m = Head(q)
  OBVIOUS
<1>2. PICK r \in Seq(MsgType) : r = Tail(q)
  <2>1. Tail(q) \in Seq(MsgType)
    OBVIOUS
  <2> QED BY <2>1
<1>3. /\ 1 \in DOMAIN q /\ q[1] = m
      /\ \A k \in DOMAIN r : k \in Nat /\ k > 0 /\ k + 1 \in DOMAIN q /\ r[k] = q[k + 1]
      /\ \A k \in DOMAIN q : k \in Nat /\ k > 0 /\ (k # 1 => k - 1 \in DOMAIN r /\ r[k - 1] = q[k])
  BY <1>1, <1>2
<1>4. \A t : m \in Msgs(x, t) <=> m.svc = x /\ m.type \in t
  BY DEF Msgs
<1>5. ASSUME NEW t, NEW k \in DOMAIN q, q[k] \in Msgs(x, t), k # 1
      PROVE  k - 1 \in DOMAIN r /\ r[k - 1] \in Msgs(x, t)
  BY <1>3, <1>5
<1>6. ASSUME NEW t
      PROVE  Has(q, x, t) <=> Has(r, x, t) \/ (m.svc = x /\ m.type \in t)
  <2>1. Has(q, x, t) => Has(r, x, t) \/ m \in Msgs(x, t)
    BY <1>3, <1>5 DEF Has
  <2>2. Has(r, x, t) \/ m \in Msgs(x, t) => Has(q, x, t)
    BY <1>3 DEF Has
  <2> QED BY <1>4, <2>1, <2>2
<1>7. ASSUME NEW t, NEW k \in DOMAIN r, HasBehind(q, k + 1, x, t)
      PROVE  HasBehind(r, k, x, t)
  <2>1. PICK j \in DOMAIN q : j > k + 1 /\ q[j] \in Msgs(x, t)
    BY <1>7 DEF HasBehind
  <2>2. j # 1 /\ j - 1 > k
    BY <1>3, <2>1
  <2> QED BY <1>5, <2>1, <2>2 DEF HasBehind
<1>8. ASSUME NEW t, HasBehind(q, 1, x, t)
      PROVE  Has(r, x, t)
  <2>1. PICK j \in DOMAIN q : j > 1 /\ q[j] \in Msgs(x, t)
    BY <1>8 DEF HasBehind
  <2>2. j # 1
    BY <1>3, <2>1
  <2> QED BY <1>5, <2>1, <2>2 DEF Has
<1>9. HelloLast(q, x) => HelloLast(r, x)
  BY <1>3, <1>7 DEF HelloLast
<1>10. HelloLast(q, x) /\ m.svc = x /\ m.type = "gone" => Has(r, x, {"hello"})
  BY <1>3, <1>4, <1>8 DEF HelloLast
<1>11. ASSUME EndFirst(q, x), ~(m.svc = x /\ m.type = "gone")
       PROVE  EndFirst(r, x)
  <2> SUFFICES ASSUME NEW k \in DOMAIN r, r[k] \in Msgs(x, {"no_name"})
               PROVE  HasBefore(r, k, x, {"gone"})
    BY DEF EndFirst
  <2>1. HasBefore(q, k + 1, x, {"gone"})
    BY <1>3, <1>11 DEF EndFirst
  <2>2. PICK j \in DOMAIN q : j < k + 1 /\ q[j] \in Msgs(x, {"gone"})
    BY <2>1 DEF HasBefore
  <2>3. j # 1 /\ j - 1 < k
    BY <1>3, <1>4, <1>11, <2>2
  <2> QED BY <1>5, <2>2, <2>3 DEF HasBefore
<1>12. EndFirst(q, x) => ~(m.svc = x /\ m.type = "no_name")
  <2>1. ~HasBefore(q, 1, x, {"gone"})
    BY <1>3 DEF HasBefore
  <2> QED BY <1>3, <1>4, <2>1 DEF EndFirst
<1>13. ASSUME NEW n, TrueLast(q, x, n)
       PROVE  /\ TrueLast(r, x, n)
              /\ \/ ~(m.svc = x /\ m.type \in {"name", "name_changed"})
                 \/ m.name = n
                 \/ Has(r, x, {"name", "name_changed"})
  BY <1>3, <1>4, <1>7, <1>8, <1>13 DEF TrueLast
<1> QED BY <1>1, <1>2, <1>6, <1>9, <1>10, <1>11, <1>12, <1>13

LEMMA NothingToOrder ==
  ASSUME NEW q, NEW x
  PROVE  /\ ~Has(q, x, {"no_name"}) => EndFirst(q, x)
         /\ ~Has(q, x, {"gone"}) => HelloLast(q, x)
         /\ ~Has(q, x, {"name", "name_changed"}) => \A n : TrueLast(q, x, n)
BY DEF Has, EndFirst, HelloLast, TrueLast

LEMMA HasCount ==
  ASSUME NEW q \in Seq(MsgType), NEW x, NEW t
  PROVE  Count(q, Msgs(x, t)) \in Nat /\ (Has(q, x, t) <=> Count(q, Msgs(x, t)) # 0)
BY CountType DEF Has

\* The services S are called: those on the bus get the call, and for each of the
\* others there is one answer, if there is to be one.
Sent(S, c, rest, block) ==
  /\ toExt' \in [Services -> Seq(CallType)]
  /\ \A x \in Services : toExt'[x] = IF x \in S \cap owned THEN Append(toExt[x], c) ELSE toExt[x]
  /\ inbox' = rest \o block
  /\ \A x \in Services : \A t :
       Count(block, Msgs(x, t)) =
         IF WantsAnswer(c) /\ x \in S \ owned /\ NoAnswer(c, x).type \in t THEN 1 ELSE 0

LEMMA SendIs ==
  ASSUME TypeInv, NEW S \in SUBSET Services, NEW c \in CallType, NEW rest \in Seq(MsgType),
         Send(S, c, rest)
  PROVE  \E block \in Seq(MsgType) : Sent(S, c, rest, block)
<1>1. /\ toExt' \in [Services -> Seq(CallType)]
      /\ \A x \in Services : toExt'[x] = IF x \in S \cap owned THEN Append(toExt[x], c) ELSE toExt[x]
  <2>1. \A x \in Services : Append(toExt[x], c) \in Seq(CallType) /\ toExt[x] \in Seq(CallType)
    BY DEF TypeInv
  <2> QED BY <2>1 DEF Send
<1>2. PICK U : U = IF WantsAnswer(c) THEN S \ owned ELSE {}
  OBVIOUS
<1>3. U \subseteq Services /\ IsFiniteSet(U)
  <2>1. U \subseteq Services
    BY <1>2
  <2> QED BY <2>1, InstanceAssumption, FS_Subset
<1>4. PICK n \in Nat : n = Cardinality(U)
  BY <1>3, FS_CardinalityType
<1>5. PICK order \in Bijection(1 .. n, U) : inbox' = rest \o [k \in DOMAIN order |-> NoAnswer(c, order[k])]
  BY <1>2, <1>4 DEF Send
<1>6. /\ order \in [1 .. n -> U] /\ (\A j, k \in 1 .. n : order[j] = order[k] => j = k)
      /\ \A x \in U : \E k \in 1 .. n : order[k] = x
  BY DEF Bijection, Injection, Surjection, IsInjective
<1>7. PICK block : block = [k \in DOMAIN order |-> NoAnswer(c, order[k])]
  OBVIOUS
<1>8. ASSUME NEW x \in Services
      PROVE  NoAnswer(c, x) \in MsgType /\ NoAnswer(c, x).svc = x
  BY MsgIs DEF NoAnswer
<1>9. block \in Seq(MsgType) /\ DOMAIN block = 1 .. n /\ \A k \in 1 .. n : block[k] = NoAnswer(c, order[k])
  BY <1>3, <1>6, <1>7, <1>8
<1>10. ASSUME NEW x \in Services, NEW t
       PROVE  Count(block, Msgs(x, t)) =
                IF WantsAnswer(c) /\ x \in S \ owned /\ NoAnswer(c, x).type \in t THEN 1 ELSE 0
  <2>1. PICK P : P = {k \in DOMAIN block : block[k] \in Msgs(x, t)}
    OBVIOUS
  <2>2. P = {k \in 1 .. n : order[k] = x /\ NoAnswer(c, x).type \in t}
    BY <1>3, <1>6, <1>8, <1>9, <2>1 DEF Msgs
  <2>3. CASE x \in U /\ NoAnswer(c, x).type \in t
    <3>1. PICK k \in 1 .. n : order[k] = x
      BY <1>6, <2>3
    <3>2. P = {k}
      BY <1>6, <2>2, <2>3, <3>1
    <3> QED BY <1>2, <2>1, <2>3, <3>2, FS_Singleton DEF Count
  <2>4. CASE ~(x \in U /\ NoAnswer(c, x).type \in t)
    <3>1. P = {}
      BY <1>6, <2>2, <2>4
    <3> QED BY <1>2, <2>1, <2>4, <3>1, FS_EmptySet DEF Count
  <2> QED BY <2>3, <2>4
<1> QED BY <1>1, <1>5, <1>7, <1>9, <1>10 DEF Sent

\* The calls of a service that left are answered by the bus, each that wants an
\* answer once.
LEMMA AnswersAre ==
  ASSUME TypeInv, NEW s \in Services, NEW order \in Unanswered(toExt[s]),
         NEW ans, ans = [k \in DOMAIN order |-> NoAnswer(toExt[s][order[k]], s)]
  PROVE  /\ ans \in Seq(MsgType)
         /\ \A x, t : Has(ans, x, t) => x = s /\ ("no_name" \in t \/ "no_list" \in t)
         /\ Count(ans, NameAnswers(s)) = Count(toExt[s], Calls("get_name"))
         /\ Count(ans, ListAnswers(s)) = Count(toExt[s], Calls("list_properties"))
<1>1. PICK q \in Seq(CallType) : q = toExt[s]
  BY DEF TypeInv
<1>2. PICK W : W = {k \in DOMAIN q : WantsAnswer(q[k])}
  OBVIOUS
<1>3. IsFiniteSet(W)
  <2>1. PICK n \in Nat : n = Len(q)
    OBVIOUS
  <2>2. W \subseteq 1 .. n
    BY <1>2, <2>1
  <2>3. IsFiniteSet(1 .. n)
    BY FS_Interval
  <2> QED BY <2>2, <2>3, FS_Subset
<1>4. PICK n \in Nat : n = Cardinality(W)
  BY <1>3, FS_CardinalityType
<1>5. order \in Bijection(1 .. n, W)
  BY <1>1, <1>2, <1>4 DEF Unanswered
<1>6. /\ order \in [1 .. n -> W] /\ (\A j, k \in 1 .. n : order[j] = order[k] => j = k)
      /\ \A w \in W : \E k \in 1 .. n : order[k] = w
  BY <1>5 DEF Bijection, Injection, Surjection, IsInjective
<1>7. DOMAIN ans = 1 .. n /\ \A k \in 1 .. n : ans[k] = NoAnswer(q[order[k]], s)
  BY <1>1, <1>6
<1>8. ASSUME NEW c \in CallType
      PROVE  /\ NoAnswer(c, s) \in MsgType /\ NoAnswer(c, s).svc = s
             /\ NoAnswer(c, s).type = IF c.type = "get_name" THEN "no_name" ELSE "no_list"
  BY MsgIs DEF NoAnswer
<1>9. \A k \in 1 .. n : q[order[k]] \in CallType /\ order[k] \in DOMAIN q /\ WantsAnswer(q[order[k]])
  BY <1>2, <1>6
<1>10. ans \in Seq(MsgType)
  BY <1>7, <1>8, <1>9
<1>11. ASSUME NEW x, NEW t, Has(ans, x, t)
       PROVE  x = s /\ ("no_name" \in t \/ "no_list" \in t)
  <2>1. PICK k \in 1 .. n : ans[k] \in Msgs(x, t)
    BY <1>7, <1>11 DEF Has
  <2> QED BY <1>7, <1>8, <1>9, <2>1 DEF Msgs
<1>12. ASSUME NEW t \in {"get_name", "list_properties"}, NEW T,
              \A c \in CallType : WantsAnswer(c) => (NoAnswer(c, s) \in T <=> c.type = t)
       PROVE  Count(ans, T) = Count(q, Calls(t))
  <2>1. PICK A, B : A = {k \in DOMAIN ans : ans[k] \in T} /\ B = {k \in DOMAIN q : q[k] \in Calls(t)}
    OBVIOUS
  <2>2. A = {k \in 1 .. n : q[order[k]].type = t}
    BY <1>7, <1>9, <1>12, <2>1
  <2>3. B = {k \in W : q[k].type = t}
    <3>1. \A k \in DOMAIN q : q[k] \in CallType
      OBVIOUS
    <3> QED BY <1>2, <2>1, <3>1, CallFields DEF WantsAnswer
  <2>4. PICK f : f = [k \in A |-> order[k]]
    OBVIOUS
  <2>5. f \in Bijection(A, B)
    <3>1. f \in [A -> B] /\ \A j, k \in A : f[j] = f[k] => j = k
      BY <1>6, <2>2, <2>3, <2>4
    <3>2. \A b \in B : \E k \in A : f[k] = b
      BY <1>6, <2>2, <2>3, <2>4
    <3> QED BY <3>1, <3>2 DEF Bijection, Injection, Surjection, IsInjective
  <2>6. IsFiniteSet(A)
    <3>1. A \subseteq 1 .. n
      BY <2>2
    <3>2. IsFiniteSet(1 .. n)
      BY FS_Interval
    <3> QED BY <3>1, <3>2, FS_Subset
  <2> QED BY <2>1, <2>5, <2>6, FS_Bijection DEF ExistsBijection, Count
<1>13. Count(ans, NameAnswers(s)) = Count(q, Calls("get_name"))
  <2>1. \A c \in CallType : NoAnswer(c, s) \in NameAnswers(s) <=> c.type = "get_name"
    BY <1>8 DEF NameAnswers, Msgs
  <2> QED BY <1>12, <2>1
<1>14. Count(ans, ListAnswers(s)) = Count(q, Calls("list_properties"))
  <2>1. \A c \in CallType : WantsAnswer(c) => (NoAnswer(c, s) \in ListAnswers(s) <=> c.type = "list_properties")
    BY <1>8, CallFields DEF ListAnswers, Msgs, WantsAnswer
  <2> QED BY <1>12, <2>1
<1> QED BY <1>1, <1>10, <1>11, <1>13, <1>14

\* The bus tells of the end of a service that is listened for, and then answers
\* the calls to it.
LEMMA DepartIs ==
  ASSUME TypeInv, NEW s \in Services, Depart(s)
  PROVE  \E block \in Seq(MsgType) :
           /\ inbox' = inbox \o block
           /\ \A x : x # s => \A t : ~Has(block, x, t)
           /\ ~Has(block, s, {"hello", "name", "name_changed"})
           /\ Has(block, s, {"gone"}) <=> rules[s] > 0
           /\ Count(block, NameAnswers(s)) = Count(toExt[s], Calls("get_name"))
           /\ Count(block, ListAnswers(s)) = Count(toExt[s], Calls("list_properties"))
           /\ rules[s] > 0 => EndFirst(block, s)
<1>1. PICK order \in Unanswered(toExt[s]) :
        inbox' = inbox \o (IF rules[s] > 0 THEN <<Msg("gone", s)>> ELSE <<>>)
                       \o [k \in DOMAIN order |-> NoAnswer(toExt[s][order[k]], s)]
  BY DEF Depart
<1>2. PICK ans \in Seq(MsgType) :
        /\ ans = [k \in DOMAIN order |-> NoAnswer(toExt[s][order[k]], s)]
        /\ \A x, t : Has(ans, x, t) => x = s /\ ("no_name" \in t \/ "no_list" \in t)
        /\ Count(ans, NameAnswers(s)) = Count(toExt[s], Calls("get_name"))
        /\ Count(ans, ListAnswers(s)) = Count(toExt[s], Calls("list_properties"))
  BY AnswersAre
<1>3. Msg("gone", s) \in MsgType /\ Msg("gone", s).svc = s /\ Msg("gone", s).type = "gone"
  BY MsgIs
<1>4. PICK g \in Seq(MsgType) : g = IF rules[s] > 0 THEN <<Msg("gone", s)>> ELSE <<>>
  <2>1. <<Msg("gone", s)>> \in Seq(MsgType) /\ <<>> \in Seq(MsgType)
    BY <1>3
  <2>2. (IF rules[s] > 0 THEN <<Msg("gone", s)>> ELSE <<>>) \in Seq(MsgType)
    BY <2>1
  <2> QED BY <2>2
<1>5. /\ \A x, t : Has(g, x, t) <=> rules[s] > 0 /\ x = s /\ "gone" \in t
      /\ \A T : Count(g, T) = IF rules[s] > 0 /\ Msg("gone", s) \in T THEN 1 ELSE 0
  BY <1>3, <1>4, OneIn, NothingIn, CountOne
<1>6. PICK block : block = g \o ans
  OBVIOUS
<1>7. block \in Seq(MsgType) /\ inbox' = inbox \o block
  <2>1. inbox \in Seq(MsgType)
    BY DEF TypeInv
  <2>2. g \o ans \in Seq(MsgType)
    OBVIOUS
  <2>3. (inbox \o g) \o ans = inbox \o (g \o ans)
    BY <2>1, ConcatAssociative
  <2> QED BY <1>1, <1>2, <1>4, <1>6, <2>2, <2>3
<1>8. \A x, t : Has(block, x, t) <=> Has(g, x, t) \/ Has(ans, x, t)
  BY <1>6, JoinedKeeps
<1>9. ASSUME NEW T, Msg("gone", s) \notin T
      PROVE  Count(block, T) = Count(ans, T)
  <2>1. Count(ans, T) \in Nat
    BY CountType
  <2>2. Count(g \o ans, T) = Count(g, T) + Count(ans, T)
    BY CountJoined
  <2> QED BY <1>5, <1>6, <1>9, <2>1, <2>2
<1>10. Msg("gone", s) \notin NameAnswers(s) /\ Msg("gone", s) \notin ListAnswers(s)
  BY <1>3 DEF NameAnswers, ListAnswers, Msgs
<1>11. ASSUME rules[s] > 0
       PROVE  EndFirst(block, s)
  <2>1. g = <<Msg("gone", s)>>
    BY <1>4, <1>11
  <2>2. block[1] = Msg("gone", s) /\ 1 \in DOMAIN block /\ \A k \in DOMAIN block : k \in Nat /\ k > 0
    BY <1>3, <1>6, <2>1
  <2>3. \A k \in DOMAIN block : block[k] \in Msgs(s, {"no_name"}) => 1 < k
    <3>1. block[1] \notin Msgs(s, {"no_name"})
      BY <1>3, <2>2 DEF Msgs
    <3> QED BY <2>2, <3>1
  <2>4. block[1] \in Msgs(s, {"gone"})
    BY <1>3, <2>2 DEF Msgs
  <2> QED BY <2>2, <2>3, <2>4 DEF EndFirst, HasBefore
<1>12. /\ \A x : x # s => \A t : ~Has(block, x, t)
       /\ ~Has(block, s, {"hello", "name", "name_changed"})
       /\ Has(block, s, {"gone"}) <=> rules[s] > 0
  BY <1>2, <1>5, <1>8
<1> QED BY <1>2, <1>7, <1>9, <1>10, <1>11, <1>12

-----------------------------------------------------------------------------
(* What the invariants ask of the queue, when it grows or shrinks *)

\* No answer is under way where none is counted.
LEMMA Uncounted ==
  ASSUME NEW q \in Seq(MsgType), NEW x
  PROVE  /\ Count(q, NameAnswers(x)) \in Nat /\ Count(q, ListAnswers(x)) \in Nat
         /\ Count(q, NameAnswers(x)) = 0 => ~Has(q, x, {"no_name"}) /\ EndFirst(q, x)
<1>1. Count(q, NameAnswers(x)) \in Nat /\ Count(q, ListAnswers(x)) \in Nat
  BY CountType
<1>2. Count(q, NameAnswers(x)) = 0 => \A k \in DOMAIN q : q[k] \notin NameAnswers(x)
  BY CountType
<1>3. Count(q, NameAnswers(x)) = 0 => ~Has(q, x, {"no_name"})
  BY <1>2 DEF Has, NameAnswers, Msgs
<1> QED BY <1>1, <1>3, NothingToOrder

\* For the service x, the queue q is p and behind it b, or behind it m; or it is m
\* and behind it r.
Behind(p, b, q, x) ==
  /\ \A t : Has(q, x, t) <=> Has(p, x, t) \/ Has(b, x, t)
  /\ ~Has(b, x, {"gone"}) /\ HelloLast(p, x) => HelloLast(q, x)
  /\ EndFirst(p, x) /\ EndFirst(b, x) => EndFirst(q, x)
  /\ ~Has(b, x, {"no_name"}) /\ EndFirst(p, x) => EndFirst(q, x)
  /\ ~Has(b, x, {"name", "name_changed"}) => \A n : TrueLast(p, x, n) => TrueLast(q, x, n)
  /\ Count(q, NameAnswers(x)) = Count(p, NameAnswers(x)) + Count(b, NameAnswers(x))
  /\ Count(q, ListAnswers(x)) = Count(p, ListAnswers(x)) + Count(b, ListAnswers(x))

Last(p, m, q, x) ==
  /\ \A t : Has(q, x, t) <=> Has(p, x, t) \/ (m.svc = x /\ m.type \in t)
  /\ m.type # "gone" /\ HelloLast(p, x) => HelloLast(q, x)
  /\ m.type = "hello" /\ m.svc = x => HelloLast(q, x)
  /\ m.type # "no_name" /\ EndFirst(p, x) => EndFirst(q, x)
  /\ ~(m.svc = x /\ m.type \in {"name", "name_changed"}) => \A n : TrueLast(p, x, n) => TrueLast(q, x, n)
  /\ m.svc = x /\ m.type \in {"name", "name_changed"} => TrueLast(q, x, m.name)
  /\ Count(q, NameAnswers(x)) =
       Count(p, NameAnswers(x)) + (IF m.svc = x /\ m.type \in {"name", "no_name"} THEN 1 ELSE 0)
  /\ Count(q, ListAnswers(x)) =
       Count(p, ListAnswers(x)) + (IF m.svc = x /\ m.type \in {"list", "no_list"} THEN 1 ELSE 0)

First(m, r, q, x) ==
  /\ \A t : Has(q, x, t) <=> Has(r, x, t) \/ (m.svc = x /\ m.type \in t)
  /\ HelloLast(q, x) => HelloLast(r, x)
  /\ HelloLast(q, x) /\ m.svc = x /\ m.type = "gone" => Has(r, x, {"hello"})
  /\ EndFirst(q, x) /\ ~(m.svc = x /\ m.type = "gone") => EndFirst(r, x)
  /\ EndFirst(q, x) => ~(m.svc = x /\ m.type = "no_name")
  /\ \A n : TrueLast(q, x, n) =>
       /\ TrueLast(r, x, n)
       /\ m.svc = x /\ m.type \in {"name", "name_changed"} =>
            m.name = n \/ Has(r, x, {"name", "name_changed"})
  /\ Count(q, NameAnswers(x)) =
       Count(r, NameAnswers(x)) + (IF m.svc = x /\ m.type \in {"name", "no_name"} THEN 1 ELSE 0)
  /\ Count(q, ListAnswers(x)) =
       Count(r, ListAnswers(x)) + (IF m.svc = x /\ m.type \in {"list", "no_list"} THEN 1 ELSE 0)

LEMMA PutBehind ==
  ASSUME NEW p \in Seq(MsgType), NEW b \in Seq(MsgType), NEW q, q = p \o b, NEW x
  PROVE  /\ q \in Seq(MsgType)
         /\ Behind(p, b, q, x)
<1>1. q \in Seq(MsgType)
  OBVIOUS
<1>2. /\ \A t : Has(q, x, t) <=> Has(p, x, t) \/ Has(b, x, t)
      /\ ~Has(b, x, {"gone"}) /\ (HelloLast(p, x) \/ Has(b, x, {"hello"})) => HelloLast(q, x)
      /\ EndFirst(p, x) /\ EndFirst(b, x) => EndFirst(q, x)
      /\ \A n : TrueLast(b, x, n) /\ (TrueLast(p, x, n) \/ Has(b, x, {"name", "name_changed"}))
                 => TrueLast(q, x, n)
  BY JoinedKeeps
<1>3. \A T : Count(q, T) = Count(p, T) + Count(b, T)
  BY CountJoined
<1> QED BY <1>1, <1>2, <1>3, NothingToOrder DEF Behind

LEMMA PutLast ==
  ASSUME NEW p \in Seq(MsgType), NEW m \in MsgType, NEW q, q = Append(p, m), NEW x
  PROVE  /\ q \in Seq(MsgType)
         /\ Last(p, m, q, x)
<1>1. PICK b \in Seq(MsgType) : b = <<m>>
  BY OneIn
<1>2. q = p \o b /\ q \in Seq(MsgType)
  BY <1>1
<1>3. \A t : Has(b, x, t) <=> m.svc = x /\ m.type \in t
  BY <1>1, OneIn
<1>4. /\ \A t : Has(q, x, t) <=> Has(p, x, t) \/ Has(b, x, t)
      /\ ~Has(b, x, {"gone"}) /\ (HelloLast(p, x) \/ Has(b, x, {"hello"})) => HelloLast(q, x)
      /\ EndFirst(p, x) /\ EndFirst(b, x) => EndFirst(q, x)
      /\ \A n : TrueLast(b, x, n) /\ (TrueLast(p, x, n) \/ Has(b, x, {"name", "name_changed"}))
                 => TrueLast(q, x, n)
  BY <1>2, JoinedKeeps
<1>5. /\ ~Has(b, x, {"no_name"}) => EndFirst(b, x)
      /\ ~Has(b, x, {"name", "name_changed"}) => \A n : TrueLast(b, x, n)
  BY NothingToOrder
<1>6. TrueLast(b, x, m.name)
  <2>1. \A k \in DOMAIN b : b[k] = m
    BY <1>1
  <2> QED BY <2>1 DEF TrueLast
<1>7. Count(q, NameAnswers(x)) = Count(p, NameAnswers(x)) + (IF m.svc = x /\ m.type \in {"name", "no_name"} THEN 1 ELSE 0)
  <2>1. Count(q, NameAnswers(x)) = Count(p, NameAnswers(x)) + (IF m \in NameAnswers(x) THEN 1 ELSE 0)
    BY CountAppend
  <2>2. m \in NameAnswers(x) <=> m.svc = x /\ m.type \in {"name", "no_name"}
    BY DEF NameAnswers, Msgs
  <2> QED BY <2>1, <2>2
<1>8. Count(q, ListAnswers(x)) = Count(p, ListAnswers(x)) + (IF m.svc = x /\ m.type \in {"list", "no_list"} THEN 1 ELSE 0)
  <2>1. Count(q, ListAnswers(x)) = Count(p, ListAnswers(x)) + (IF m \in ListAnswers(x) THEN 1 ELSE 0)
    BY CountAppend
  <2>2. m \in ListAnswers(x) <=> m.svc = x /\ m.type \in {"list", "no_list"}
    BY DEF ListAnswers, Msgs
  <2> QED BY <2>1, <2>2
<1>9. ASSUME m.type # "gone", HelloLast(p, x)
      PROVE  HelloLast(q, x)
  BY <1>3, <1>4, <1>9
<1>10. ASSUME m.type = "hello", m.svc = x
       PROVE  HelloLast(q, x)
  BY <1>3, <1>4, <1>10
<1>11. ASSUME m.type # "no_name", EndFirst(p, x)
       PROVE  EndFirst(q, x)
  BY <1>3, <1>4, <1>5, <1>11
<1>12. ASSUME ~(m.svc = x /\ m.type \in {"name", "name_changed"}), NEW n, TrueLast(p, x, n)
       PROVE  TrueLast(q, x, n)
  BY <1>3, <1>4, <1>5, <1>12
<1>13. ASSUME m.svc = x, m.type \in {"name", "name_changed"}
       PROVE  TrueLast(q, x, m.name)
  BY <1>3, <1>4, <1>6, <1>13
<1> QED BY <1>2, <1>3, <1>4, <1>7, <1>8, <1>9, <1>10, <1>11, <1>12, <1>13 DEF Last

LEMMA Taken ==
  ASSUME NEW q \in Seq(MsgType), q # <<>>, NEW r, r = Tail(q), NEW m, m = Head(q), NEW x
  PROVE  /\ r \in Seq(MsgType) /\ m \in MsgType
         /\ First(m, r, q, x)
<1>1. r \in Seq(MsgType) /\ m \in MsgType
  BY TailKeeps
<1>2. Count(q, NameAnswers(x)) = Count(r, NameAnswers(x)) + (IF m.svc = x /\ m.type \in {"name", "no_name"} THEN 1 ELSE 0)
  <2>1. Count(q, NameAnswers(x)) = Count(r, NameAnswers(x)) + (IF m \in NameAnswers(x) THEN 1 ELSE 0)
    BY CountTail
  <2>2. m \in NameAnswers(x) <=> m.svc = x /\ m.type \in {"name", "no_name"}
    BY <1>1 DEF NameAnswers, Msgs
  <2> QED BY <2>1, <2>2
<1>3. Count(q, ListAnswers(x)) = Count(r, ListAnswers(x)) + (IF m.svc = x /\ m.type \in {"list", "no_list"} THEN 1 ELSE 0)
  <2>1. Count(q, ListAnswers(x)) = Count(r, ListAnswers(x)) + (IF m \in ListAnswers(x) THEN 1 ELSE 0)
    BY CountTail
  <2>2. m \in ListAnswers(x) <=> m.svc = x /\ m.type \in {"list", "no_list"}
    BY <1>1 DEF ListAnswers, Msgs
  <2> QED BY <2>1, <2>2
<1>4. /\ \A t : Has(q, x, t) <=> Has(r, x, t) \/ (m.svc = x /\ m.type \in t)
      /\ HelloLast(q, x) => HelloLast(r, x)
      /\ HelloLast(q, x) /\ m.svc = x /\ m.type = "gone" => Has(r, x, {"hello"})
      /\ EndFirst(q, x) /\ ~(m.svc = x /\ m.type = "gone") => EndFirst(r, x)
      /\ EndFirst(q, x) => ~(m.svc = x /\ m.type = "no_name")
      /\ \A n : TrueLast(q, x, n) =>
           /\ TrueLast(r, x, n)
           /\ \/ ~(m.svc = x /\ m.type \in {"name", "name_changed"})
              \/ m.name = n
              \/ Has(r, x, {"name", "name_changed"})
  BY TailKeeps
<1> QED BY <1>1, <1>2, <1>3, <1>4 DEF First

LEMMA CallPut ==
  ASSUME NEW q \in Seq(CallType), NEW c \in CallType, NEW t
  PROVE  /\ Append(q, c) \in Seq(CallType) /\ Count(q, Calls(t)) \in Nat
         /\ Count(Append(q, c), Calls(t)) = Count(q, Calls(t)) + (IF c.type = t THEN 1 ELSE 0)
<1>1. Append(q, c) \in Seq(CallType)
  OBVIOUS
<1>2. Count(q, Calls(t)) \in Nat
  BY CountType
<1>3. Count(Append(q, c), Calls(t)) = Count(q, Calls(t)) + (IF c \in Calls(t) THEN 1 ELSE 0)
  BY CountAppend
<1>4. c \in Calls(t) <=> c.type = t
  BY CallFields
<1> QED BY <1>1, <1>2, <1>3, <1>4

LEMMA CallTaken ==
  ASSUME NEW q \in Seq(CallType), q # <<>>, NEW t
  PROVE  /\ Tail(q) \in Seq(CallType) /\ Head(q) \in CallType /\ Count(Tail(q), Calls(t)) \in Nat
         /\ Count(q, Calls(t)) = Count(Tail(q), Calls(t)) + (IF Head(q).type = t THEN 1 ELSE 0)
<1>1. Tail(q) \in Seq(CallType) /\ Head(q) \in CallType
  OBVIOUS
<1>2. Count(Tail(q), Calls(t)) \in Nat
  BY <1>1, CountType
<1>3. Count(q, Calls(t)) = Count(Tail(q), Calls(t)) + (IF Head(q) \in Calls(t) THEN 1 ELSE 0)
  BY CountTail
<1>4. Head(q) \in Calls(t) <=> Head(q).type = t
  BY <1>1, CallFields
<1> QED BY <1>1, <1>2, <1>3, <1>4
\* The queue q is to the service x what the queue p was.
Alike(p, q, x) ==
  /\ \A t : Has(q, x, t) <=> Has(p, x, t)
  /\ HelloLast(p, x) => HelloLast(q, x)
  /\ EndFirst(p, x) => EndFirst(q, x)
  /\ \A n : TrueLast(p, x, n) => TrueLast(q, x, n)
  /\ Count(q, NameAnswers(x)) = Count(p, NameAnswers(x))
  /\ Count(q, ListAnswers(x)) = Count(p, ListAnswers(x))

LEMMA AlikeToOthers ==
  ASSUME NEW p \in Seq(MsgType), NEW x
  PROVE  /\ Alike(p, p, x)
         /\ \A m \in MsgType : m.svc # x => Alike(p, Append(p, m), x)
         /\ p # <<>> /\ Head(p).svc # x => Alike(p, Tail(p), x)
         /\ \A b \in Seq(MsgType) : (\A t : ~Has(b, x, t)) => Alike(p, p \o b, x)
<1>1. Count(p, NameAnswers(x)) \in Nat /\ Count(p, ListAnswers(x)) \in Nat
  BY Uncounted
<1>3. ASSUME p # <<>>, Head(p).svc # x
      PROVE  Alike(p, Tail(p), x)
  <2>1. PICK r, m : r = Tail(p) /\ m = Head(p)
    OBVIOUS
  <2>2. First(m, r, p, x) /\ r \in Seq(MsgType)
    BY <1>3, <2>1, Taken
  <2>3. Count(r, NameAnswers(x)) \in Nat /\ Count(r, ListAnswers(x)) \in Nat
    BY <2>2, Uncounted
  <2>4. Alike(p, r, x)
    BY <1>3, <2>1, <2>2, <2>3 DEF Alike, First
  <2> QED BY <2>1, <2>4
<1>4. ASSUME NEW b \in Seq(MsgType), \A t : ~Has(b, x, t)
      PROVE  Alike(p, p \o b, x)
  <2>1. PICK q : q = p \o b
    OBVIOUS
  <2>2. Behind(p, b, q, x)
    BY <2>1, PutBehind
  <2>3. Count(b, NameAnswers(x)) = 0 /\ Count(b, ListAnswers(x)) = 0
    BY <1>4, HasCount DEF NameAnswers, ListAnswers
  <2>4. Alike(p, q, x)
    BY <1>1, <1>4, <2>2, <2>3 DEF Alike, Behind
  <2> QED BY <2>1, <2>4
<1>5. ASSUME NEW m \in MsgType, m.svc # x
      PROVE  Alike(p, Append(p, m), x)
  <2>1. PICK b \in Seq(MsgType) : b = <<m>>
    BY OneIn
  <2>2. \A t : ~Has(b, x, t)
    BY <1>5, <2>1, OneIn
  <2>3. Append(p, m) = p \o b
    BY <2>1
  <2> QED BY <1>4, <2>2, <2>3
<1> QED BY <1>3, <1>4, <1>5 DEF Alike

-----------------------------------------------------------------------------
(* The steps of the bus and of the extensions *)

\* A service that a step does nothing to, but for the messages of others.
LEMMA Untouched ==
  ASSUME NEW x \in Services, Service(x),
         x \in owned' <=> x \in owned, x \in announced' <=> x \in announced, name'[x] = name[x],
         toExt'[x] = toExt[x], proxy'[x] = proxy[x], pname'[x] = pname[x],
         x \in held' <=> x \in held, x \in matched' <=> x \in matched, rules'[x] = rules[x],
         x \in outlived' <=> x \in outlived, x \in blocked' <=> x \in blocked,
         UNCHANGED init,
         Alike(inbox, inbox', x)
  PROVE  Service(x)'
<1>1. UNCHANGED <<tracking, inits, listed>>
  BY DEF init
<1>2. Handshake(x)'
  BY DEF Alike, Service, Handshake
<1>3. Listened(x)'
  BY <1>1 DEF Alike, Service, Listened
<1>4. Heard(x)'
  BY <1>1 DEF Alike, Service, Heard, Attached
<1>5. Ended(x)'
  BY DEF Alike, Service, Ended, Attached
<1>6. Called(x)'
  BY DEF Alike, Service, Called
<1> QED BY <1>2, <1>3, <1>4, <1>5, <1>6 DEF Service

LEMMA AppearKeeps ==
  ASSUME Inv, NEW s \in Services, Appear(s)
  PROVE  TypeInv' /\ \A x \in Services : Service(x)'
<1>1. TypeInv'
  BY DEF Appear, Inv, TypeInv, init
<1>2. ASSUME NEW x \in Services, x # s
      PROVE  Service(x)'
  BY <1>2, AlikeToOthers, Untouched DEF Appear, Inv, TypeInv
<1>3. Service(s)'
  <2>1. s \notin announced' /\ s \in owned' /\ UNCHANGED <<inbox, toExt, name, proxy, pname, held, matched, rules, outlived, tracking, inits>>
    BY DEF Appear, Inv, TypeInv, init
  <2>2. Service(s)
    BY DEF Inv
  <2>3. Handshake(s)' /\ Listened(s)' /\ Heard(s)' /\ Ended(s)' /\ Called(s)'
    BY <2>1, <2>2 DEF Service, Handshake, Listened, Heard, Ended, Called, Attached
  <2> QED BY <2>3 DEF Service
<1> QED BY <1>1, <1>2, <1>3

LEMMA AnnounceKeeps ==
  ASSUME Inv, NEW s \in Services, Announce(s)
  PROVE  TypeInv' /\ \A x \in Services : Service(x)'
<1>1. PICK m \in MsgType : m = Msg("hello", s) /\ m.svc = s /\ m.type = "hello"
  BY MsgIs
<1>2. inbox \in Seq(MsgType) /\ Append(inbox, m) \in Seq(MsgType)
  BY DEF Inv, TypeInv
<1>3. inbox' = IF inits > 0 THEN Append(inbox, m) ELSE inbox
  BY <1>1 DEF Announce
<1>4. TypeInv'
  <2>1. inbox' \in Seq(MsgType)
    BY <1>2, <1>3
  <2> QED BY <2>1 DEF Announce, Inv, TypeInv, init, app
<1>5. ASSUME NEW x \in Services, x # s
      PROVE  Service(x)'
  <2>1. CASE inits > 0
    <3>1. Alike(inbox, inbox', x)
      BY <1>1, <1>2, <1>3, <1>5, <2>1, AlikeToOthers
    <3> QED BY <1>5, <3>1, Untouched DEF Announce, Inv, app
  <2>2. CASE ~(inits > 0)
    BY <1>2, <1>3, <1>5, <2>2, AlikeToOthers, Untouched DEF Announce, Inv, app
  <2> QED BY <2>1, <2>2
<1>6. Service(s)'
  <2>1. /\ s \in announced' /\ inits \in Nat
        /\ UNCHANGED <<owned, toExt, name, proxy, pname, held, matched, rules, outlived, blocked, tracking, inits, listed>>
    BY DEF Announce, Inv, TypeInv, init, app
  <2>2. Service(s)
    BY DEF Inv
  <2>3. CASE inits > 0
    <3>1. Last(inbox, m, inbox', s) /\ Count(inbox, NameAnswers(s)) \in Nat /\ Count(inbox, ListAnswers(s)) \in Nat
      BY <1>2, <1>3, <2>3, PutLast, Uncounted
    <3>2. Handshake(s)'
      BY <1>1, <2>1, <2>2, <3>1 DEF Last, Service, Handshake
    <3>3. Listened(s)'
      BY <1>1, <2>1, <2>2, <3>1 DEF Last, Service, Listened
    <3>4. Heard(s)'
      BY <1>1, <2>1, <2>2, <3>1 DEF Last, Service, Heard
    <3>5. Ended(s)'
      BY <1>1, <2>1, <2>2, <3>1 DEF Last, Service, Ended, Attached
    <3>6. Called(s)'
      BY <1>1, <2>1, <2>2, <3>1 DEF Last, Service, Called
    <3> QED BY <3>2, <3>3, <3>4, <3>5, <3>6 DEF Service
  <2>4. CASE ~(inits > 0)
    <3>1. inbox' = inbox /\ tracking = "off" /\ ~Has(inbox, s, {"gone"})
      BY <1>3, <2>2, <2>4 DEF Service, Listened, Inv, TypeInv
    <3>2. Heard(s)'
      BY <2>1, <3>1, NothingToOrder DEF Heard
    <3> QED BY <2>1, <2>2, <3>1, <3>2 DEF Service, Handshake, Listened, Ended, Called, Attached
  <2> QED BY <2>3, <2>4
<1> QED BY <1>4, <1>5, <1>6

LEMMA DepartKeeps ==
  ASSUME Inv, NEW s \in Services, Depart(s)
  PROVE  TypeInv' /\ \A x \in Services : Service(x)'
<1>1. TypeInv
  BY DEF Inv
<1>2. PICK block \in Seq(MsgType) :
        /\ inbox' = inbox \o block
        /\ \A x : x # s => \A t : ~Has(block, x, t)
        /\ ~Has(block, s, {"hello", "name", "name_changed"})
        /\ Has(block, s, {"gone"}) <=> rules[s] > 0
        /\ Count(block, NameAnswers(s)) = Count(toExt[s], Calls("get_name"))
        /\ Count(block, ListAnswers(s)) = Count(toExt[s], Calls("list_properties"))
        /\ rules[s] > 0 => EndFirst(block, s)
  BY <1>1, DepartIs
<1>3. inbox \in Seq(MsgType) /\ inbox \o block \in Seq(MsgType)
  BY DEF Inv, TypeInv
<1>4. TypeInv'
  <2>1. toExt' \in [Services -> Seq(CallType)]
    <3>1. <<>> \in Seq(CallType)
      OBVIOUS
    <3> QED BY <3>1 DEF Depart, Inv, TypeInv
  <2> QED BY <1>2, <1>3, <2>1 DEF Depart, Inv, TypeInv, init
<1>5. ASSUME NEW x \in Services, x # s
      PROVE  Service(x)'
  <2>1. Alike(inbox, inbox', x)
    BY <1>2, <1>3, <1>5, AlikeToOthers
  <2> QED BY <1>5, <2>1, Untouched DEF Depart, Inv, TypeInv
<1>6. Service(s)'
  <2>1. /\ s \notin owned' /\ s \notin announced' /\ toExt'[s] = <<>>
        /\ s \in outlived' <=> s \in outlived \/ (rules[s] = 0 /\ proxy[s] # "none")
        /\ UNCHANGED <<name, proxy, pname, held, matched, rules, blocked, tracking, inits, listed>>
    BY <1>1 DEF Depart, TypeInv, init
  <2>2. Service(s) /\ rules[s] \in Nat
    BY DEF Inv, TypeInv
  <2>3. ~Has(block, s, {"name", "name_changed"}) /\ ~Has(block, s, {"hello"})
    BY <1>2 DEF Has, Msgs
  <2>4. Count(toExt'[s], Calls("get_name")) = 0 /\ Count(toExt'[s], Calls("list_properties")) = 0
    BY <2>1, NothingIn
  <2>5. /\ Count(toExt[s], Calls("get_name")) \in Nat /\ Count(toExt[s], Calls("list_properties")) \in Nat
        /\ Count(inbox, NameAnswers(s)) \in Nat /\ Count(inbox, ListAnswers(s)) \in Nat
    <3>1. toExt[s] \in Seq(CallType)
      BY <1>1 DEF TypeInv
    <3> QED BY <1>3, <3>1, CountType, Uncounted
  <2> Behind(inbox, block, inbox', s)
    BY <1>2, <1>3, PutBehind
  <2>6. Handshake(s)'
    BY <1>2, <2>1, <2>2, <2>4, <2>5 DEF Behind, Service, Handshake
  <2>7. Listened(s)'
    BY <1>2, <2>1, <2>2, <2>3 DEF Behind, Service, Listened
  <2>8. Heard(s)'
    BY <2>1 DEF Heard
  <2>9. Ended(s)'
    <3>1. s \notin outlived' => EndFirst(block, s)
      <4>1. CASE rules[s] > 0
        BY <1>2, <4>1
      <4>2. CASE proxy[s] = "none"
        <5>1. Count(block, NameAnswers(s)) = 0
          BY <1>2, <2>2, <2>5, <4>2 DEF Service, Handshake
        <5> QED BY <5>1, Uncounted
      <4> QED BY <2>1, <2>2, <4>1, <4>2
    <3> QED BY <1>2, <2>1, <2>2, <3>1 DEF Behind, Service, Ended, Attached
  <2>10. Called(s)'
    BY <1>2, <2>1, <2>2, <2>3 DEF Behind, Service, Called
  <2> QED BY <2>6, <2>7, <2>8, <2>9, <2>10 DEF Service
<1> QED BY <1>4, <1>5, <1>6
LEMMA RenameKeeps ==
  ASSUME Inv, NEW s \in Services, NEW n \in Names, Rename(s, n)
  PROVE  TypeInv' /\ \A x \in Services : Service(x)'
<1>1. PICK m \in MsgType :
        m = NameMsg("name_changed", s, n) /\ m.svc = s /\ m.type = "name_changed" /\ m.name = n
  BY MsgIs
<1>2. inbox \in Seq(MsgType) /\ Append(inbox, m) \in Seq(MsgType)
  BY DEF Inv, TypeInv
<1>3. inbox' = IF s \in matched THEN Append(inbox, m) ELSE inbox
  BY <1>1 DEF Rename, NameChanged
<1>4. TypeInv'
  <2>1. inbox' \in Seq(MsgType)
    BY <1>2, <1>3
  <2> QED BY <2>1 DEF Rename, Inv, TypeInv, init, app
<1>5. ASSUME NEW x \in Services, x # s
      PROVE  Service(x)'
  <2>1. Alike(inbox, inbox', x)
    BY <1>1, <1>2, <1>3, <1>5, AlikeToOthers
  <2> QED BY <1>5, <2>1, Untouched DEF Rename, Inv, TypeInv, app
<1>6. Service(s)'
  <2>1. /\ name'[s] = n
        /\ UNCHANGED <<owned, announced, toExt, proxy, pname, held, matched, rules, outlived, blocked, tracking, inits, listed>>
    BY DEF Rename, Inv, TypeInv, init, app
  <2>2. Service(s)
    BY DEF Inv
  <2>3. CASE s \in matched
    <3> Last(inbox, m, inbox', s) /\ Count(inbox, NameAnswers(s)) \in Nat /\ Count(inbox, ListAnswers(s)) \in Nat
      BY <1>2, <1>3, <2>3, PutLast, Uncounted
    <3>1. Handshake(s)'
      BY <1>1, <2>1, <2>2 DEF Last, Service, Handshake
    <3>2. Listened(s)'
      BY <1>1, <2>1, <2>2, <2>3 DEF Last, Service, Listened
    <3>3. Heard(s)'
      BY <1>1, <2>1, <2>2 DEF Last, Service, Heard, Attached
    <3>4. Ended(s)'
      BY <1>1, <2>1, <2>2 DEF Last, Service, Ended, Attached
    <3>5. Called(s)'
      BY <1>1, <2>1, <2>2 DEF Last, Service, Called
    <3> QED BY <3>1, <3>2, <3>3, <3>4, <3>5 DEF Service
  <2>4. CASE s \notin matched
    <3>1. inbox' = inbox /\ proxy[s] = "none" /\ ~Has(inbox, s, {"name", "name_changed"})
      BY <1>3, <2>2, <2>4 DEF Service, Listened
    <3>2. Called(s)'
      BY <2>1, <3>1, NothingToOrder DEF Called
    <3> QED BY <2>1, <2>2, <3>1, <3>2 DEF Service, Handshake, Listened, Heard, Ended, Attached
  <2> QED BY <2>3, <2>4
<1> QED BY <1>4, <1>5, <1>6

LEMMA HandleCallKeeps ==
  ASSUME Inv, NEW s \in Services, HandleCall(s)
  PROVE  TypeInv' /\ \A x \in Services : Service(x)'
<1>1. PICK q \in Seq(CallType) : q = toExt[s]
  BY DEF Inv, TypeInv
<1>2. PICK c \in CallType : c = Head(q)
  BY <1>1 DEF HandleCall
<1>3. PICK r \in Seq(CallType) : r = Tail(q)
  <2>1. Tail(q) \in Seq(CallType)
    BY <1>1 DEF HandleCall
  <2> QED BY <2>1
<1>4. /\ toExt' \in [Services -> Seq(CallType)] /\ toExt'[s] = r
      /\ \A x \in Services : x # s => toExt'[x] = toExt[x]
  BY <1>1, <1>3 DEF HandleCall, Inv, TypeInv
<1>5. \A t : Count(q, Calls(t)) = Count(r, Calls(t)) + (IF c.type = t THEN 1 ELSE 0) /\ Count(r, Calls(t)) \in Nat
  BY <1>1, <1>2, <1>3, CallTaken DEF HandleCall
<1>6. inbox \in Seq(MsgType) /\ name[s] \in Names
  BY DEF Inv, TypeInv
<1>7. /\ Count(inbox, NameAnswers(s)) \in Nat /\ Count(inbox, ListAnswers(s)) \in Nat
  BY <1>6, Uncounted
<1>8. /\ Service(s)
      /\ UNCHANGED <<owned, announced, proxy, pname, held, matched, rules, outlived, blocked, tracking, inits, listed>>
  BY DEF HandleCall, Inv, init, app
<1>9. ASSUME NEW m \in MsgType, m.svc = s, inbox' = Append(inbox, m), name' \in [Services -> Names],
             \A x \in Services : x # s => name'[x] = name[x]
      PROVE  /\ TypeInv' /\ Last(inbox, m, inbox', s)
             /\ \A x \in Services : x # s => Service(x)'
  <2>1. TypeInv'
    <3>1. inbox' \in Seq(MsgType)
      BY <1>6, <1>9
    <3> QED BY <1>4, <1>9, <3>1 DEF HandleCall, Inv, TypeInv, init, app
  <2>2. Last(inbox, m, inbox', s)
    BY <1>6, <1>9, PutLast
  <2>3. ASSUME NEW x \in Services, x # s
        PROVE  Service(x)'
    <3>1. Alike(inbox, inbox', x)
      BY <1>6, <1>9, <2>3, AlikeToOthers
    <3> QED BY <1>4, <1>9, <2>3, <3>1, Untouched DEF HandleCall, Inv, app
  <2> QED BY <2>1, <2>2, <2>3
<1>10. CASE c.type = "get_name"
  <2>1. PICK m \in MsgType : m = NameMsg("name", s, name[s]) /\ m.svc = s /\ m.type = "name" /\ m.name = name[s]
    BY <1>6, MsgIs
  <2>2. inbox' = Append(inbox, m) /\ name' = name
    BY <1>1, <1>2, <1>10, <2>1 DEF HandleCall
  <2> /\ TypeInv' /\ Last(inbox, m, inbox', s)
      /\ \A x \in Services : x # s => Service(x)'
    BY <1>9, <2>1, <2>2 DEF Inv, TypeInv
  <2>3. proxy[s] = "naming" /\ s \in matched
    BY <1>1, <1>5, <1>7, <1>8, <1>10 DEF Service, Handshake, Listened
  <2>4. Handshake(s)'
    BY <1>1, <1>4, <1>5, <1>7, <1>8, <1>10, <2>1 DEF Last, Service, Handshake
  <2>5. Listened(s)'
    BY <1>8, <2>1, <2>3 DEF Last, Service, Listened
  <2>6. Heard(s)'
    BY <1>8, <2>1 DEF Last, Service, Heard, Attached
  <2>7. Ended(s)'
    BY <1>8, <2>1 DEF Last, Service, Ended, Attached
  <2>8. Called(s)'
    BY <1>8, <2>1, <2>2 DEF Last, Service, Called
  <2> QED BY <2>4, <2>5, <2>6, <2>7, <2>8 DEF Service
<1>11. CASE c.type = "list_properties"
  <2>1. PICK m \in MsgType : m = Msg("list", s) /\ m.svc = s /\ m.type = "list"
    BY MsgIs
  <2>2. inbox' = Append(inbox, m) /\ name' = name
    BY <1>1, <1>2, <1>11, <2>1 DEF HandleCall
  <2> /\ TypeInv' /\ Last(inbox, m, inbox', s)
      /\ \A x \in Services : x # s => Service(x)'
    BY <1>9, <2>1, <2>2 DEF Inv, TypeInv
  <2>3. Handshake(s)'
    BY <1>1, <1>4, <1>5, <1>7, <1>8, <1>11, <2>1 DEF Last, Service, Handshake
  <2>4. Listened(s)'
    BY <1>8, <2>1 DEF Last, Service, Listened
  <2>5. Heard(s)'
    BY <1>8, <2>1 DEF Last, Service, Heard, Attached
  <2>6. Ended(s)'
    BY <1>8, <2>1 DEF Last, Service, Ended, Attached
  <2>7. Called(s)'
    BY <1>1, <1>4, <1>5, <1>8, <1>11, <2>1, <2>2 DEF Last, Service, Called
  <2> QED BY <2>3, <2>4, <2>5, <2>6, <2>7 DEF Service
<1>12. CASE c.type = "set_name"
  <2>1. c.name \in Names
    BY <1>12, CallFields
  <2>2. PICK m \in MsgType : m = NameMsg("name_changed", s, c.name) /\ m.svc = s /\ m.type = "name_changed" /\ m.name = c.name
    BY <2>1, MsgIs
  <2>3. /\ inbox' = IF s \in matched THEN Append(inbox, m) ELSE inbox
        /\ name' \in [Services -> Names] /\ name'[s] = c.name
        /\ \A x \in Services : x # s => name'[x] = name[x]
    BY <1>1, <1>2, <1>12, <2>1, <2>2 DEF HandleCall, NameChanged, Inv, TypeInv
  <2>4. CASE s \in matched
    <3> /\ TypeInv' /\ Last(inbox, m, inbox', s)
        /\ \A x \in Services : x # s => Service(x)'
      BY <1>9, <2>2, <2>3, <2>4
    <3>1. Handshake(s)'
      BY <1>1, <1>4, <1>5, <1>7, <1>8, <1>12, <2>2 DEF Last, Service, Handshake
    <3>2. Listened(s)'
      BY <1>8, <2>2, <2>4 DEF Last, Service, Listened
    <3>3. Heard(s)'
      BY <1>8, <2>2 DEF Last, Service, Heard, Attached
    <3>4. Ended(s)'
      BY <1>8, <2>2 DEF Last, Service, Ended, Attached
    <3>5. Called(s)'
      BY <1>8, <2>2, <2>3 DEF Last, Service, Called
    <3> QED BY <3>1, <3>2, <3>3, <3>4, <3>5 DEF Service
  <2>5. CASE s \notin matched
    <3>1. inbox' = inbox /\ proxy[s] = "none" /\ ~Has(inbox, s, {"name", "name_changed"})
      BY <1>8, <2>3, <2>5 DEF Service, Listened
    <3>2. TypeInv'
      BY <1>4, <2>3, <3>1 DEF HandleCall, Inv, TypeInv, init, app
    <3>3. ASSUME NEW x \in Services, x # s
          PROVE  Service(x)'
      <4>1. Alike(inbox, inbox', x)
        BY <1>6, <3>1, AlikeToOthers
      <4> QED BY <1>4, <2>3, <3>3, <4>1, Untouched DEF HandleCall, Inv, app
    <3>4. Called(s)'
      BY <1>8, <3>1, NothingToOrder DEF Called
    <3>5. Handshake(s)'
      BY <1>1, <1>4, <1>5, <1>8, <1>12, <3>1 DEF Service, Handshake
    <3>6. Listened(s)' /\ Heard(s)' /\ Ended(s)'
      BY <1>8, <3>1 DEF Service, Listened, Heard, Ended, Attached
    <3> QED BY <3>2, <3>3, <3>4, <3>5, <3>6 DEF Service
  <2> QED BY <2>4, <2>5
<1> QED BY <1>10, <1>11, <1>12, CallFields
-----------------------------------------------------------------------------
(* The messages at the application *)

LEMMA NameOwnerChangedKeeps ==
  ASSUME Inv, NameOwnerChanged
  PROVE  TypeInv' /\ \A x \in Services : Service(x)'
<1>1. inbox \in Seq(MsgType) /\ inbox # <<>>
  BY DEF NameOwnerChanged, Message, Inv, TypeInv
<1>2. PICK m \in MsgType : m = Head(inbox)
  BY <1>1
<1>3. PICK s \in Services : s = m.svc
  BY MsgFields
<1>4. m.type = "gone" /\ inbox' = Tail(inbox) /\ inbox' \in Seq(MsgType)
  BY <1>1, <1>2 DEF NameOwnerChanged, Message
<1>5. /\ UNCHANGED <<owned, announced, name, toExt, tracking, inits, listed, pname, held, matched, blocked>>
      /\ UNCHANGED <<lives, refused, renames>>
  BY DEF NameOwnerChanged, bus, init
<1>6. /\ proxy' \in [Services -> Stages] /\ rules' \in [Services -> Nat] /\ outlived' \subseteq Services
      /\ \A x \in Services : x # s => /\ proxy'[x] = proxy[x] /\ rules'[x] = rules[x]
                                      /\ x \in outlived' <=> x \in outlived
      /\ rules'[s] > 0 => rules[s] > 0
      /\ \/ /\ proxy[s] = "registered"
            /\ proxy'[s] = IF s \in held THEN "kept" ELSE "none"
            /\ s \notin outlived'
         \/ /\ proxy'[s] = proxy[s] /\ s \in outlived' /\ proxy[s] # "none"
         \/ /\ proxy'[s] = proxy[s] /\ proxy[s] \in {"none", "kept"}
            /\ s \in outlived' <=> s \in outlived
  <2>1. CASE tracking = "on" /\ proxy[s] = "registered"
    <3>1. Removed(s) /\ Unmatched(s) /\ outlived' = outlived \ {s}
      BY <1>2, <1>3, <2>1 DEF NameOwnerChanged
    <3>2. proxy' = [x \in Services |-> IF x = s THEN (IF s \in held THEN "kept" ELSE "none") ELSE proxy[x]]
      BY <3>1 DEF Removed, Disposed, Inv, TypeInv
    <3>3. rules' = [x \in Services |-> IF x = s THEN (IF rules[s] > 0 THEN rules[s] - 1 ELSE 0) ELSE rules[x]]
      BY <3>1 DEF Unmatched, Inv, TypeInv
    <3> QED BY <2>1, <3>1, <3>2, <3>3 DEF Inv, TypeInv, Stages
  <2>2. CASE tracking = "on" /\ proxy[s] # "registered"
    <3>1. /\ UNCHANGED proxy /\ Unmatched(s)
          /\ outlived' = IF InHandshake(s) THEN outlived \cup {s} ELSE outlived
      BY <1>2, <1>3, <2>2 DEF NameOwnerChanged
    <3> QED BY <2>2, <3>1 DEF InHandshake, Unmatched, Inv, TypeInv, Stages
  <2>3. CASE tracking # "on"
    <3>1. /\ UNCHANGED <<proxy, rules>>
          /\ outlived' = IF proxy[s] = "none" THEN outlived ELSE outlived \cup {s}
      BY <1>2, <1>3, <2>3 DEF NameOwnerChanged
    <3> QED BY <2>3, <3>1 DEF Inv, TypeInv, Stages
  <2> QED BY <2>1, <2>2, <2>3
<1>7. TypeInv'
  <2>1. connrefs' \in Int
    <3>1. Cardinality({s}) = 1
      BY FS_Singleton
    <3> QED BY <1>2, <1>3, <3>1 DEF NameOwnerChanged, Removed, Disposed, Inv, TypeInv
  <2> QED BY <1>4, <1>5, <1>6, <2>1 DEF Inv, TypeInv
<1>8. ASSUME NEW x \in Services, x # s
      PROVE  Service(x)'
  <2>1. Alike(inbox, inbox', x)
    BY <1>1, <1>2, <1>3, <1>4, <1>8, AlikeToOthers
  <2> QED BY <1>5, <1>6, <1>8, <2>1, Untouched DEF Inv, init
<1>9. Service(s)'
  <2>1. Service(s) /\ proxy[s] \in Stages
    BY DEF Inv, TypeInv
  <2>2. First(m, inbox', inbox, s)
    BY <1>1, <1>2, <1>4, Taken
  <2>3. /\ Count(toExt[s], Calls("get_name")) \in Nat
        /\ Count(inbox', NameAnswers(s)) = Count(inbox, NameAnswers(s))
        /\ Count(inbox', ListAnswers(s)) = Count(inbox, ListAnswers(s))
        /\ Count(inbox', NameAnswers(s)) \in Nat /\ Count(inbox', ListAnswers(s)) \in Nat
        /\ Count(inbox', NameAnswers(s)) = 0 => EndFirst(inbox', s)
    <3>1. toExt[s] \in Seq(CallType)
      BY DEF Inv, TypeInv
    <3>2. Count(toExt[s], Calls("get_name")) \in Nat
      BY <3>1, CountType
    <3>3. /\ Count(inbox', NameAnswers(s)) \in Nat /\ Count(inbox', ListAnswers(s)) \in Nat
          /\ Count(inbox', NameAnswers(s)) = 0 => EndFirst(inbox', s)
      BY <1>4, Uncounted
    <3> QED BY <1>4, <2>2, <3>2, <3>3 DEF First
  <2>4. Handshake(s)'
    BY <1>5, <1>6, <2>1, <2>3 DEF Service, Handshake
  <2>5. Listened(s)'
    BY <1>3, <1>4, <1>5, <1>6, <2>1, <2>2 DEF First, Service, Listened
  <2>6. Heard(s)'
    BY <1>3, <1>4, <1>5, <1>6, <2>1, <2>2 DEF First, Service, Heard, Attached
  <2>7. Ended(s)'
    <3>1. proxy[s] # "naming" => EndFirst(inbox', s)
      BY <2>1, <2>3 DEF Service, Handshake
    <3> QED BY <1>5, <1>6, <3>1 DEF Ended, Attached
  <2>8. Called(s)'
    BY <1>3, <1>4, <1>5, <1>6, <2>1, <2>2 DEF First, Service, Called
  <2> QED BY <2>4, <2>5, <2>6, <2>7, <2>8 DEF Service
<1> QED BY <1>7, <1>8, <1>9

LEMMA GotPropListsKeeps ==
  ASSUME Inv, got_prop_lists
  PROVE  /\ TypeInv' /\ \A x \in Services : Service(x)'
         /\ \A x \in Services : proxy'[x] # "none" <=> proxy[x] # "none"
<1>1. inbox \in Seq(MsgType) /\ inbox # <<>>
  BY DEF got_prop_lists, Message, Inv, TypeInv
<1>2. PICK m \in MsgType : m = Head(inbox)
  BY <1>1
<1>3. PICK s \in Services : s = m.svc
  BY MsgFields
<1>4. m.type \in {"list", "no_list"} /\ inbox' = Tail(inbox) /\ inbox' \in Seq(MsgType)
  BY <1>1, <1>2 DEF got_prop_lists, Message
<1>5. /\ UNCHANGED <<owned, announced, name, toExt, tracking, inits, listed, pname, held, matched, rules, outlived, blocked>>
      /\ UNCHANGED <<lives, refused, renames, connrefs>>
  BY DEF got_prop_lists, bus, init
<1>6. /\ proxy' \in [Services -> Stages] /\ proxy'[s] = "registered"
      /\ \A x \in Services : x # s => proxy'[x] = proxy[x]
  BY <1>2, <1>3 DEF got_prop_lists, Inv, TypeInv, Stages
<1>7. TypeInv'
  BY <1>4, <1>5, <1>6 DEF Inv, TypeInv
<1>8. ASSUME NEW x \in Services, x # s
      PROVE  Service(x)'
  <2>1. Alike(inbox, inbox', x)
    BY <1>1, <1>2, <1>3, <1>4, <1>8, AlikeToOthers
  <2> QED BY <1>5, <1>6, <1>8, <2>1, Untouched DEF Inv, init
<1>9. Service(s) /\ First(m, inbox', inbox, s)
  BY <1>1, <1>2, <1>4, Taken DEF Inv
<1>10. /\ Count(toExt[s], Calls("list_properties")) \in Nat /\ Count(toExt[s], Calls("get_name")) \in Nat
       /\ Count(inbox', NameAnswers(s)) \in Nat /\ Count(inbox', ListAnswers(s)) \in Nat
  <2>1. toExt[s] \in Seq(CallType)
    BY DEF Inv, TypeInv
  <2> QED BY <1>4, <2>1, CountType, Uncounted
<1>11. proxy[s] = "listing"
  BY <1>3, <1>4, <1>9, <1>10 DEF First, Service, Handshake
<1>12. Service(s)'
  <2>1. Handshake(s)'
    BY <1>3, <1>4, <1>5, <1>6, <1>9, <1>10, <1>11 DEF First, Service, Handshake
  <2>2. Listened(s)'
    BY <1>3, <1>4, <1>5, <1>6, <1>9, <1>11 DEF First, Service, Listened
  <2>3. Heard(s)'
    BY <1>3, <1>4, <1>5, <1>6, <1>9, <1>11 DEF First, Service, Heard, Attached
  <2>4. Ended(s)'
    BY <1>3, <1>4, <1>5, <1>6, <1>9, <1>11 DEF First, Service, Ended, Attached
  <2>5. Called(s)'
    BY <1>3, <1>4, <1>5, <1>6, <1>9, <1>11 DEF First, Service, Called
  <2> QED BY <2>1, <2>2, <2>3, <2>4, <2>5 DEF Service
<1> QED BY <1>6, <1>7, <1>8, <1>11, <1>12

LEMMA NameChangedKeeps ==
  ASSUME Inv, handle_extension_name_changed
  PROVE  TypeInv' /\ \A x \in Services : Service(x)'
<1>1. inbox \in Seq(MsgType) /\ inbox # <<>>
  BY DEF handle_extension_name_changed, Message, Inv, TypeInv
<1>2. PICK m \in MsgType : m = Head(inbox)
  BY <1>1
<1>3. PICK s \in Services : s = m.svc
  BY MsgFields
<1>4. m.type = "name_changed" /\ inbox' = Tail(inbox) /\ inbox' \in Seq(MsgType)
  BY <1>1, <1>2 DEF handle_extension_name_changed, Message
<1>5. /\ UNCHANGED <<owned, announced, name, toExt, tracking, inits, listed, proxy, held, matched, rules, outlived, blocked>>
      /\ UNCHANGED <<lives, refused, renames, connrefs>>
  BY DEF handle_extension_name_changed, bus, init
<1>6. /\ pname' \in [Services -> Names \cup {NoName}]
      /\ proxy[s] # "none" => pname'[s] = m.name
      /\ \A x \in Services : x # s => pname'[x] = pname[x]
  <2>1. m.name \in Names
    BY <1>4, MsgFields
  <2> QED BY <1>2, <1>3, <2>1 DEF handle_extension_name_changed, Listening, Inv, TypeInv
<1>7. TypeInv'
  BY <1>4, <1>5, <1>6 DEF Inv, TypeInv
<1>8. ASSUME NEW x \in Services, x # s
      PROVE  Service(x)'
  <2>1. Alike(inbox, inbox', x)
    BY <1>1, <1>2, <1>3, <1>4, <1>8, AlikeToOthers
  <2> QED BY <1>5, <1>6, <1>8, <2>1, Untouched DEF Inv, init
<1>9. Service(s)'
  <2>1. Service(s) /\ First(m, inbox', inbox, s)
    BY <1>1, <1>2, <1>4, Taken DEF Inv
  <2>2. Count(inbox', NameAnswers(s)) \in Nat /\ Count(inbox', ListAnswers(s)) \in Nat
    BY <1>4, Uncounted
  <2>3. Handshake(s)'
    BY <1>3, <1>4, <1>5, <2>1, <2>2 DEF First, Service, Handshake
  <2>4. Listened(s)'
    BY <1>3, <1>4, <1>5, <2>1 DEF First, Service, Listened
  <2>5. Heard(s)'
    BY <1>3, <1>4, <1>5, <2>1 DEF First, Service, Heard, Attached
  <2>6. Ended(s)'
    BY <1>3, <1>4, <1>5, <2>1 DEF First, Service, Ended, Attached
  <2>7. Called(s)'
    BY <1>3, <1>4, <1>5, <1>6, <2>1 DEF First, Service, Called
  <2> QED BY <2>3, <2>4, <2>5, <2>6, <2>7 DEF Service
<1> QED BY <1>7, <1>8, <1>9
LEMMA GotNameKeeps ==
  ASSUME Inv, got_name
  PROVE  /\ TypeInv' /\ \A x \in Services : Service(x)'
         /\ \A x \in Services : proxy'[x] # "none" <=> proxy[x] # "none"
<1>1. inbox \in Seq(MsgType) /\ inbox # <<>>
  BY DEF got_name, Message, Inv, TypeInv
<1>2. PICK m \in MsgType : m = Head(inbox)
  BY <1>1
<1>3. PICK s \in Services : s = m.svc
  BY MsgFields
<1>4. PICK rest \in Seq(MsgType) : rest = Tail(inbox)
  <2>1. Tail(inbox) \in Seq(MsgType)
    BY <1>1
  <2> QED BY <2>1
<1>5. PICK c \in CallType : c = [type |-> "list_properties"] /\ c.type = "list_properties"
  <2>1. [type |-> "list_properties"] \in CallType
    BY DEF CallType
  <2> QED BY <2>1
<1>6. /\ m.type \in {"name", "no_name"}
      /\ Send({s}, c, rest)
      /\ pname' = IF m.type = "name" THEN [pname EXCEPT ![s] = m.name] ELSE pname
      /\ proxy' = [proxy EXCEPT ![s] = "listing"]
  BY <1>2, <1>3, <1>4, <1>5 DEF got_name, Message
<1>7. /\ UNCHANGED <<owned, announced, name, tracking, inits, listed, held, matched, rules, outlived, blocked>>
      /\ UNCHANGED <<lives, refused, renames, connrefs>>
  BY DEF got_name, bus, init
<1>8. /\ toExt' \in [Services -> Seq(CallType)]
      /\ \A x \in Services : toExt'[x] = IF x = s /\ x \in owned THEN Append(toExt[x], c) ELSE toExt[x]
      /\ \E block \in Seq(MsgType) :
           /\ inbox' = rest \o block
           /\ \A x \in Services : \A t :
                Count(block, Msgs(x, t)) = IF x = s /\ s \notin owned /\ "no_list" \in t THEN 1 ELSE 0
  <2>1. PICK S \in SUBSET Services : S = {s}
    OBVIOUS
  <2>2. PICK block \in Seq(MsgType) : Sent(S, c, rest, block)
    <3>1. TypeInv /\ Send(S, c, rest)
      BY <1>6, <2>1 DEF Inv
    <3> QED BY <3>1, SendIs
  <2>3. WantsAnswer(c) /\ \A x : NoAnswer(c, x).type = "no_list"
    BY <1>5 DEF WantsAnswer, NoAnswer, Msg
  <2>4. \A x \in Services : \A t :
          Count(block, Msgs(x, t)) = IF x = s /\ s \notin owned /\ "no_list" \in t THEN 1 ELSE 0
    <3>1. ASSUME NEW x \in Services, NEW t
          PROVE  /\ Count(block, Msgs(x, t)) =
                      IF WantsAnswer(c) /\ x \in S \ owned /\ NoAnswer(c, x).type \in t THEN 1 ELSE 0
                 /\ WantsAnswer(c) /\ x \in S \ owned /\ NoAnswer(c, x).type \in t
                      <=> x = s /\ s \notin owned /\ "no_list" \in t
      <4>1. Count(block, Msgs(x, t)) =
              IF WantsAnswer(c) /\ x \in S \ owned /\ NoAnswer(c, x).type \in t THEN 1 ELSE 0
        BY <2>2 DEF Sent
      <4>2. NoAnswer(c, x).type = "no_list"
        BY <2>3
      <4> QED BY <2>1, <2>3, <4>1, <4>2
    <3> QED BY <3>1
  <2> QED BY <2>1, <2>2, <2>4 DEF Sent
<1>9. PICK block \in Seq(MsgType) :
        /\ inbox' = rest \o block
        /\ \A x \in Services : \A t :
             Count(block, Msgs(x, t)) = IF x = s /\ s \notin owned /\ "no_list" \in t THEN 1 ELSE 0
  BY <1>8
<1>10. \A x \in Services : \A t : Has(block, x, t) <=> x = s /\ s \notin owned /\ "no_list" \in t
  BY <1>9, HasCount
<1>11. inbox' \in Seq(MsgType)
  BY <1>9
<1>12. /\ proxy' \in [Services -> Stages] /\ proxy'[s] = "listing"
       /\ \A x \in Services : x # s => proxy'[x] = proxy[x] /\ pname'[x] = pname[x]
       /\ pname' \in [Services -> Names \cup {NoName}]
       /\ m.type = "name" => pname'[s] = m.name
  BY <1>6, MsgFields DEF Inv, TypeInv, Stages
<1>13. TypeInv'
  BY <1>7, <1>8, <1>11, <1>12 DEF Inv, TypeInv
<1>14. ASSUME NEW x \in Services, x # s
       PROVE  Service(x)'
  <2>1. Alike(inbox, rest, x)
    BY <1>1, <1>2, <1>3, <1>4, <1>14, AlikeToOthers
  <2>2. Alike(rest, inbox', x)
    BY <1>9, <1>10, <1>14, AlikeToOthers
  <2>3. Alike(inbox, inbox', x)
    BY <2>1, <2>2 DEF Alike
  <2> QED BY <1>7, <1>8, <1>12, <1>14, <2>3, Untouched DEF Inv, init
<1>15. Service(s) /\ First(m, rest, inbox, s) /\ Behind(rest, block, inbox', s)
  BY <1>1, <1>2, <1>4, <1>9, Taken, PutBehind DEF Inv
<1>16. PICK q \in Seq(CallType) : q = toExt[s]
  BY DEF Inv, TypeInv
<1>17. /\ Count(q, Calls("get_name")) \in Nat /\ Count(q, Calls("list_properties")) \in Nat
       /\ Count(rest, NameAnswers(s)) \in Nat /\ Count(rest, ListAnswers(s)) \in Nat
  BY CountType, Uncounted
<1>18. proxy[s] = "naming"
  BY <1>3, <1>6, <1>15, <1>16, <1>17 DEF First, Service, Handshake
<1>19. \A t : Count(toExt'[s], Calls(t)) =
                Count(q, Calls(t)) + (IF s \in owned /\ t = "list_properties" THEN 1 ELSE 0)
  <2>1. \A t : /\ Count(Append(q, c), Calls(t)) = Count(q, Calls(t)) + (IF c.type = t THEN 1 ELSE 0)
               /\ Count(q, Calls(t)) \in Nat
    BY CallPut
  <2>2. toExt'[s] = IF s \in owned THEN Append(q, c) ELSE q
    BY <1>8, <1>16
  <2> QED BY <1>5, <2>1, <2>2
<1>20. Service(s)'
  <2>1. Handshake(s)'
    <3>1. /\ Count(block, NameAnswers(s)) = 0
          /\ Count(block, ListAnswers(s)) = IF s \notin owned THEN 1 ELSE 0
      BY <1>9 DEF NameAnswers, ListAnswers
    <3>2. /\ Count(inbox', NameAnswers(s)) = Count(rest, NameAnswers(s))
          /\ Count(inbox', ListAnswers(s)) = Count(rest, ListAnswers(s)) + (IF s \notin owned THEN 1 ELSE 0)
      BY <1>15, <1>17, <3>1 DEF Behind
    <3>3. /\ Count(q, Calls("get_name")) + Count(rest, NameAnswers(s)) = 0
          /\ Count(q, Calls("list_properties")) + Count(rest, ListAnswers(s)) = 0
      BY <1>3, <1>6, <1>15, <1>16, <1>17, <1>18 DEF First, Service, Handshake
    <3>4. /\ Count(toExt'[s], Calls("get_name")) = Count(q, Calls("get_name"))
          /\ Count(toExt'[s], Calls("list_properties")) =
               Count(q, Calls("list_properties")) + (IF s \in owned THEN 1 ELSE 0)
      BY <1>17, <1>19
    <3>5. s \notin held'
      BY <1>7, <1>15, <1>18 DEF Service, Handshake
    <3> QED BY <1>12, <1>17, <3>2, <3>3, <3>4, <3>5 DEF Handshake
  <2>2. /\ Has(inbox', s, {"gone"}) <=> Has(inbox, s, {"gone"})
        /\ Has(inbox, s, {"hello"}) => Has(inbox', s, {"hello"})
        /\ Has(inbox', s, {"name", "name_changed"}) <=> Has(rest, s, {"name", "name_changed"})
        /\ Has(rest, s, {"name", "name_changed"}) => Has(inbox, s, {"name", "name_changed"})
        /\ HelloLast(inbox, s) => HelloLast(inbox', s)
        /\ EndFirst(inbox, s) => EndFirst(inbox', s) /\ m.type = "name"
        /\ \A n : TrueLast(inbox, s, n) => TrueLast(inbox', s, n)
    BY <1>3, <1>6, <1>10, <1>15 DEF First, Behind
  <2>3. Listened(s)'
    BY <1>7, <1>12, <1>15, <1>18, <2>2 DEF Service, Listened
  <2>4. Heard(s)'
    BY <1>7, <1>12, <1>15, <1>18, <2>2 DEF Service, Heard, Attached
  <2>5. Ended(s)'
    BY <1>7, <1>12, <1>15, <1>18, <2>2 DEF Service, Ended, Attached
  <2>6. Called(s)'
    <3>1. TrueLast(inbox', s, name[s])
      BY <1>15, <2>2 DEF Service, Called
    <3>2. ASSUME s \notin outlived, ~Has(inbox', s, {"name", "name_changed"})
          PROVE  pname'[s] = name[s]
      <4>1. m.type = "name" /\ pname'[s] = m.name
        BY <1>12, <1>15, <2>2, <3>2 DEF Service, Ended
      <4>2. m.name = name[s]
        BY <1>3, <1>15, <2>2, <3>2, <4>1 DEF First, Service, Called
      <4> QED BY <4>1, <4>2
    <3> QED BY <1>7, <3>1, <3>2 DEF Called
  <2> QED BY <2>1, <2>3, <2>4, <2>5, <2>6 DEF Service
<1> QED BY <1>12, <1>13, <1>14, <1>18, <1>20
-----------------------------------------------------------------------------
(* The making of proxies *)

\* The proxies are made for the services that have none, and all that is wanted has
\* a match rule.  The messages are those that were there, less the hello of a
\* service that is wanted.
LEMMA CreateProxyKeeps ==
  ASSUME Inv, NEW S \in SUBSET Services, NEW rest \in Seq(MsgType), create_proxy(S, rest),
         UNCHANGED <<bus, inits, held, renames>>,
         inits > 0, tracking' = "on", listed' \in SUBSET Services,
         tracking = "on" \/ (tracking = "answered" /\ listed = S),
         \/ rest = inbox
         \/ /\ inbox # <<>> /\ rest = Tail(inbox)
            /\ Head(inbox).type = "hello" /\ Head(inbox).svc \in S
  PROVE  /\ TypeInv' /\ \A x \in Services : Service(x)'
         /\ \E new \in SUBSET Services :
              /\ \A x \in Services : proxy[x] # "none" => x \notin new
              /\ \A x \in Services : proxy'[x] # "none" <=> proxy[x] # "none" \/ x \in new
              /\ connrefs' + refused' = connrefs + refused + Cardinality(new)
<1>1. PICK wanted \in SUBSET Services : wanted = {s \in S : proxy[s] # "registered"}
  OBVIOUS
<1>2. PICK new \in SUBSET Services : new = {s \in wanted : proxy[s] = "none"}
  OBVIOUS
<1>3. PICK c \in CallType : c = [type |-> "get_name"] /\ c.type = "get_name"
  <2>1. [type |-> "get_name"] \in CallType
    BY DEF CallType
  <2> QED BY <2>1
<1>4. /\ Send(new, c, rest)
      /\ proxy' = [s \in Services |-> IF s \in new THEN "naming" ELSE proxy[s]]
      /\ pname' = [s \in Services |-> IF s \in new THEN NoName ELSE pname[s]]
      /\ matched' = matched \cup new
      /\ rules' = [s \in Services |-> IF s \in wanted THEN rules[s] + 1 ELSE rules[s]]
      /\ connrefs' = connrefs + Cardinality(new) - Cardinality(wanted \ new)
      /\ refused' = refused + Cardinality(wanted \ new)
      /\ outlived' = (outlived \ new) \cup (new \ owned)
      /\ blocked' = blocked \cup {s \in wanted : proxy[s] = "kept"}
  BY <1>1, <1>2, <1>3 DEF create_proxy
<1>5. PICK block \in Seq(MsgType) : Sent(new, c, rest, block)
  <2>1. TypeInv
    BY DEF Inv
  <2> QED BY <1>4, <2>1, SendIs
<1>6. ASSUME NEW x \in Services
      PROVE  /\ \A t : Has(block, x, t) <=> x \in new /\ x \notin owned /\ "no_name" \in t
             /\ Count(block, NameAnswers(x)) = IF x \in new /\ x \notin owned THEN 1 ELSE 0
             /\ Count(block, ListAnswers(x)) = 0
  <2>1. WantsAnswer(c) /\ NoAnswer(c, x).type = "no_name"
    BY <1>3 DEF WantsAnswer, NoAnswer, Msg
  <2>2. ASSUME NEW t
        PROVE  Count(block, Msgs(x, t)) = IF x \in new /\ x \notin owned /\ "no_name" \in t THEN 1 ELSE 0
    <3>1. Count(block, Msgs(x, t)) =
            IF WantsAnswer(c) /\ x \in new \ owned /\ NoAnswer(c, x).type \in t THEN 1 ELSE 0
      BY <1>5 DEF Sent
    <3> QED BY <2>1, <3>1
  <2> QED BY <2>2, HasCount DEF NameAnswers, ListAnswers
<1>7. inbox' = rest \o block /\ inbox' \in Seq(MsgType)
  BY <1>5 DEF Sent
<1>8. /\ toExt' \in [Services -> Seq(CallType)]
      /\ \A x \in Services : toExt'[x] = IF x \in new /\ x \in owned THEN Append(toExt[x], c) ELSE toExt[x]
  BY <1>5 DEF Sent
<1>9. Cardinality(new) \in Nat /\ Cardinality(wanted \ new) \in Nat
  <2>1. IsFiniteSet(new) /\ IsFiniteSet(wanted \ new)
    BY InstanceAssumption, FS_Subset
  <2> QED BY <2>1, FS_CardinalityType
<1>10. UNCHANGED <<owned, announced, lives, name, inits, held, renames>>
  BY DEF bus
<1>11. TypeInv'
  <2>1. /\ proxy' \in [Services -> Stages] /\ pname' \in [Services -> Names \cup {NoName}]
        /\ rules' \in [Services -> Nat] /\ matched' \subseteq Services
    BY <1>1, <1>2, <1>4 DEF Inv, TypeInv, Stages
  <2>2. outlived' \subseteq Services /\ blocked' \subseteq Services
    BY <1>1, <1>2, <1>4 DEF Inv, TypeInv
  <2>3. connrefs' \in Int /\ refused' \in Nat
    BY <1>4, <1>9 DEF Inv, TypeInv
  <2> QED BY <1>7, <1>8, <1>10, <2>1, <2>2, <2>3 DEF Inv, TypeInv
<1>12. ASSUME NEW x \in Services
       PROVE  Service(x)'
  <2>1. Service(x) /\ inbox \in Seq(MsgType) /\ proxy[x] \in Stages /\ toExt[x] \in Seq(CallType)
    BY DEF Inv, TypeInv
  \* what is left of the queue
  <2>2. /\ \A t : "hello" \notin t => (Has(rest, x, t) <=> Has(inbox, x, t))
        /\ Has(inbox, x, {"hello"}) => Has(rest, x, {"hello"}) \/ x \in S
        /\ HelloLast(inbox, x) => HelloLast(rest, x)
        /\ EndFirst(inbox, x) => EndFirst(rest, x)
        /\ \A n : TrueLast(inbox, x, n) => TrueLast(rest, x, n)
        /\ Count(rest, NameAnswers(x)) = Count(inbox, NameAnswers(x))
        /\ Count(rest, ListAnswers(x)) = Count(inbox, ListAnswers(x))
    <3>1. CASE inbox # <<>> /\ rest = Tail(inbox) /\ Head(inbox).type = "hello" /\ Head(inbox).svc \in S
      <4>1. PICK m : m = Head(inbox)
        OBVIOUS
      <4>2. First(m, rest, inbox, x)
        BY <2>1, <3>1, <4>1, Taken
      <4>3. Count(rest, NameAnswers(x)) \in Nat /\ Count(rest, ListAnswers(x)) \in Nat
        BY Uncounted
      <4> QED BY <3>1, <4>1, <4>2, <4>3 DEF First
    <3> QED BY <3>1
  <2>3. Behind(rest, block, inbox', x)
    BY <1>7, PutBehind
  <2>4. /\ Has(inbox', x, {"gone"}) <=> Has(inbox, x, {"gone"})
        /\ Has(inbox', x, {"name", "name_changed"}) <=> Has(inbox, x, {"name", "name_changed"})
        /\ Has(inbox, x, {"hello"}) => Has(inbox', x, {"hello"}) \/ x \in S
        /\ HelloLast(inbox, x) => HelloLast(inbox', x)
        /\ EndFirst(inbox, x) /\ ~(x \in new /\ x \notin owned) => EndFirst(inbox', x)
        /\ \A n : TrueLast(inbox, x, n) => TrueLast(inbox', x, n)
    <3>1. /\ Has(rest, x, {"gone"}) <=> Has(inbox, x, {"gone"})
          /\ Has(rest, x, {"name", "name_changed"}) <=> Has(inbox, x, {"name", "name_changed"})
      BY <2>2
    <3> QED BY <1>6, <2>2, <2>3, <3>1 DEF Behind
  <2>5. /\ Count(inbox, NameAnswers(x)) \in Nat /\ Count(inbox, ListAnswers(x)) \in Nat
        /\ Count(inbox', NameAnswers(x)) =
             Count(inbox, NameAnswers(x)) + (IF x \in new /\ x \notin owned THEN 1 ELSE 0)
        /\ Count(inbox', ListAnswers(x)) = Count(inbox, ListAnswers(x))
    <3>1. Count(inbox, NameAnswers(x)) \in Nat /\ Count(inbox, ListAnswers(x)) \in Nat
      BY <2>1, Uncounted
    <3> QED BY <1>6, <2>2, <2>3, <3>1 DEF Behind
  <2>6. /\ Count(toExt[x], Calls("get_name")) \in Nat /\ Count(toExt[x], Calls("list_properties")) \in Nat
        /\ Count(toExt'[x], Calls("get_name")) =
             Count(toExt[x], Calls("get_name")) + (IF x \in new /\ x \in owned THEN 1 ELSE 0)
        /\ Count(toExt'[x], Calls("list_properties")) = Count(toExt[x], Calls("list_properties"))
        /\ Count(toExt'[x], Calls("set_name")) = Count(toExt[x], Calls("set_name"))
    <3>1. PICK q \in Seq(CallType) : q = toExt[x]
      BY <2>1
    <3>2. \A t : /\ Count(Append(q, c), Calls(t)) = Count(q, Calls(t)) + (IF c.type = t THEN 1 ELSE 0)
                 /\ Count(q, Calls(t)) \in Nat
      BY CallPut
    <3>3. toExt'[x] = IF x \in new /\ x \in owned THEN Append(q, c) ELSE q
      BY <1>8, <3>1
    <3> QED BY <1>3, <3>1, <3>2, <3>3
  <2>7. /\ x \in new => proxy[x] = "none" /\ proxy'[x] = "naming" /\ x \in matched'
        /\ x \notin new => proxy'[x] = proxy[x] /\ pname'[x] = pname[x] /\ (x \in matched' <=> x \in matched)
        /\ x \in S /\ x \notin new => proxy[x] \in {"naming", "listing", "registered"} \/ x \in blocked'
        /\ x \in blocked => x \in blocked'
        /\ x \in new => (x \in outlived' <=> x \notin owned)
        /\ x \notin new => (x \in outlived' <=> x \in outlived)
    <3>1. x \in S /\ x \notin new => proxy[x] \in {"naming", "listing", "registered"} \/ x \in blocked'
      BY <1>1, <1>2, <1>4, <2>1 DEF Stages
    <3> QED BY <1>1, <1>2, <1>4, <3>1
  <2>8. Handshake(x)'
    <3>1. Handshake(x) /\ held' = held
      BY <1>10, <2>1 DEF Service
    <3>2. CASE x \in new
      <4>1. /\ Count(toExt[x], Calls("get_name")) = 0 /\ Count(inbox, NameAnswers(x)) = 0
            /\ Count(toExt[x], Calls("list_properties")) = 0 /\ Count(inbox, ListAnswers(x)) = 0
            /\ x \notin held
        <5>1. proxy[x] = "none"
          BY <2>7, <3>2
        <5>2. /\ Count(toExt[x], Calls("get_name")) + Count(inbox, NameAnswers(x)) = 0
              /\ Count(toExt[x], Calls("list_properties")) + Count(inbox, ListAnswers(x)) = 0
              /\ x \notin held
          BY <3>1, <5>1 DEF Handshake
        <5>3. /\ Count(toExt[x], Calls("get_name")) \in Nat /\ Count(inbox, NameAnswers(x)) \in Nat
              /\ Count(toExt[x], Calls("list_properties")) \in Nat /\ Count(inbox, ListAnswers(x)) \in Nat
          BY <2>5, <2>6
        <5> QED BY <5>2, <5>3
      <4>2. /\ Count(toExt'[x], Calls("get_name")) + Count(inbox', NameAnswers(x)) = 1
            /\ Count(toExt'[x], Calls("list_properties")) + Count(inbox', ListAnswers(x)) = 0
        BY <2>5, <2>6, <3>2, <4>1
      <4> QED BY <2>7, <3>1, <3>2, <4>1, <4>2 DEF Handshake
    <3>3. CASE x \notin new
      <4>1. /\ Count(toExt'[x], Calls("get_name")) = Count(toExt[x], Calls("get_name"))
            /\ Count(inbox', NameAnswers(x)) = Count(inbox, NameAnswers(x))
        BY <2>5, <2>6, <3>3
      <4> QED BY <2>5, <2>6, <2>7, <3>1, <3>3, <4>1 DEF Handshake
    <3> QED BY <3>2, <3>3
  <2>9. Listened(x)'
    BY <1>10, <2>1, <2>4, <2>7 DEF Service, Listened
  <2>10. Heard(x)'
    <3>1. x \in announced' => HelloLast(inbox', x)
      BY <1>10, <2>1, <2>4 DEF Service, Heard
    <3>2. x \in announced' => Attached(x)' \/ x \in blocked' \/ Has(inbox', x, {"hello"})
      <4>1. CASE x \in new
        BY <2>7, <4>1 DEF Attached
      <4>2. CASE x \in S /\ x \notin new
        BY <2>7, <4>2 DEF Attached
      <4>3. CASE x \notin S
        BY <1>10, <1>1, <1>2, <2>1, <2>4, <2>7, <4>3 DEF Service, Heard, Attached
      <4> QED BY <4>1, <4>2, <4>3
    <3> QED BY <3>1, <3>2 DEF Heard
  <2>11. Ended(x)'
    <3>1. x \in new => EndFirst(inbox, x)
      <4>1. x \in new => Count(inbox, NameAnswers(x)) = 0
        BY <2>1, <2>5, <2>6, <2>7 DEF Service, Handshake
      <4> QED BY <2>1, <4>1, Uncounted
    <3> QED BY <1>10, <2>1, <2>4, <2>7, <3>1 DEF Service, Ended, Attached
  <2>12. Called(x)'
    BY <1>10, <2>1, <2>4, <2>6, <2>7 DEF Service, Called
  <2> QED BY <2>8, <2>9, <2>10, <2>11, <2>12 DEF Service
<1>13. /\ \A x \in Services : proxy[x] # "none" => x \notin new
       /\ \A x \in Services : proxy'[x] # "none" <=> proxy[x] # "none" \/ x \in new
       /\ connrefs' + refused' = connrefs + refused + Cardinality(new)
  BY <1>2, <1>4, <1>9 DEF Inv, TypeInv
<1> QED BY <1>11, <1>12, <1>13

-----------------------------------------------------------------------------
(* The application's own steps *)

LEMMA NameSetKeeps ==
  ASSUME Inv, NEW s \in Services, NEW n \in Names, extension_name_set(s, n)
  PROVE  TypeInv' /\ \A x \in Services : Service(x)'
<1>1. PICK c \in CallType : c = [type |-> "set_name", name |-> n] /\ c.type = "set_name"
  <2>1. [type |-> "set_name", name |-> n] \in CallType
    BY DEF CallType
  <2> QED BY <2>1
<1>2. PICK S \in SUBSET Services : S = {s}
  OBVIOUS
<1>3. PICK block \in Seq(MsgType) : Sent(S, c, inbox, block)
  <2>1. TypeInv /\ inbox \in Seq(MsgType) /\ Send(S, c, inbox)
    BY <1>1, <1>2 DEF extension_name_set, Inv, TypeInv
  <2> QED BY <2>1, SendIs
<1>4. ASSUME NEW x \in Services
      PROVE  \A t : ~Has(block, x, t)
  <2>1. ~WantsAnswer(c)
    BY <1>1 DEF WantsAnswer
  <2>2. ASSUME NEW t
        PROVE  Count(block, Msgs(x, t)) = 0
    <3>1. Count(block, Msgs(x, t)) =
            IF WantsAnswer(c) /\ x \in S \ owned /\ NoAnswer(c, x).type \in t THEN 1 ELSE 0
      BY <1>3 DEF Sent
    <3> QED BY <2>1, <3>1
  <2> QED BY <2>2, HasCount
<1>5. inbox \in Seq(MsgType) /\ inbox' = inbox \o block /\ inbox' \in Seq(MsgType)
  BY <1>3 DEF Sent, Inv, TypeInv
<1>6. /\ toExt' \in [Services -> Seq(CallType)]
      /\ \A x \in Services : toExt'[x] = IF x = s /\ x \in owned THEN Append(toExt[x], c) ELSE toExt[x]
  BY <1>2, <1>3 DEF Sent
<1>7. /\ UNCHANGED <<owned, announced, lives, name, tracking, inits, listed, proxy, held, matched, rules, outlived, blocked>>
      /\ UNCHANGED <<connrefs, refused>>
      /\ renames' = renames + 1 /\ proxy[s] \in {"registered", "kept"}
      /\ pname' \in [Services -> Names \cup {NoName}]
      /\ \A x \in Services : x # s => pname'[x] = pname[x]
  BY DEF extension_name_set, bus, init, Inv, TypeInv
<1>8. TypeInv'
  BY <1>5, <1>6, <1>7 DEF Inv, TypeInv
<1>9. ASSUME NEW x \in Services
      PROVE  Alike(inbox, inbox', x) /\ Service(x)
  BY <1>4, <1>5, AlikeToOthers DEF Inv
<1>10. ASSUME NEW x \in Services, x # s
       PROVE  Service(x)'
  BY <1>6, <1>7, <1>9, <1>10, Untouched DEF init
<1>11. Service(s)'
  <2>1. PICK q \in Seq(CallType) : q = toExt[s]
    BY DEF Inv, TypeInv
  <2>2. \A t : /\ Count(toExt'[s], Calls(t)) = Count(toExt[s], Calls(t)) + (IF s \in owned /\ t = "set_name" THEN 1 ELSE 0)
               /\ Count(toExt[s], Calls(t)) \in Nat
    <3>1. \A t : /\ Count(Append(q, c), Calls(t)) = Count(q, Calls(t)) + (IF c.type = t THEN 1 ELSE 0)
                 /\ Count(q, Calls(t)) \in Nat
      BY CallPut
    <3>2. toExt'[s] = IF s \in owned THEN Append(q, c) ELSE q
      BY <1>6, <2>1
    <3> QED BY <1>1, <2>1, <3>1, <3>2
  <2>3. Handshake(s)'
    <3>1. /\ Count(toExt'[s], Calls("get_name")) = Count(toExt[s], Calls("get_name"))
          /\ Count(toExt'[s], Calls("list_properties")) = Count(toExt[s], Calls("list_properties"))
      BY <2>2
    <3> QED BY <1>7, <1>9, <3>1 DEF Alike, Service, Handshake
  <2>4. Listened(s)'
    BY <1>7, <1>9 DEF Alike, Service, Listened
  <2>5. Heard(s)'
    BY <1>7, <1>9 DEF Alike, Service, Heard, Attached
  <2>6. Ended(s)'
    BY <1>7, <1>9 DEF Alike, Service, Ended, Attached
  <2>7. Called(s)'
    <3>1. s \in owned => Count(toExt'[s], Calls("set_name")) # 0
      BY <2>2
    <3>2. s \notin owned => proxy[s] = "kept" \/ s \in outlived \/ Has(inbox, s, {"gone"})
      BY <1>7, <1>9 DEF Service, Ended, Attached
    <3> QED BY <1>7, <1>9, <3>1, <3>2 DEF Alike, Service, Called
  <2> QED BY <2>3, <2>4, <2>5, <2>6, <2>7 DEF Service
<1> QED BY <1>8, <1>10, <1>11
LEMMA TrackingKeeps ==
  ASSUME Inv, mafw_shared_init \/ ListNames \/ mafw_shared_deinit
  PROVE  TypeInv' /\ \A x \in Services : Service(x)'
<1>1. /\ UNCHANGED <<owned, announced, name, toExt, inbox, proxy, pname, held, matched, rules, outlived, blocked>>
      /\ UNCHANGED <<lives, refused, renames>>
  BY DEF mafw_shared_init, ListNames, mafw_shared_deinit, bus, app
<1>2. /\ connrefs' \in Int /\ inits' \in Nat /\ listed' \subseteq Services
      /\ tracking' \in {"off", "asking", "answered"} /\ (tracking' # "off" => inits' > 0)
      /\ inits > 0 => inits' > 0
      /\ tracking' = "answered" => listed' = owned
  <2>1. inits \in Nat /\ connrefs \in Int /\ owned \subseteq Services /\ listed \subseteq Services
    BY DEF Inv, TypeInv
  <2>2. CASE mafw_shared_init
    BY <2>1, <2>2 DEF mafw_shared_init
  <2>3. CASE ListNames
    <3>1. tracking' = "answered" /\ listed' = owned /\ inits' = inits /\ connrefs' = connrefs /\ tracking = "asking"
      BY <2>3 DEF ListNames, app
    <3>2. inits > 0
      BY <3>1 DEF Inv, TypeInv
    <3> QED BY <2>1, <3>1, <3>2
  <2>4. CASE mafw_shared_deinit
    BY <2>1, <2>4 DEF mafw_shared_deinit
  <2> QED BY <2>2, <2>3, <2>4
<1>3. TypeInv'
  BY <1>1, <1>2 DEF Inv, TypeInv
<1>4. ASSUME NEW x \in Services
      PROVE  Service(x)'
  <2>1. Service(x) /\ announced \subseteq owned
    BY DEF Inv, TypeInv
  <2>2. Handshake(x)' /\ Ended(x)' /\ Called(x)'
    BY <1>1, <2>1 DEF Service, Handshake, Ended, Called, Attached
  <2>3. Listened(x)'
    BY <1>1, <1>2, <2>1 DEF Service, Listened
  <2>4. Heard(x)'
    BY <1>1, <1>2, <2>1 DEF Service, Heard
  <2> QED BY <2>2, <2>3, <2>4 DEF Service
<1> QED BY <1>3, <1>4

LEMMA HoldKeeps ==
  ASSUME Inv, NEW s \in Services, Hold(s) \/ Release(s)
  PROVE  /\ TypeInv' /\ \A x \in Services : Service(x)'
<1>1. /\ UNCHANGED <<owned, announced, name, toExt, inbox, tracking, inits, listed, pname, matched, rules, outlived, blocked>>
      /\ UNCHANGED <<lives, refused, renames>>
  BY DEF Hold, Release, bus, init
<1>2. /\ proxy' \in [Services -> Stages] /\ connrefs' \in Int /\ held' \subseteq Services
      /\ \A x \in Services : x # s => proxy'[x] = proxy[x] /\ (x \in held' <=> x \in held)
      /\ \/ proxy'[s] = proxy[s] /\ (s \in held' => proxy[s] = "registered")
         \/ proxy[s] = "kept" /\ proxy'[s] = "none" /\ s \notin held'
  <2>1. CASE Hold(s)
    BY <2>1 DEF Hold, Inv, TypeInv, Stages
  <2>2. CASE Release(s) /\ proxy[s] = "kept"
    <3>1. /\ connrefs' = connrefs - Cardinality({s}) /\ held' = held \ {s}
          /\ proxy' = [x \in Services |-> IF x \in {s} THEN "none" ELSE proxy[x]]
      BY <2>2 DEF Release, Disposed
    <3>2. Cardinality({s}) = 1
      BY FS_Singleton
    <3> QED BY <2>2, <3>1, <3>2 DEF Inv, TypeInv, Stages
  <2>3. CASE Release(s) /\ proxy[s] # "kept"
    BY <2>3 DEF Release, Inv, TypeInv, Stages
  <2> QED BY <2>1, <2>2, <2>3
<1>3. TypeInv'
  BY <1>1, <1>2 DEF Inv, TypeInv
<1>4. ASSUME NEW x \in Services, x # s
      PROVE  Service(x)'
  <2>1. Alike(inbox, inbox', x)
    BY <1>1, AlikeToOthers DEF Inv, TypeInv
  <2> QED BY <1>1, <1>2, <1>4, <2>1, Untouched DEF Inv, init
<1>5. Service(s)'
  <2>1. Service(s)
    BY DEF Inv
  <2>2. Handshake(s)'
    BY <1>1, <1>2, <2>1 DEF Service, Handshake
  <2>3. Listened(s)' /\ Heard(s)' /\ Ended(s)' /\ Called(s)'
    BY <1>1, <1>2, <2>1 DEF Service, Listened, Heard, Ended, Called, Attached
  <2> QED BY <2>2, <2>3 DEF Service
<1> QED BY <1>3, <1>4, <1>5

-----------------------------------------------------------------------------
(* The references to the connection *)

\* The proxies there are, counted when some are made or one goes.
LEMMA ProxiesCounted ==
  ASSUME Inv
  PROVE  /\ Cardinality({x \in Services : proxy[x] # "none"}) \in Nat
         /\ (\A x \in Services : proxy'[x] # "none" <=> proxy[x] # "none") =>
              Cardinality({x \in Services : proxy'[x] # "none"}) = Cardinality({x \in Services : proxy[x] # "none"})
         /\ \A new \in SUBSET Services :
              /\ \A x \in Services : proxy[x] # "none" => x \notin new
              /\ \A x \in Services : proxy'[x] # "none" <=> proxy[x] # "none" \/ x \in new
              => Cardinality({x \in Services : proxy'[x] # "none"})
                   = Cardinality({x \in Services : proxy[x] # "none"}) + Cardinality(new)
         /\ \A s \in Services :
              /\ proxy[s] # "none" /\ proxy'[s] = "none"
              /\ \A x \in Services : x # s => proxy'[x] = proxy[x]
              => Cardinality({x \in Services : proxy'[x] # "none"})
                   = Cardinality({x \in Services : proxy[x] # "none"}) - 1
<1>1. PICK P, Q : P = {x \in Services : proxy[x] # "none"} /\ Q = {x \in Services : proxy'[x] # "none"}
  OBVIOUS
<1>2. IsFiniteSet(P) /\ IsFiniteSet(Q)
  BY <1>1, InstanceAssumption, FS_Subset
<1>3. Cardinality(P) \in Nat /\ Cardinality(Q) \in Nat
  BY <1>2, FS_CardinalityType
<1>4. (\A x \in Services : proxy'[x] # "none" <=> proxy[x] # "none") => Q = P
  BY <1>1
<1>5. ASSUME NEW new \in SUBSET Services,
             \A x \in Services : proxy[x] # "none" => x \notin new,
             \A x \in Services : proxy'[x] # "none" <=> proxy[x] # "none" \/ x \in new
      PROVE  Cardinality(Q) = Cardinality(P) + Cardinality(new)
  <2>1. Q = P \cup new /\ P \cap new = {}
    BY <1>1, <1>5
  <2>2. IsFiniteSet(new) /\ Cardinality(P \cap new) = 0
    BY <2>1, InstanceAssumption, FS_Subset, FS_EmptySet
  <2>3. Cardinality(new) \in Nat
    BY <2>2, FS_CardinalityType
  <2>4. Cardinality(P \cup new) = Cardinality(P) + Cardinality(new) - Cardinality(P \cap new)
    BY <1>2, <2>2, FS_Union
  <2> QED BY <1>3, <2>1, <2>2, <2>3, <2>4
<1>6. ASSUME NEW s \in Services, proxy[s] # "none", proxy'[s] = "none",
             \A x \in Services : x # s => proxy'[x] = proxy[x]
      PROVE  Cardinality(Q) = Cardinality(P) - 1
  <2>1. Q = P \ {s} /\ s \in P
    BY <1>1, <1>6
  <2> QED BY <1>2, <2>1, FS_RemoveElement
<1> QED BY <1>1, <1>3, <1>4, <1>5, <1>6
-----------------------------------------------------------------------------
(* Every step keeps the invariant *)

LEMMA HelloKeeps ==
  ASSUME Inv, Hello
  PROVE  /\ TypeInv' /\ \A x \in Services : Service(x)'
         /\ ConnectionAccounted'
<1>1. inbox \in Seq(MsgType) /\ inbox # <<>> /\ Head(inbox).type = "hello"
  BY DEF Hello, Message, Inv, TypeInv
<1>2. PICK m \in MsgType : m = Head(inbox)
  BY <1>1
<1>3. PICK s \in Services : s = m.svc
  BY MsgFields
<1>4. PICK rest \in Seq(MsgType) : rest = Tail(inbox)
  <2>1. Tail(inbox) \in Seq(MsgType)
    BY <1>1
  <2> QED BY <2>1
<1>5. CASE tracking = "on"
  <2>1. PICK S \in SUBSET Services : S = {s}
    OBVIOUS
  <2>2. create_proxy(S, rest) /\ UNCHANGED <<bus, inits, held, renames, listed, tracking>>
    BY <1>2, <1>3, <1>4, <1>5, <2>1 DEF Hello, init
  <2>3. inits > 0 /\ listed \in SUBSET Services
    BY <1>5 DEF Inv, TypeInv
  <2>4. /\ UNCHANGED <<bus, inits, held, renames>>
        /\ tracking' = "on" /\ listed' \in SUBSET Services
        /\ inbox # <<>> /\ rest = Tail(inbox) /\ Head(inbox).type = "hello" /\ Head(inbox).svc \in S
    BY <1>1, <1>2, <1>3, <1>4, <1>5, <2>1, <2>2, <2>3
  <2>5. /\ TypeInv' /\ \A x \in Services : Service(x)'
        /\ \E new \in SUBSET Services :
              /\ \A x \in Services : proxy[x] # "none" => x \notin new
              /\ \A x \in Services : proxy'[x] # "none" <=> proxy[x] # "none" \/ x \in new
              /\ connrefs' + refused' = connrefs + refused + Cardinality(new)
    BY <1>5, <2>2, <2>3, <2>4, CreateProxyKeeps
  <2>6. PICK new \in SUBSET Services :
              /\ \A x \in Services : proxy[x] # "none" => x \notin new
              /\ \A x \in Services : proxy'[x] # "none" <=> proxy[x] # "none" \/ x \in new
              /\ connrefs' + refused' = connrefs + refused + Cardinality(new)
    BY <2>5
  <2>7. Cardinality({x \in Services : proxy'[x] # "none"})
          = Cardinality({x \in Services : proxy[x] # "none"}) + Cardinality(new)
    BY <2>6, ProxiesCounted
  <2>8. Cardinality(new) \in Nat /\ Cardinality({x \in Services : proxy[x] # "none"}) \in Nat
    <3>1. IsFiniteSet(new)
      BY InstanceAssumption, FS_Subset
    <3> QED BY <3>1, FS_CardinalityType, ProxiesCounted
  <2>9. ConnectionAccounted'
    BY <1>5, <2>4, <2>6, <2>7, <2>8 DEF ConnectionAccounted, Inv, TypeInv
  <2> QED BY <2>5, <2>9
<1>6. CASE tracking # "on"
  <2>1. Unheard /\ UNCHANGED <<bus, init, held, renames>>
    BY <1>6 DEF Hello
  <2>2. /\ inbox' = Tail(inbox) /\ inbox' \in Seq(MsgType)
        /\ UNCHANGED <<owned, announced, name, toExt, tracking, inits, listed, proxy, pname, held, matched, rules, outlived, blocked>>
        /\ UNCHANGED <<lives, connrefs, refused, renames>>
    BY <1>1, <2>1 DEF Unheard, bus, init, app
  <2>3. TypeInv'
    BY <2>2 DEF Inv, TypeInv
  <2>4. ASSUME NEW x \in Services
        PROVE  Service(x)'
    <3>1. Service(x) /\ First(m, inbox', inbox, x)
      BY <1>1, <1>2, <2>2, Taken DEF Inv
    <3>2. /\ Count(inbox', NameAnswers(x)) = Count(inbox, NameAnswers(x))
          /\ Count(inbox', ListAnswers(x)) = Count(inbox, ListAnswers(x))
      <4>1. Count(inbox', NameAnswers(x)) \in Nat /\ Count(inbox', ListAnswers(x)) \in Nat
        BY <2>2, Uncounted
      <4> QED BY <1>1, <1>2, <3>1, <4>1 DEF First
    <3>3. Handshake(x)'
      BY <2>2, <3>1, <3>2 DEF Service, Handshake
    <3>4. Listened(x)'
      BY <1>1, <1>2, <2>2, <3>1 DEF First, Service, Listened
    <3>5. Heard(x)'
      <4>1. tracking = "off"
        BY <1>6 DEF Hello, Message
      <4> QED BY <2>2, <3>1, <4>1 DEF First, Service, Heard
    <3>6. Ended(x)'
      BY <1>1, <1>2, <2>2, <3>1 DEF First, Service, Ended, Attached
    <3>7. Called(x)'
      BY <1>1, <1>2, <2>2, <3>1 DEF First, Service, Called
    <3> QED BY <3>3, <3>4, <3>5, <3>6, <3>7 DEF Service
  <2>5. ConnectionAccounted'
    BY <2>2 DEF Inv, ConnectionAccounted
  <2> QED BY <2>3, <2>4, <2>5
<1> QED BY <1>5, <1>6

LEMMA ExtensionsKeep ==
  ASSUME Inv, create_proxy_extensions
  PROVE  /\ TypeInv' /\ \A x \in Services : Service(x)'
         /\ ConnectionAccounted'
<1>1. /\ create_proxy(listed, inbox) /\ UNCHANGED <<bus, inits, held, renames>>
      /\ tracking' = "on" /\ listed' \in SUBSET Services /\ tracking = "answered"
      /\ listed \in SUBSET Services /\ inbox \in Seq(MsgType) /\ inits > 0
  BY DEF create_proxy_extensions, Inv, TypeInv
<1>2. /\ TypeInv' /\ \A x \in Services : Service(x)'
      /\ \E new \in SUBSET Services :
           /\ \A x \in Services : proxy[x] # "none" => x \notin new
           /\ \A x \in Services : proxy'[x] # "none" <=> proxy[x] # "none" \/ x \in new
           /\ connrefs' + refused' = connrefs + refused + Cardinality(new)
  BY <1>1, CreateProxyKeeps
<1>3. PICK new \in SUBSET Services :
           /\ \A x \in Services : proxy[x] # "none" => x \notin new
           /\ \A x \in Services : proxy'[x] # "none" <=> proxy[x] # "none" \/ x \in new
           /\ connrefs' + refused' = connrefs + refused + Cardinality(new)
  BY <1>2
<1>4. Cardinality({x \in Services : proxy'[x] # "none"})
        = Cardinality({x \in Services : proxy[x] # "none"}) + Cardinality(new)
  BY <1>3, ProxiesCounted
<1>5. Cardinality(new) \in Nat /\ Cardinality({x \in Services : proxy[x] # "none"}) \in Nat
  <2>1. IsFiniteSet(new)
    BY InstanceAssumption, FS_Subset
  <2> QED BY <2>1, FS_CardinalityType, ProxiesCounted
<1>6. ConnectionAccounted'
  BY <1>1, <1>3, <1>4, <1>5 DEF ConnectionAccounted, Inv, TypeInv
<1> QED BY <1>2, <1>6

\* The other steps and the references to the connection: the tracking takes and
\* gives back one, a proxy that goes gives back its own.
LEMMA ConnectionKept ==
  ASSUME Inv, [Next]_vars, ~Hello, ~create_proxy_extensions
  PROVE  ConnectionAccounted'
<1>1. /\ connrefs + refused = Cardinality({s \in Services : proxy[s] # "none"}) + (IF tracking = "off" THEN 0 ELSE 1)
      /\ connrefs \in Int /\ refused \in Nat /\ Cardinality({s \in Services : proxy[s] # "none"}) \in Nat
  BY ProxiesCounted DEF ConnectionAccounted, Inv, TypeInv
<1>2. ASSUME UNCHANGED <<connrefs, refused, proxy, tracking>>
      PROVE  ConnectionAccounted'
  BY <1>1, <1>2 DEF ConnectionAccounted
<1>3. ASSUME UNCHANGED <<connrefs, refused, tracking>>, \A x \in Services : proxy'[x] # "none" <=> proxy[x] # "none"
      PROVE  ConnectionAccounted'
  <2>1. Cardinality({x \in Services : proxy'[x] # "none"}) = Cardinality({x \in Services : proxy[x] # "none"})
    BY <1>3, ProxiesCounted
  <2> QED BY <1>1, <1>3, <2>1 DEF ConnectionAccounted
<1>4. ASSUME UNCHANGED <<refused, tracking>>, connrefs' = connrefs - 1,
             NEW s \in Services, proxy[s] # "none", proxy'[s] = "none",
             \A x \in Services : x # s => proxy'[x] = proxy[x]
      PROVE  ConnectionAccounted'
  <2>1. Cardinality({x \in Services : proxy'[x] # "none"}) = Cardinality({x \in Services : proxy[x] # "none"}) - 1
    BY <1>4, ProxiesCounted
  <2> QED BY <1>1, <1>4, <2>1 DEF ConnectionAccounted
<1>5. CASE mafw_shared_init
  BY <1>1, <1>5 DEF mafw_shared_init, ConnectionAccounted
<1>6. CASE mafw_shared_deinit
  BY <1>1, <1>6 DEF mafw_shared_deinit, ConnectionAccounted
<1>7. CASE ListNames
  BY <1>1, <1>7 DEF ListNames, app, ConnectionAccounted
<1>8. CASE NameOwnerChanged
  <2>1. PICK m \in MsgType : m = Head(inbox)
    BY <1>8 DEF NameOwnerChanged, Message, Inv, TypeInv
  <2>2. PICK s \in Services : s = m.svc
    BY MsgFields
  <2>3. UNCHANGED <<refused, tracking>>
    BY <1>8 DEF NameOwnerChanged, init
  <2>4. CASE Removed(s) /\ proxy[s] = "registered"
    <3>1. CASE s \in held
      <4>1. UNCHANGED connrefs /\ \A x \in Services : proxy'[x] # "none" <=> proxy[x] # "none"
        BY <2>4, <3>1 DEF Removed, Inv, TypeInv, Stages
      <4> QED BY <1>3, <2>3, <4>1
    <3>2. CASE s \notin held
      <4>1. Cardinality({s}) = 1
        BY FS_Singleton
      <4>2. /\ connrefs' = connrefs - 1 /\ proxy[s] # "none" /\ proxy'[s] = "none"
            /\ \A x \in Services : x # s => proxy'[x] = proxy[x]
        BY <2>4, <3>2, <4>1 DEF Removed, Disposed
      <4> QED BY <1>4, <2>3, <4>2
    <3> QED BY <3>1, <3>2
  <2>5. CASE UNCHANGED <<proxy, connrefs>>
    BY <1>2, <2>3, <2>5
  <2> QED BY <1>8, <2>1, <2>2, <2>4, <2>5 DEF NameOwnerChanged
<1>9. CASE got_name
  <2>1. UNCHANGED <<connrefs, refused, tracking>>
    BY <1>9 DEF got_name, init
  <2> QED BY <1>3, <1>9, <2>1, GotNameKeeps
<1>10. CASE got_prop_lists
  <2>1. UNCHANGED <<connrefs, refused, tracking>>
    BY <1>10 DEF got_prop_lists, init
  <2> QED BY <1>3, <1>10, <2>1, GotPropListsKeeps
<1>11. CASE handle_extension_name_changed
  BY <1>2, <1>11 DEF handle_extension_name_changed, init
<1>12. ASSUME NEW s \in Services, Release(s)
       PROVE  ConnectionAccounted'
  <2>1. CASE proxy[s] = "kept"
    <3>1. Cardinality({s}) = 1
      BY FS_Singleton
    <3>2. /\ connrefs' = connrefs - 1 /\ proxy[s] # "none" /\ proxy'[s] = "none"
          /\ \A x \in Services : x # s => proxy'[x] = proxy[x]
          /\ UNCHANGED <<refused, tracking>>
      BY <1>12, <2>1, <3>1 DEF Release, Disposed, init
    <3> QED BY <1>4, <3>2
  <2>2. CASE proxy[s] # "kept"
    BY <1>2, <1>12, <2>2 DEF Release, init
  <2> QED BY <2>1, <2>2
<1>13. ASSUME NEW s \in Services,
              \/ Appear(s) \/ Announce(s) \/ Depart(s) \/ HandleCall(s) \/ Hold(s)
              \/ \E n \in Names : Rename(s, n) \/ extension_name_set(s, n)
       PROVE  ConnectionAccounted'
  BY <1>2, <1>13 DEF Appear, Announce, Depart, HandleCall, Hold, Rename, extension_name_set, init, app
<1>14. CASE UNCHANGED vars
  BY <1>2, <1>14 DEF vars, init, app
<1> QED BY <1>5, <1>6, <1>7, <1>8, <1>9, <1>10, <1>11, <1>12, <1>13, <1>14 DEF Next, Dispatch

LEMMA Holds == Spec => []Inv
<1>1. Init => Inv
  <2> SUFFICES ASSUME Init
               PROVE  Inv
    OBVIOUS
  <2>1. (CHOOSE n \in Names : TRUE) \in Names
    BY InstanceAssumption
  <2>2. TypeInv
    <3>1. <<>> \in Seq(CallType) /\ <<>> \in Seq(MsgType)
      OBVIOUS
    <3> QED BY <2>1, <3>1 DEF Init, TypeInv, Stages
  <2>3. ConnectionAccounted
    <3>1. {s \in Services : proxy[s] # "none"} = {}
      BY DEF Init
    <3> QED BY <3>1, FS_EmptySet DEF Init, ConnectionAccounted
  <2>4. ASSUME NEW s \in Services
        PROVE  Service(s)
    <3>1. toExt[s] = <<>> /\ inbox = <<>> /\ proxy[s] = "none" /\ rules[s] = 0 /\ announced = {} /\ held = {}
      BY DEF Init
    <3>2. /\ Handshake(s) /\ Listened(s) /\ Heard(s)
      BY <3>1, NothingIn DEF Handshake, Listened, Heard
    <3>3. Ended(s) /\ Called(s)
      BY <3>1, NothingIn, NothingToOrder DEF Ended, Called, Attached
    <3> QED BY <3>2, <3>3 DEF Service
  <2> QED BY <2>2, <2>3, <2>4 DEF Inv
<1>2. Inv /\ [Next]_vars => Inv'
  <2> SUFFICES ASSUME Inv, [Next]_vars
               PROVE  Inv'
    OBVIOUS
  <2>1. TypeInv' /\ \A x \in Services : Service(x)'
    <3>1. CASE mafw_shared_init \/ ListNames \/ mafw_shared_deinit
      BY <3>1, TrackingKeeps
    <3>2. CASE create_proxy_extensions
      BY <3>2, ExtensionsKeep
    <3>3. CASE Hello
      BY <3>3, HelloKeeps
    <3>4. CASE NameOwnerChanged
      BY <3>4, NameOwnerChangedKeeps
    <3>5. CASE got_name
      BY <3>5, GotNameKeeps
    <3>6. CASE got_prop_lists
      BY <3>6, GotPropListsKeeps
    <3>7. CASE handle_extension_name_changed
      BY <3>7, NameChangedKeeps
    <3>8. ASSUME NEW s \in Services, Appear(s)
          PROVE  TypeInv' /\ \A x \in Services : Service(x)'
      BY <3>8, AppearKeeps
    <3>9. ASSUME NEW s \in Services, Announce(s)
          PROVE  TypeInv' /\ \A x \in Services : Service(x)'
      BY <3>9, AnnounceKeeps
    <3>10. ASSUME NEW s \in Services, Depart(s)
           PROVE  TypeInv' /\ \A x \in Services : Service(x)'
      BY <3>10, DepartKeeps
    <3>11. ASSUME NEW s \in Services, HandleCall(s)
           PROVE  TypeInv' /\ \A x \in Services : Service(x)'
      BY <3>11, HandleCallKeeps
    <3>12. ASSUME NEW s \in Services, Hold(s) \/ Release(s)
           PROVE  TypeInv' /\ \A x \in Services : Service(x)'
      BY <3>12, HoldKeeps
    <3>13. ASSUME NEW s \in Services, NEW n \in Names, Rename(s, n)
           PROVE  TypeInv' /\ \A x \in Services : Service(x)'
      BY <3>13, RenameKeeps
    <3>14. ASSUME NEW s \in Services, NEW n \in Names, extension_name_set(s, n)
           PROVE  TypeInv' /\ \A x \in Services : Service(x)'
      BY <3>14, NameSetKeeps
    <3>15. CASE UNCHANGED vars
      <4>1. /\ UNCHANGED <<owned, announced, lives, name, toExt, inbox, tracking, inits, listed, proxy, pname>>
            /\ UNCHANGED <<held, matched, rules, connrefs, refused, outlived, blocked, renames>>
        BY <3>15 DEF vars, bus, init, app
      <4>2. TypeInv'
        BY <4>1 DEF Inv, TypeInv
      <4>3. ASSUME NEW x \in Services
            PROVE  Service(x)'
        BY <4>1, AlikeToOthers, Untouched DEF Inv, TypeInv, init
      <4> QED BY <4>2, <4>3
    <3> QED BY <3>1, <3>2, <3>3, <3>4, <3>5, <3>6, <3>7, <3>8, <3>9, <3>10, <3>11, <3>12, <3>13, <3>14, <3>15
            DEF Next, Dispatch
  <2>2. ConnectionAccounted'
    <3>1. CASE Hello
      BY <3>1, HelloKeeps
    <3>2. CASE create_proxy_extensions
      BY <3>2, ExtensionsKeep
    <3> QED BY <3>1, <3>2, ConnectionKept
  <2> QED BY <2>1, <2>2 DEF Inv
<1> QED BY <1>1, <1>2, PTL DEF Spec

-----------------------------------------------------------------------------
(* Theorems *)

\* The counts of the invariant are those of the properties.
LEMMA OutstandingIs ==
  ASSUME TypeInv, NEW s \in Services, NEW t, NEW answers
  PROVE  Outstanding(s, {t}, answers) = Count(toExt[s], Calls(t)) + Count(inbox, Msgs(s, answers))
<1>1. PICK q \in Seq(CallType) : q = toExt[s]
  BY DEF TypeInv
<1>2. PICK p \in Seq(MsgType) : p = inbox
  BY DEF TypeInv
<1>3. {k \in DOMAIN q : q[k].type \in {t}} = {k \in DOMAIN q : q[k] \in Calls(t)}
  BY CallFields
<1>4. {k \in DOMAIN p : p[k].svc = s /\ p[k].type \in answers} = {k \in DOMAIN p : p[k] \in Msgs(s, answers)}
  BY DEF Msgs
<1> QED BY <1>1, <1>2, <1>3, <1>4 DEF Outstanding, Count

\* A service none of whose messages are under way has none in the queues.
LEMMA QuietIs ==
  ASSUME TypeInv, NEW s \in Services, Quiet(s)
  PROVE  /\ \A t : ~Has(inbox, s, t)
         /\ \A t : Count(toExt[s], Calls(t)) = 0
<1>1. \A t : ~Has(inbox, s, t)
  BY DEF Quiet, Has, Msgs
<1>2. toExt[s] = <<>>
  BY DEF Quiet
<1> QED BY <1>1, <1>2, NothingIn

\* TypeOK, which holds the handshake to one answer for each proxy: got_name() and
\* got_prop_lists() run once for it, whatever else is under way.
THEOREM TypeCorrect == Spec => []TypeOK
<1>1. Inv => TypeOK
  <2> SUFFICES ASSUME Inv
               PROVE  TypeOK
    OBVIOUS
  <2>1. TypeInv
    BY DEF Inv
  <2>2. ASSUME NEW s \in Services
        PROVE  /\ proxy[s] \in {"none", "naming", "listing", "registered", "kept"}
               /\ rules[s] >= 0 /\ name[s] \in Names /\ pname[s] \in Names \cup {NoName}
               /\ Outstanding(s, {"get_name"}, {"name", "no_name"}) = IF proxy[s] = "naming" THEN 1 ELSE 0
               /\ Outstanding(s, {"list_properties"}, {"list", "no_list"}) = IF proxy[s] = "listing" THEN 1 ELSE 0
    <3>1. /\ Outstanding(s, {"get_name"}, {"name", "no_name"})
               = Count(toExt[s], Calls("get_name")) + Count(inbox, NameAnswers(s))
          /\ Outstanding(s, {"list_properties"}, {"list", "no_list"})
               = Count(toExt[s], Calls("list_properties")) + Count(inbox, ListAnswers(s))
      BY <2>1, OutstandingIs DEF NameAnswers, ListAnswers
    <3>2. Handshake(s)
      BY DEF Inv, Service
    <3> QED BY <2>1, <3>1, <3>2 DEF TypeInv, Stages, Handshake
  <2>3. held \subseteq {s \in Services : proxy[s] \in {"registered", "kept"}}
    BY <2>1 DEF TypeInv, Inv, Service, Handshake
  <2> QED BY <2>1, <2>2, <2>3 DEF TypeInv, TypeOK
<1> QED BY <1>1, Holds, PTL

\* RegistryFollowsBus: the registry of the application is what mafw_shared_init()
\* promises, once the messages of a service are handled.
THEOREM RegistryFollows == Spec => []RegistryFollowsBus
<1>1. Inv => RegistryFollowsBus
  <2> SUFFICES ASSUME Inv, tracking = "on", NEW s \in Services, Quiet(s)
               PROVE  /\ s \in announced => proxy[s] = "registered" \/ s \in blocked
                      /\ proxy[s] = "registered" /\ s \notin owned => s \in outlived
    BY DEF RegistryFollowsBus
  <2>1. Service(s) /\ TypeInv
    BY DEF Inv
  <2>2. /\ \A t : ~Has(inbox, s, t)
        /\ \A t : Count(toExt[s], Calls(t)) = 0
    BY <2>1, QuietIs
  <2>3. proxy[s] # "naming" /\ proxy[s] # "listing"
    <3>1. Count(inbox, NameAnswers(s)) = 0 /\ Count(inbox, ListAnswers(s)) = 0
      BY <2>1, <2>2, HasCount DEF NameAnswers, ListAnswers, TypeInv
    <3> QED BY <2>1, <2>2, <3>1 DEF Service, Handshake
  <2> QED BY <2>1, <2>2, <2>3 DEF Service, Heard, Ended, Attached
<1> QED BY <1>1, Holds, PTL

\* ConnectionAccounted: every reference to the bus connection is that of a proxy or
\* of the tracking, but for those a refused proxy gave back too often.
THEOREM ConnectionBalanced == Spec => []ConnectionAccounted
<1>1. Inv => ConnectionAccounted
  BY DEF Inv
<1> QED BY <1>1, Holds, PTL

\* NameSettles: the application and the extension come to call it by one name.
THEOREM NamesSettle == Spec => []NameSettles
<1>1. Inv => NameSettles
  <2> SUFFICES ASSUME Inv, NEW s \in owned, Quiet(s), proxy[s] = "registered", s \notin outlived
               PROVE  pname[s] = name[s]
    BY DEF NameSettles
  <2>1. TypeInv /\ s \in Services
    BY DEF Inv, TypeInv
  <2>2. Service(s)
    BY <2>1 DEF Inv
  <2>3. /\ \A t : ~Has(inbox, s, t)
        /\ \A t : Count(toExt[s], Calls(t)) = 0
    BY <2>1, QuietIs
  <2> QED BY <2>2, <2>3 DEF Service, Called
<1> QED BY <1>1, Holds, PTL
=============================================================================
