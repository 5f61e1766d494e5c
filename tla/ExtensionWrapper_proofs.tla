------------------------ MODULE ExtensionWrapper_proofs ------------------------
(***************************************************************************)
(* The wrapper's bookkeeping of who activated what, for any number of      *)
(* applications, extensions and messages under way: what it holds is of    *)
(* exported extensions only, the counts are right, and once every message  *)
(* is handled an extension is active just while an application wants it.   *)
(***************************************************************************)
EXTENDS ExtensionWrapper, FiniteSetTheorems, TLAPS

\* The service names are free: every extension of the registry is exported.
NameFree == "taken" \notin Faults

\* ... and an extension that was removed is not added again, and there are only so
\* many applications.
Orderly == Faults = {} /\ IsFiniteSet(Clients)

Wish == [type : {"set_property"}, from : Clients, ext : Extensions, value : BOOLEAN]
Leave == [type : {"NameOwnerChanged"}, from : Clients]

TypeInv ==
  /\ registry \subseteq Extensions /\ removed \subseteq Extensions
  /\ Exports \in Seq(Extensions) /\ freed \subseteq Extensions
  /\ source_activators \in [Clients -> SUBSET Extensions]
  /\ watched \subseteq Clients /\ connected \subseteq Clients /\ unheard \subseteq Clients
  /\ count \in [Extensions -> Nat]
  /\ active \in [Extensions -> BOOLEAN]
  /\ wants \in [Clients -> SUBSET Extensions]
  /\ inbox \in Seq(Wish \cup Leave)

-----------------------------------------------------------------------------
(* Sequences *)

LEMMA RemoveAtProperties ==
  ASSUME NEW T, NEW s \in Seq(T), NEW n \in 1 .. Len(s)
  PROVE  /\ RemoveAt(s, n) \in Seq(T)
         /\ Len(RemoveAt(s, n)) = Len(s) - 1
         /\ \A k \in 1 .. Len(s) - 1 :
              RemoveAt(s, n)[k] = IF k < n THEN s[k] ELSE s[k + 1]
<1>1. PICK l \in Nat : l = Len(s) /\ n \in 1 .. l
  OBVIOUS
<1> DEFINE a == SubSeq(s, 1, n - 1)
           b == SubSeq(s, n + 1, l)
<1>2. a \in Seq(T) /\ Len(a) = n - 1 /\ \A k \in 1 .. n - 1 : a[k] = s[k]
  BY <1>1
<1>3. b \in Seq(T) /\ Len(b) = l - n
  BY <1>1
<1>4. \A k \in 1 .. l - n : b[k] = s[n + k]
  BY <1>1
<1> HIDE DEF a, b
<1>5. a \o b \in Seq(T) /\ Len(a \o b) = l - 1
  BY <1>1, <1>2, <1>3
<1>6. ASSUME NEW k \in 1 .. l - 1 PROVE (a \o b)[k] = IF k < n THEN s[k] ELSE s[k + 1]
  <2>1. CASE k < n
    BY <1>1, <1>2, <1>3, <2>1
  <2>2. CASE k >= n
    <3>1. PICK i \in 1 .. l - n : i = k - (n - 1) /\ n + i = k + 1 /\ k > Len(a)
      BY <1>1, <1>2, <2>2
    <3>2. (a \o b)[k] = b[k - Len(a)]
      BY <1>1, <1>2, <1>3, <3>1
    <3> QED BY <1>1, <1>2, <1>4, <2>2, <3>1, <3>2
  <2>3. k < n \/ k >= n
    BY <1>1
  <2> QED BY <2>1, <2>2, <2>3
<1> QED BY <1>1, <1>5, <1>6 DEF RemoveAt, a, b

LEMMA TailProperties ==
  ASSUME NEW T, NEW s \in Seq(T), s # <<>>
  PROVE  /\ Head(s) = s[1] /\ Head(s) \in T /\ Len(s) \in Nat \ {0}
         /\ Tail(s) \in Seq(T) /\ Len(Tail(s)) = Len(s) - 1
         /\ \A k \in 1 .. Len(s) - 1 : Tail(s)[k] = s[k + 1]
<1>1. Head(s) = s[1] /\ Head(s) \in T /\ Len(s) \in Nat \ {0}
  OBVIOUS
<1>2. Tail(s) \in Seq(T) /\ Len(Tail(s)) = Len(s) - 1
  OBVIOUS
<1>3. \A k \in 1 .. Len(s) - 1 : Tail(s)[k] = s[k + 1]
  OBVIOUS
<1> QED BY <1>1, <1>2, <1>3

-----------------------------------------------------------------------------
(* Types *)

\* A message at the head of the inbox.
LEMMA WishAtHead ==
  ASSUME TypeInv, Handle("set_property")
  PROVE  /\ inbox # <<>> /\ Msg \in Wish /\ Msg.type = "set_property"
         /\ Msg.from \in Clients /\ Msg.ext \in Extensions /\ Msg.value \in BOOLEAN
         /\ inbox' = Tail(inbox) /\ inbox' \in Seq(Wish \cup Leave)
<1>1. /\ inbox # <<>> /\ Msg = Head(inbox) /\ Msg.type = "set_property"
      /\ inbox' = Tail(inbox) /\ inbox \in Seq(Wish \cup Leave)
  BY DEF Handle, Msg, TypeInv
<1>2. Msg \in Wish \cup Leave /\ inbox' \in Seq(Wish \cup Leave)
  BY <1>1, TailProperties
<1>3. Msg \in Wish
  BY <1>1, <1>2 DEF Leave
<1> QED BY <1>1, <1>2, <1>3 DEF Wish

LEMMA LeaveAtHead ==
  ASSUME TypeInv, Handle("NameOwnerChanged")
  PROVE  /\ inbox # <<>> /\ Msg.type = "NameOwnerChanged" /\ Msg.from \in Clients
         /\ inbox' = Tail(inbox) /\ inbox' \in Seq(Wish \cup Leave)
<1>1. /\ inbox # <<>> /\ Msg = Head(inbox) /\ Msg.type = "NameOwnerChanged"
      /\ inbox' = Tail(inbox) /\ inbox \in Seq(Wish \cup Leave)
  BY DEF Handle, Msg, TypeInv
<1>2. Msg \in Wish \cup Leave /\ inbox' \in Seq(Wish \cup Leave)
  BY <1>1, TailProperties
<1>3. Msg \in Leave
  BY <1>1, <1>2 DEF Wish
<1> QED BY <1>1, <1>2, <1>3 DEF Leave

LEMMA InitTyped == Init => TypeInv
BY DEF Init, TypeInv

\* What one more or one less holder changes of the types.
LEMMA ActivationTyped ==
  ASSUME TypeInv, NEW c \in Clients,
         \/ \E e \in Extensions :
              register_client(e, c) /\ active' = [active EXCEPT ![e] = TRUE]
         \/ \E es \in SUBSET Extensions : unregister_client(es, c)
         \/ UNCHANGED activation
  PROVE  /\ source_activators' \in [Clients -> SUBSET Extensions]
         /\ watched' \subseteq Clients
         /\ count' \in [Extensions -> Nat]
         /\ active' \in [Extensions -> BOOLEAN]
<1>1. ASSUME NEW e \in Extensions,
             register_client(e, c), active' = [active EXCEPT ![e] = TRUE]
      PROVE  /\ source_activators' \in [Clients -> SUBSET Extensions]
             /\ watched' \subseteq Clients
             /\ count' \in [Extensions -> Nat]
             /\ active' \in [Extensions -> BOOLEAN]
  BY <1>1 DEF register_client, increase_mafwcount, TypeInv
<1>2. ASSUME NEW es \in SUBSET Extensions, unregister_client(es, c)
      PROVE  /\ source_activators' \in [Clients -> SUBSET Extensions]
             /\ watched' \subseteq Clients
             /\ count' \in [Extensions -> Nat]
             /\ active' \in [Extensions -> BOOLEAN]
  <2>1. ASSUME NEW e \in Extensions
        PROVE  (IF e \in es /\ count[e] > 0 THEN count[e] - 1 ELSE count[e]) \in Nat
    BY DEF TypeInv
  <2> QED BY <1>2, <2>1 DEF unregister_client, decrease_mafwcount, TypeInv
<1>3. CASE UNCHANGED activation
  BY <1>3 DEF activation, TypeInv
<1> QED BY <1>1, <1>2, <1>3

LEMMA TypeKept == ASSUME TypeInv, Next PROVE TypeInv'
<1>1. ASSUME NEW e \in Extensions, add_extension(e) PROVE TypeInv'
  <2>1. <<e>> \o Exports \in Seq(Extensions)
    BY DEF TypeInv
  <2> QED BY <1>1, <2>1 DEF add_extension, TypeInv, activation
<1>2. ASSUME NEW e \in Extensions, remove_extension(e) PROVE TypeInv'
  <2>1. Exports' \in Seq(Extensions) /\ freed' \subseteq Extensions
    <3>1. ASSUME NEW node \in DOMAIN Exports PROVE RemoveAt(Exports, node) \in Seq(Extensions)
      BY RemoveAtProperties DEF TypeInv
    <3>2. Exports # <<>> => Last(Exports) \in Extensions
      BY DEF TypeInv, Last
    <3> QED BY <1>2, <3>1, <3>2 DEF remove_extension, TypeInv
  <2>2. source_activators' \in [Clients -> SUBSET Extensions] /\ watched' \subseteq Clients
    BY <1>2 DEF remove_extension, extension_deregister, TypeInv
  <2>3. wants' \in [Clients -> SUBSET Extensions]
    BY <1>2 DEF remove_extension, TypeInv
  <2> QED BY <1>2, <2>1, <2>2, <2>3 DEF remove_extension, TypeInv
<1>3. CASE handle_set_property
  <2>1. Handle("set_property")
    BY <1>3 DEF handle_set_property
  <2>2. PICK c \in Clients, e \in Extensions : c = Msg.from /\ e = Msg.ext
    BY <2>1, WishAtHead
  <2>3. {e} \in SUBSET Extensions
    OBVIOUS
  <2>4. /\ source_activators' \in [Clients -> SUBSET Extensions]
        /\ watched' \subseteq Clients
        /\ count' \in [Extensions -> Nat]
        /\ active' \in [Extensions -> BOOLEAN]
    BY <1>3, <2>2, <2>3, ActivationTyped DEF handle_set_property
  <2> QED BY <1>3, <2>1, <2>4, WishAtHead DEF handle_set_property, exportVars, TypeInv
<1>4. CASE handle_client_exits
  <2>1. Handle("NameOwnerChanged")
    BY <1>4 DEF handle_client_exits
  <2>2. PICK c \in Clients : c = Msg.from
    BY <2>1, LeaveAtHead
  <2>3. source_activators[c] \in SUBSET Extensions
    BY DEF TypeInv
  <2>4. /\ source_activators' \in [Clients -> SUBSET Extensions]
        /\ watched' \subseteq Clients
        /\ count' \in [Extensions -> Nat]
        /\ active' \in [Extensions -> BOOLEAN]
    BY <1>4, <2>2, <2>3, ActivationTyped DEF handle_client_exits
  <2> QED BY <1>4, <2>1, <2>4, LeaveAtHead DEF handle_client_exits, exportVars, TypeInv
<1>5. ASSUME NEW c \in Clients, Vanish(c) PROVE TypeInv'
  <2>1. [type |-> "NameOwnerChanged", from |-> c] \in Wish \cup Leave
    BY DEF Leave
  <2>2. inbox' \in Seq(Wish \cup Leave)
    <3>1. inbox \in Seq(Wish \cup Leave)
      BY DEF TypeInv
    <3>2. Append(inbox, [type |-> "NameOwnerChanged", from |-> c]) \in Seq(Wish \cup Leave)
      BY <2>1, <3>1
    <3> QED BY <1>5, <3>1, <3>2 DEF Vanish
  <2>3. unheard' \subseteq Clients
    BY <1>5 DEF Vanish, TypeInv
  <2>4. wants' \in [Clients -> SUBSET Extensions] /\ connected' \subseteq Clients
    BY <1>5 DEF Vanish, TypeInv
  <2> QED BY <1>5, <2>2, <2>3, <2>4 DEF Vanish, TypeInv, exportVars, activation
<1>6. ASSUME NEW c \in Clients, NEW e \in Extensions, NEW value \in BOOLEAN, SetActivate(c, e, value)
      PROVE  TypeInv'
  <2>1. [type |-> "set_property", from |-> c, ext |-> e, value |-> value] \in Wish \cup Leave
    BY DEF Wish
  <2>2. inbox' \in Seq(Wish \cup Leave)
    BY <1>6, <2>1 DEF SetActivate, TypeInv
  <2>3. wants' \in [Clients -> SUBSET Extensions]
    BY <1>6 DEF SetActivate, TypeInv
  <2> QED BY <1>6, <2>2, <2>3 DEF SetActivate, TypeInv, exportVars, activation
<1> QED BY <1>1, <1>2, <1>3, <1>4, <1>5, <1>6 DEF Next

LEMMA Typed == Spec => []TypeInv
<1>1. TypeInv /\ UNCHANGED vars => TypeInv'
  BY DEF TypeInv, vars, exportVars, activation
<1> QED BY InitTyped, TypeKept, <1>1, PTL DEF Spec

-----------------------------------------------------------------------------
(* What is exported, and who holds it *)

\* With free names Exports lists the registry, each extension once.
Listed ==
  /\ freed = {}
  /\ \A k, l \in 1 .. Len(Exports) : Exports[k] = Exports[l] => k = l
  /\ ToSet(Exports) = registry

Held ==
  /\ \A c \in Clients : source_activators[c] \subseteq registry \cap Activatable
  /\ watched = {c \in Clients : source_activators[c] # {}}

LEMMA ToSetIs ==
  ASSUME NEW s \in Seq(Extensions)
  PROVE  \A e : e \in ToSet(s) <=> \E k \in 1 .. Len(s) : s[k] = e
BY DEF ToSet

LEMMA InitListed == Init => Listed /\ Held
BY DEF Init, Listed, Held, ToSet

LEMMA AddListed ==
  ASSUME TypeInv, NameFree, Listed, NEW e \in Extensions, add_extension(e)
  PROVE  Listed'
<1>1. /\ e \notin registry /\ registry' = registry \cup {e} /\ freed' = freed
      /\ Exports' = <<e>> \o Exports /\ Exports \in Seq(Extensions)
  BY DEF add_extension, NameFree, TypeInv
<1>2. PICK n \in Nat : n = Len(Exports)
  BY <1>1
<1>3. /\ Exports' \in Seq(Extensions) /\ Len(Exports') = n + 1 /\ Exports'[1] = e
      /\ \A k \in 2 .. n + 1 : Exports'[k] = Exports[k - 1]
  BY <1>1, <1>2
<1>4. \A k \in 1 .. n : Exports'[k + 1] = Exports[k] /\ Exports[k] \in registry
  BY <1>1, <1>2, <1>3, ToSetIs DEF Listed
<1>5. \A x : x \in registry => \E k \in 1 .. n : Exports[k] = x
  BY <1>1, <1>2, ToSetIs DEF Listed
<1>6. ASSUME NEW k \in 1 .. n + 1 PROVE k = 1 \/ \E i \in 1 .. n : k = i + 1
  OBVIOUS
<1>7. ASSUME NEW k \in 1 .. n + 1, NEW l \in 1 .. n + 1, Exports'[k] = Exports'[l] PROVE k = l
  <2>1. \A i, j \in 1 .. n : Exports[i] = Exports[j] => i = j
    BY <1>2 DEF Listed
  <2>2. CASE k = 1 \/ l = 1
    BY <1>1, <1>3, <1>4, <1>6, <1>7, <2>2
  <2>3. CASE k # 1 /\ l # 1
    <3>1. PICK i \in 1 .. n, j \in 1 .. n : k = i + 1 /\ l = j + 1
      BY <1>6, <2>3
    <3> QED BY <1>4, <1>7, <2>1, <3>1
  <2> QED BY <2>2, <2>3
<1>8. ASSUME NEW x PROVE x \in registry' <=> \E k \in 1 .. n + 1 : Exports'[k] = x
  <2>1. ASSUME x \in registry' PROVE \E k \in 1 .. n + 1 : Exports'[k] = x
    <3>1. CASE x = e
      BY <1>3, <3>1
    <3>2. CASE x \in registry
      <4>1. PICK k \in 1 .. n : Exports[k] = x
        BY <1>5, <3>2
      <4>2. k + 1 \in 1 .. n + 1 /\ Exports'[k + 1] = x
        BY <1>4, <4>1
      <4> QED BY <4>2
    <3> QED BY <1>1, <2>1, <3>1, <3>2
  <2>2. ASSUME NEW k \in 1 .. n + 1, Exports'[k] = x PROVE x \in registry'
    BY <1>1, <1>3, <1>4, <1>6, <2>2
  <2> QED BY <2>1, <2>2
<1>9. ToSet(Exports') = registry'
  BY <1>3, <1>8, ToSetIs
<1> QED BY <1>1, <1>3, <1>7, <1>9 DEF Listed

LEMMA RemoveListed ==
  ASSUME TypeInv, NameFree, Listed, NEW e \in Extensions, remove_extension(e)
  PROVE  Listed' /\ extension_deregister(e)
<1>1. /\ e \in registry /\ registry' = registry \ {e} /\ Exports \in Seq(Extensions)
      /\ \A x : x \in registry <=> \E k \in 1 .. Len(Exports) : Exports[k] = x
      /\ e \in ToSet(Exports)
  BY ToSetIs DEF remove_extension, Listed, TypeInv
<1>2. Exports # <<>>
  BY <1>1
<1>3. PICK node \in 1 .. Len(Exports) :
        Exports[node] = e /\ Exports' = RemoveAt(Exports, node) /\ freed' = freed
  BY <1>1, <1>2 DEF remove_extension
<1>4. PICK n \in Nat : n = Len(Exports)
  BY <1>1
<1>5. /\ Exports' \in Seq(Extensions) /\ Len(Exports') = n - 1
      /\ \A k \in 1 .. n - 1 : Exports'[k] = IF k < node THEN Exports[k] ELSE Exports[k + 1]
  BY <1>1, <1>3, <1>4, RemoveAtProperties
<1> DEFINE From(k) == IF k < node THEN k ELSE k + 1
<1>6. /\ \A k \in 1 .. n - 1 : From(k) \in 1 .. n /\ From(k) # node /\ Exports'[k] = Exports[From(k)]
      /\ \A k, l \in 1 .. n - 1 : From(k) = From(l) => k = l
      /\ \A i \in 1 .. n : i # node => \E k \in 1 .. n - 1 : From(k) = i
  <2>1. \A k \in 1 .. n - 1 : From(k) \in 1 .. n /\ From(k) # node /\ Exports'[k] = Exports[From(k)]
    BY <1>4, <1>5
  <2>2. \A k, l \in 1 .. n - 1 : From(k) = From(l) => k = l
    BY <1>4
  <2>3. ASSUME NEW i \in 1 .. n, i # node PROVE \E k \in 1 .. n - 1 : From(k) = i
    <3>1. CASE i < node
      <4>1. i \in 1 .. n - 1 /\ From(i) = i
        BY <1>4, <3>1
      <4> QED BY <4>1
    <3>2. CASE i > node
      <4>1. i - 1 \in 1 .. n - 1 /\ From(i - 1) = i
        BY <1>4, <3>2
      <4> QED BY <4>1
    <3> QED BY <1>4, <2>3, <3>1, <3>2
  <2> QED BY <2>1, <2>2, <2>3
<1> HIDE DEF From
<1>7. \A i, j \in 1 .. n : Exports[i] = Exports[j] => i = j
  BY <1>4 DEF Listed
<1>8. \A k, l \in 1 .. n - 1 : Exports'[k] = Exports'[l] => k = l
  BY <1>6, <1>7
<1>9. ASSUME NEW x PROVE x \in registry' <=> \E k \in 1 .. n - 1 : Exports'[k] = x
  <2>1. ASSUME x \in registry' PROVE \E k \in 1 .. n - 1 : Exports'[k] = x
    <3>1. x \in registry /\ x # e
      BY <1>1, <2>1
    <3>2. PICK i \in 1 .. n : Exports[i] = x
      BY <1>1, <1>4, <3>1
    <3>3. i # node
      BY <1>3, <3>1, <3>2
    <3>4. PICK k \in 1 .. n - 1 : From(k) = i
      BY <1>6, <3>3
    <3> QED BY <1>6, <3>2, <3>4
  <2>2. ASSUME NEW k \in 1 .. n - 1, Exports'[k] = x PROVE x \in registry'
    <3>1. From(k) \in 1 .. n /\ From(k) # node /\ Exports[From(k)] = x
      BY <1>6, <2>2
    <3>2. x \in registry
      BY <1>1, <1>4, <3>1
    <3>3. x # e
      BY <1>3, <1>4, <1>7, <3>1
    <3> QED BY <1>1, <3>2, <3>3
  <2> QED BY <2>1, <2>2
<1>10. ToSet(Exports') = registry'
  BY <1>5, <1>9, ToSetIs
<1> QED BY <1>2, <1>3, <1>5, <1>8, <1>10 DEF Listed, remove_extension

\* The extensions messages are handled for are those of the registry.
LEMMA OnBusIs == ASSUME Listed PROVE OnBus = registry
BY DEF Listed, OnBus

\* What a message does: it registers its sender, unregisters it, or nothing.
LEMMA PropertySet ==
  ASSUME TypeInv, Listed, Held, handle_set_property
  PROVE  \E c \in Clients, e \in Extensions :
           /\ Msg \in Wish /\ c = Msg.from /\ e = Msg.ext
           /\ \/ /\ Msg.value = TRUE /\ e \in registry \cap Activatable
                 /\ register_client(e, c) /\ active' = [active EXCEPT ![e] = TRUE]
              \/ /\ Msg.value = FALSE /\ e \in source_activators[c]
                 /\ unregister_client({e}, c)
              \/ /\ Msg.value = TRUE => e \notin registry \cap Activatable
                 /\ Msg.value = FALSE => e \notin source_activators[c]
                 /\ UNCHANGED activation
<1>1. Handle("set_property")
  BY DEF handle_set_property
<1>2. PICK c \in Clients, e \in Extensions : c = Msg.from /\ e = Msg.ext
  BY <1>1, WishAtHead
<1>3. Msg \in Wish /\ (Msg.value = TRUE \/ Msg.value = FALSE)
  BY <1>1, WishAtHead
<1>4. e \in source_activators[c] => e \in registry
  BY DEF Held
<1> QED BY <1>2, <1>3, <1>4, OnBusIs DEF handle_set_property

LEMMA HeldKept == ASSUME TypeInv, NameFree, Listed, Held, Next PROVE Held'
<1>1. ASSUME NEW c \in Clients, NEW es, es \subseteq source_activators[c],
             unregister_client(es, c), registry' = registry
      PROVE  Held'
  <2>1. /\ source_activators' = [source_activators EXCEPT ![c] = source_activators[c] \ es]
        /\ watched' = IF source_activators[c] = es THEN watched \ {c} ELSE watched
    BY <1>1 DEF unregister_client
  <2> QED BY <1>1, <2>1 DEF Held, TypeInv
<1>2. CASE handle_set_property
  <2>1. PICK c \in Clients, e \in Extensions :
          \/ /\ e \in registry \cap Activatable /\ register_client(e, c)
          \/ e \in source_activators[c] /\ unregister_client({e}, c)
          \/ UNCHANGED activation
    BY <1>2, PropertySet
  <2>2. registry' = registry
    BY <1>2 DEF handle_set_property, exportVars
  <2>3. CASE e \in registry \cap Activatable /\ register_client(e, c)
    BY <2>2, <2>3 DEF register_client, Held, TypeInv
  <2>4. CASE e \in source_activators[c] /\ unregister_client({e}, c)
    BY <1>1, <2>2, <2>4
  <2>5. CASE UNCHANGED activation
    BY <2>2, <2>5 DEF activation, Held
  <2> QED BY <2>1, <2>3, <2>4, <2>5
<1>3. CASE handle_client_exits
  <2>1. PICK c \in Clients : c = Msg.from
    BY <1>3, LeaveAtHead DEF handle_client_exits
  <2> QED BY <1>1, <1>3, <2>1 DEF handle_client_exits, exportVars
<1>4. ASSUME NEW e \in Extensions, add_extension(e) PROVE Held'
  BY <1>4 DEF add_extension, activation, Held
<1>5. ASSUME NEW e \in Extensions, remove_extension(e) PROVE Held'
  <2>1. extension_deregister(e) /\ registry' = registry \ {e}
    BY <1>5, RemoveListed DEF remove_extension
  <2> QED BY <2>1 DEF extension_deregister, Held, TypeInv
<1>6. ASSUME UNCHANGED <<exportVars, activation>> PROVE Held'
  BY <1>6 DEF exportVars, activation, Held
<1> QED BY <1>2, <1>3, <1>4, <1>5, <1>6 DEF Next, Vanish, SetActivate

LEMMA ListedHolds == ASSUME NameFree PROVE Spec => [](TypeInv /\ Listed /\ Held)
<1>1. Listed /\ Held /\ UNCHANGED <<exportVars, activation>> => Listed' /\ Held'
  BY DEF Listed, Held, exportVars, activation
<1>2. Listed /\ UNCHANGED exportVars => Listed'
  BY DEF Listed, exportVars
<1>3. TypeInv /\ Listed /\ Held /\ [Next]_vars => Listed' /\ Held'
  BY <1>1, <1>2, AddListed, RemoveListed, HeldKept
     DEF Next, vars, handle_set_property, handle_client_exits, Vanish, SetActivate
<1> QED BY InitListed, Typed, <1>3, PTL DEF Spec

\* The lists of the clients point to exported extensions only, so that the exit of
\* a client never turns off what is not there (extension_deregister()); for any
\* clients and extensions, removed ones added again included, as long as no other
\* process owns the name of one.
THEOREM HoldersExist == ASSUME NameFree PROVE Spec => []NoDanglingHolder
<1>1. Listed /\ Held => NoDanglingHolder
  BY OnBusIs DEF Held, NoDanglingHolder
<1> QED BY ListedHolds, <1>1, PTL

-----------------------------------------------------------------------------
(* The counts *)

Holders(e) == {c \in Clients : e \in source_activators[c]}

\* An extension is counted once for every holder, and active while there is one.
\* The count of a removed one is never used again.
Counted ==
  /\ registry \cap removed = {}
  /\ \A e \in Extensions :
       /\ count[e] <= Cardinality(Clients)
       /\ e \notin removed =>
            /\ count[e] = Cardinality(Holders(e))
            /\ active[e] = TRUE <=> Holders(e) # {}

LEMMA SomeClients ==
  ASSUME Orderly, NEW S \in SUBSET Clients
  PROVE  /\ Cardinality(S) \in Nat /\ Cardinality(S) <= Cardinality(Clients)
         /\ Cardinality(S) = 0 <=> S = {}
         /\ \A c \in S : Cardinality(S \ {c}) = Cardinality(S) - 1
         /\ \A c \in Clients \ S : Cardinality(S \cup {c}) = Cardinality(S) + 1
<1>1. IsFiniteSet(Clients)
  BY DEF Orderly
<1>2. IsFiniteSet(S) /\ Cardinality(S) <= Cardinality(Clients)
  BY <1>1, FS_Subset
<1>3. Cardinality(S) \in Nat /\ (Cardinality(S) = 0 <=> S = {})
  BY <1>2, FS_CardinalityType, FS_EmptySet
<1>4. \A c \in S : Cardinality(S \ {c}) = Cardinality(S) - 1
  BY <1>2, FS_RemoveElement
<1>5. \A c \in Clients \ S : Cardinality(S \cup {c}) = Cardinality(S) + 1
  BY <1>2, FS_AddElement
<1> QED BY <1>2, <1>3, <1>4, <1>5

LEMMA InitCounted == ASSUME Orderly PROVE Init => Counted
<1>1. {} \in SUBSET Clients /\ Cardinality({}) = 0 /\ 0 <= Cardinality(Clients)
  <2>1. {} \in SUBSET Clients
    OBVIOUS
  <2> QED BY <2>1, SomeClients
<1> SUFFICES ASSUME Init PROVE Counted
  OBVIOUS
<1>2. ASSUME NEW e \in Extensions
      PROVE  Holders(e) = {} /\ count[e] = 0 /\ active[e] = FALSE
  BY DEF Init, Holders
<1>3. registry \cap removed = {}
  BY DEF Init
<1> QED BY <1>1, <1>2, <1>3 DEF Counted

\* Who activates an extension is counted once.
LEMMA RegisterCounted ==
  ASSUME Orderly, TypeInv, Counted, NEW c \in Clients, NEW e \in registry \cap Extensions,
         register_client(e, c), active' = [active EXCEPT ![e] = TRUE],
         UNCHANGED <<registry, removed>>
  PROVE  Counted'
<1>1. /\ source_activators' = [source_activators EXCEPT ![c] = source_activators[c] \cup {e}]
      /\ count' = IF e \in source_activators[c] THEN count ELSE [count EXCEPT ![e] = count[e] + 1]
  BY DEF register_client, increase_mafwcount
<1>2. e \notin removed /\ registry' \cap removed' = {}
  BY DEF Counted
<1>3. Holders(e)' = Holders(e) \cup {c} /\ (c \in Holders(e) <=> e \in source_activators[c])
  BY <1>1 DEF Holders, TypeInv
<1>4. \A x \in Extensions \ {e} :
        Holders(x)' = Holders(x) /\ count'[x] = count[x] /\ active'[x] = active[x]
  BY <1>1 DEF Holders, TypeInv
<1>5. count'[e] = Cardinality(Holders(e)') /\ count'[e] <= Cardinality(Clients)
  <2>1. Holders(e) \in SUBSET Clients /\ count[e] = Cardinality(Holders(e)) /\ count[e] \in Nat
    BY <1>2 DEF Holders, Counted, TypeInv
  <2>2. CASE c \in Holders(e)
    <3>1. Holders(e)' = Holders(e) /\ count'[e] = count[e]
      BY <1>1, <1>3, <2>2
    <3> QED BY <2>1, <3>1, SomeClients
  <2>3. CASE c \notin Holders(e)
    <3>1. count'[e] = count[e] + 1
      BY <1>1, <1>3, <2>3 DEF TypeInv
    <3>2. Cardinality(Holders(e)') = Cardinality(Holders(e)) + 1
      BY <1>3, <2>1, <2>3, SomeClients
    <3>3. Cardinality(Holders(e)') <= Cardinality(Clients)
      <4>1. Holders(e)' \in SUBSET Clients
        BY DEF Holders
      <4> QED BY <4>1, SomeClients
    <3> QED BY <2>1, <3>1, <3>2, <3>3
  <2> QED BY <2>2, <2>3
<1>6. active'[e] = TRUE /\ Holders(e)' # {}
  BY <1>3 DEF TypeInv
<1>7. ASSUME NEW x \in Extensions
      PROVE  /\ count'[x] <= Cardinality(Clients)
             /\ x \notin removed' =>
                  /\ count'[x] = Cardinality(Holders(x)')
                  /\ active'[x] = TRUE <=> Holders(x)' # {}
  <2>1. CASE x = e
    BY <1>5, <1>6, <2>1
  <2>2. CASE x # e
    BY <1>4, <2>2 DEF Counted
  <2> QED BY <2>1, <2>2
<1> QED BY <1>2, <1>7 DEF Counted

\* Who gives up extensions it holds is counted no more, and turns off those that
\* nobody else holds.
LEMMA UnregisterCounted ==
  ASSUME Orderly, TypeInv, Held, Counted, NEW c \in Clients,
         NEW es, es \subseteq source_activators[c], unregister_client(es, c),
         UNCHANGED <<registry, removed>>
  PROVE  Counted'
<1>1. /\ source_activators' = [source_activators EXCEPT ![c] = source_activators[c] \ es]
      /\ count' = [e \in Extensions |->
                     IF e \in es /\ count[e] > 0 THEN count[e] - 1 ELSE count[e]]
      /\ active' = [e \in Extensions |-> active[e] /\ ~(e \in es /\ count[e] = 1)]
  BY DEF unregister_client, decrease_mafwcount
<1>2. registry' \cap removed' = {}
  BY DEF Counted
<1>3. ASSUME NEW e \in Extensions
      PROVE  /\ count'[e] <= Cardinality(Clients)
             /\ e \notin removed' =>
                  /\ count'[e] = Cardinality(Holders(e)')
                  /\ active'[e] = TRUE <=> Holders(e)' # {}
  <2>1. CASE e \in es
    <3>1. e \notin removed /\ c \in Holders(e)
      BY <2>1 DEF Held, Counted, Holders
    <3>2. Holders(e)' = Holders(e) \ {c} /\ Holders(e) \in SUBSET Clients
          /\ Holders(e)' \in SUBSET Clients
      BY <1>1, <2>1 DEF Holders, TypeInv
    <3>3. PICK n \in Nat : n = Cardinality(Holders(e)) /\ n # 0 /\ n = count[e]
      BY <3>1, <3>2, SomeClients DEF Counted
    <3>4. Cardinality(Holders(e)') = n - 1 /\ n - 1 <= Cardinality(Clients)
      BY <3>1, <3>2, <3>3, SomeClients
    <3>5. count'[e] = n - 1
      BY <1>1, <2>1, <3>3
    <3>6. Holders(e)' # {} <=> n # 1
      <4>1. PICK S \in SUBSET Clients : S = Holders(e)'
        BY <3>2
      <4>2. Cardinality(S) = n - 1 /\ (Cardinality(S) = 0 <=> S = {})
        BY <3>4, <4>1, SomeClients
      <4> QED BY <3>3, <4>1, <4>2
    <3>7. active'[e] = TRUE <=> n # 1
      <4>1. active[e] = TRUE
        BY <3>1 DEF Counted
      <4> QED BY <1>1, <2>1, <3>3, <4>1
    <3> QED BY <3>4, <3>5, <3>6, <3>7
  <2>2. CASE e \notin es
    <3>1. Holders(e)' = Holders(e)
      BY <1>1, <2>2 DEF Holders, TypeInv
    <3>2. count'[e] = count[e] /\ (active'[e] = TRUE <=> active[e] = TRUE)
      BY <1>1, <2>2 DEF TypeInv
    <3> QED BY <3>1, <3>2 DEF Counted
  <2> QED BY <2>1, <2>2
<1> QED BY <1>2, <1>3 DEF Counted

LEMMA CountedKept ==
  ASSUME Orderly, TypeInv, Listed, Held, Counted, [Next]_vars
  PROVE  Counted'
<1>1. ASSUME UNCHANGED <<registry, removed, activation>> PROVE Counted'
  BY <1>1 DEF Counted, Holders, activation
<1>2. CASE handle_set_property
  <2>1. PICK c \in Clients, e \in Extensions :
          \/ /\ e \in registry \cap Activatable
             /\ register_client(e, c) /\ active' = [active EXCEPT ![e] = TRUE]
          \/ e \in source_activators[c] /\ unregister_client({e}, c)
          \/ UNCHANGED activation
    BY <1>2, PropertySet
  <2>2. UNCHANGED <<registry, removed>>
    BY <1>2 DEF handle_set_property, exportVars
  <2> QED BY <1>1, <2>1, <2>2, RegisterCounted, UnregisterCounted
<1>3. CASE handle_client_exits
  <2>1. PICK c \in Clients : c = Msg.from
    BY <1>3, LeaveAtHead DEF handle_client_exits
  <2> QED BY <1>3, <2>1, UnregisterCounted DEF handle_client_exits, exportVars
<1>4. ASSUME NEW e \in Extensions, add_extension(e) PROVE Counted'
  <2>1. e \notin removed /\ registry' = registry \cup {e} /\ UNCHANGED <<removed, activation>>
    BY <1>4 DEF add_extension, Orderly
  <2>2. registry' \cap removed' = {}
    BY <2>1 DEF Counted
  <2> QED BY <2>1, <2>2 DEF Counted, Holders, activation
<1>5. ASSUME NEW e \in Extensions, remove_extension(e) PROVE Counted'
  <2>1. /\ registry' = registry \ {e} /\ removed' = removed \cup {e}
        /\ extension_deregister(e) /\ UNCHANGED <<count, active>>
    BY <1>5, RemoveListed DEF remove_extension, Orderly, NameFree
  <2>2. registry' \cap removed' = {}
    BY <2>1 DEF Counted
  <2>3. ASSUME NEW x \in Extensions \ {e} PROVE Holders(x)' = Holders(x)
    BY <2>1, <2>3 DEF extension_deregister, Holders
  <2> QED BY <2>1, <2>2, <2>3 DEF Counted
<1> QED BY <1>1, <1>2, <1>3, <1>4, <1>5
       DEF Next, vars, Vanish, SetActivate, exportVars

LEMMA CountedHolds == ASSUME Orderly PROVE Spec => [](TypeInv /\ Listed /\ Held /\ Counted)
<1>1. NameFree
  BY DEF Orderly, NameFree
<1> QED BY <1>1, InitCounted, ListedHolds, CountedKept, PTL DEF Spec

\* Every variable has its type, and no extension is counted for more clients than
\* there are, however often they ask (register_client()); for any number of them.
THEOREM TypeCorrect == ASSUME Orderly PROVE Spec => []TypeOK
<1>1. TypeInv /\ Counted => TypeOK
  <2> SUFFICES ASSUME TypeInv, Counted PROVE TypeOK
    OBVIOUS
  <2>1. Cardinality(Clients) \in Nat
    BY SomeClients
  <2>2. count \in [Extensions -> 0 .. Cardinality(Clients)]
    BY <2>1 DEF TypeInv, Counted
  <2>3. ASSUME NEW k \in DOMAIN inbox PROVE inbox[k].from \in Clients
    <3>1. inbox[k] \in Wish \cup Leave
      BY DEF TypeInv
    <3> QED BY <3>1 DEF Wish, Leave
  <2> QED BY <2>2, <2>3 DEF TypeInv, TypeOK
<1> QED BY <1>1, CountedHolds, PTL

-----------------------------------------------------------------------------
(* The messages under way *)

Asks(m, c, e) == m.type = "set_property" /\ m.from = c /\ m.ext = e
Leaves(m, c) == m.type = "NameOwnerChanged" /\ m.from = c

\* The last of the messages about e decides whether c, which holds those in held,
\* has it in the end, like those in wanted.
Settles(messages, c, e, held, wanted) ==
  /\ (\A k \in 1 .. Len(messages) : ~Asks(messages[k], c, e)) => (e \in held <=> e \in wanted)
  /\ \A k \in 1 .. Len(messages) :
       /\ Asks(messages[k], c, e)
       /\ \A l \in k + 1 .. Len(messages) : ~Asks(messages[l], c, e)
       => (messages[k].value = TRUE <=> e \in wanted)

LEMMA HeadSettles ==
  ASSUME NEW T, NEW messages \in Seq(T), messages # <<>>, NEW c, NEW e,
         NEW held, NEW heldNow, NEW wanted,
         Settles(messages, c, e, held, wanted),
         Asks(Head(messages), c, e) => (Head(messages).value = TRUE <=> e \in heldNow),
         ~Asks(Head(messages), c, e) => (e \in held <=> e \in heldNow)
  PROVE  Settles(Tail(messages), c, e, heldNow, wanted)
<1>1. PICK n \in Nat : n = Len(messages) /\ n > 0
  BY TailProperties
<1>2. PICK rest \in Seq(T), m \in T :
        /\ rest = Tail(messages) /\ Len(rest) = n - 1 /\ m = Head(messages) /\ m = messages[1]
        /\ \A k \in 1 .. n - 1 : rest[k] = messages[k + 1]
  <2>1. /\ Head(messages) \in T /\ Head(messages) = messages[1]
        /\ Tail(messages) \in Seq(T) /\ Len(Tail(messages)) = Len(messages) - 1
        /\ \A k \in 1 .. Len(messages) - 1 : Tail(messages)[k] = messages[k + 1]
    BY TailProperties
  <2> QED BY <1>1, <2>1
<1>3. \A k \in 2 .. n : k - 1 \in 1 .. n - 1 /\ rest[k - 1] = messages[k]
  <2>1. ASSUME NEW k \in 2 .. n PROVE k - 1 \in 1 .. n - 1 /\ rest[k - 1] = messages[k]
    <3>1. PICK i \in 1 .. n - 1 : i = k - 1 /\ i + 1 = k
      BY <1>1
    <3> QED BY <1>2, <3>1
  <2> QED BY <2>1
<1>4. ASSUME \A k \in 1 .. n - 1 : ~Asks(rest[k], c, e)
      PROVE  e \in heldNow <=> e \in wanted
  <2>1. \A k \in 2 .. n : ~Asks(messages[k], c, e)
    BY <1>3, <1>4
  <2>2. CASE Asks(m, c, e)
    <3>1. 1 \in 1 .. n /\ \A l \in 1 + 1 .. n : ~Asks(messages[l], c, e)
      BY <1>1, <2>1
    <3>2. m.value = TRUE <=> e \in wanted
      BY <1>1, <1>2, <2>2, <3>1 DEF Settles
    <3> QED BY <1>2, <2>2, <3>2
  <2>3. CASE ~Asks(m, c, e)
    <3>1. \A k \in 1 .. n : ~Asks(messages[k], c, e)
      BY <1>2, <2>1, <2>3
    <3> QED BY <1>1, <1>2, <2>3, <3>1 DEF Settles
  <2> QED BY <2>2, <2>3
<1>5. ASSUME NEW k \in 1 .. n - 1, Asks(rest[k], c, e),
             \A l \in k + 1 .. n - 1 : ~Asks(rest[l], c, e)
      PROVE  rest[k].value = TRUE <=> e \in wanted
  <2>1. PICK i \in 1 .. n : i = k + 1 /\ rest[k] = messages[i]
    BY <1>1, <1>2
  <2>2. ASSUME NEW l \in i + 1 .. n PROVE ~Asks(messages[l], c, e)
    <3>1. l - 1 \in k + 1 .. n - 1 /\ rest[l - 1] = messages[l]
      BY <1>1, <1>3, <2>1
    <3> QED BY <1>5, <3>1
  <2> QED BY <1>1, <1>5, <2>1, <2>2 DEF Settles
<1>6. Settles(rest, c, e, heldNow, wanted)
  BY <1>2, <1>4, <1>5 DEF Settles
<1> QED BY <1>2, <1>6

LEMMA LastSettles ==
  ASSUME NEW T, NEW messages \in Seq(T), NEW m \in T, NEW c, NEW e,
         NEW held, NEW wanted, NEW wantedNow,
         Settles(messages, c, e, held, wanted),
         Asks(m, c, e) => (m.value = TRUE <=> e \in wantedNow),
         ~Asks(m, c, e) => (e \in wanted <=> e \in wantedNow)
  PROVE  Settles(Append(messages, m), c, e, held, wantedNow)
<1>1. PICK n \in Nat : n = Len(messages)
  OBVIOUS
<1>2. PICK more \in Seq(T) :
        /\ more = Append(messages, m) /\ Len(more) = n + 1 /\ more[n + 1] = m
        /\ \A k \in 1 .. n : more[k] = messages[k]
  <2>1. Append(messages, m) \in Seq(T) /\ Len(Append(messages, m)) = n + 1
    BY <1>1
  <2>2. Append(messages, m)[n + 1] = m /\ \A k \in 1 .. n : Append(messages, m)[k] = messages[k]
    BY <1>1
  <2> QED BY <2>1, <2>2
<1>3. ASSUME \A k \in 1 .. n + 1 : ~Asks(more[k], c, e)
      PROVE  e \in held <=> e \in wantedNow
  <2>1. ~Asks(m, c, e) /\ \A k \in 1 .. n : ~Asks(messages[k], c, e)
    <3>1. n + 1 \in 1 .. n + 1
      BY <1>1
    <3>2. \A k \in 1 .. n : k \in 1 .. n + 1
      BY <1>1
    <3> QED BY <1>2, <1>3, <3>1, <3>2
  <2> QED BY <1>1, <2>1 DEF Settles
<1>4. ASSUME NEW k \in 1 .. n + 1, Asks(more[k], c, e),
             \A l \in k + 1 .. n + 1 : ~Asks(more[l], c, e)
      PROVE  more[k].value = TRUE <=> e \in wantedNow
  <2>1. CASE k = n + 1
    BY <1>2, <1>4, <2>1
  <2>2. CASE k # n + 1
    <3>1. k \in 1 .. n /\ n + 1 \in k + 1 .. n + 1
      BY <1>1, <2>2
    <3>2. ~Asks(m, c, e)
      BY <1>2, <1>4, <3>1
    <3>3. ASSUME NEW l \in k + 1 .. n PROVE ~Asks(messages[l], c, e)
      <4>1. l \in k + 1 .. n + 1 /\ l \in 1 .. n
        BY <3>1
      <4> QED BY <1>2, <1>4, <4>1
    <3>4. more[k] = messages[k]
      BY <1>2, <3>1
    <3> QED BY <1>1, <1>4, <3>1, <3>2, <3>3, <3>4 DEF Settles
  <2> QED BY <2>1, <2>2
<1>5. Settles(more, c, e, held, wantedNow)
  BY <1>2, <1>3, <1>4 DEF Settles
<1> QED BY <1>2, <1>5

\* Who leaves sends nothing after.
Departs(messages, c) ==
  \A k \in 1 .. Len(messages) : Leaves(messages[k], c) =>
    /\ c \notin connected
    /\ \A l \in 1 .. Len(messages) : messages[l].from = c => l <= k

\* Who is gone will be given up, or holds nothing and never will.
Settled(messages, c) ==
  \/ \E k \in 1 .. Len(messages) : Leaves(messages[k], c)
  \/ /\ source_activators[c] = {}
     /\ \A k \in 1 .. Len(messages) : messages[k].from # c

\* Nobody asked for what was never exported.
Unknown(e) ==
  \A c \in Clients :
    e \notin wants[c] /\ \A k \in 1 .. Len(inbox) : ~Asks(inbox[k], c, e)

Heard ==
  /\ \A c \in Clients :
       /\ Departs(inbox, c)
       /\ c \in connected =>
            \A e \in registry \cap Activatable :
              Settles(inbox, c, e, source_activators[c], wants[c])
       /\ c \notin connected => wants[c] = {} /\ (c \in unheard \/ Settled(inbox, c))
  /\ \A e \in Extensions \ (registry \cup removed) : Unknown(e)

LEMMA InitHeard == Init => Heard
<1> SUFFICES ASSUME Init PROVE Heard
  OBVIOUS
<1>1. /\ inbox = <<>> /\ Len(<<>>) = 0 /\ connected = Clients /\ registry = {}
      /\ \A c \in Clients : wants[c] = {}
  BY DEF Init
<1> QED BY <1>1 DEF Heard, Departs, Unknown

LEMMA SameSettles ==
  ASSUME NEW messages, NEW c, NEW e, NEW held, NEW heldNow, NEW wanted, NEW wantedNow,
         Settles(messages, c, e, held, wanted),
         e \in held <=> e \in heldNow, e \in wanted <=> e \in wantedNow
  PROVE  Settles(messages, c, e, heldNow, wantedNow)
BY DEF Settles

\* A message is handled.
LEMMA HandledMessage ==
  ASSUME TypeInv, inbox # <<>>, inbox' = Tail(inbox)
  PROVE  \E n \in Nat \ {0} :
           /\ Len(inbox) = n /\ Len(inbox') = n - 1 /\ Msg = inbox[1]
           /\ \A k \in 1 .. n - 1 : k + 1 \in 1 .. n /\ inbox'[k] = inbox[k + 1]
           /\ \A k \in 2 .. n : k - 1 \in 1 .. n - 1 /\ inbox'[k - 1] = inbox[k]
<1>1. PICK n \in Nat \ {0} :
        /\ Len(inbox) = n /\ Len(inbox') = n - 1 /\ Msg = inbox[1]
        /\ \A k \in 1 .. n - 1 : inbox'[k] = inbox[k + 1]
  <2>1. inbox \in Seq(Wish \cup Leave)
    BY DEF TypeInv
  <2>2. /\ Head(inbox) = inbox[1] /\ Len(inbox) \in Nat \ {0}
        /\ Len(Tail(inbox)) = Len(inbox) - 1
        /\ \A k \in 1 .. Len(inbox) - 1 : Tail(inbox)[k] = inbox[k + 1]
    BY <2>1, TailProperties
  <2> QED BY <2>2 DEF Msg
<1>2. ASSUME NEW k \in 2 .. n PROVE k - 1 \in 1 .. n - 1 /\ inbox'[k - 1] = inbox[k]
  <2>1. PICK i \in 1 .. n - 1 : i = k - 1 /\ i + 1 = k
    BY <1>1
  <2> QED BY <1>1, <2>1
<1>3. \A k \in 1 .. n - 1 : k + 1 \in 1 .. n
  BY <1>1
<1> QED BY <1>1, <1>2, <1>3

LEMMA HandledDeparts ==
  ASSUME TypeInv, inbox # <<>>, inbox' = Tail(inbox), connected' = connected,
         NEW c \in Clients, Departs(inbox, c)
  PROVE  Departs(inbox, c)'
<1>1. PICK n \in Nat \ {0} :
        /\ Len(inbox) = n /\ Len(inbox') = n - 1
        /\ \A k \in 1 .. n - 1 : k + 1 \in 1 .. n /\ inbox'[k] = inbox[k + 1]
  BY HandledMessage
<1>2. ASSUME NEW k \in 1 .. n - 1, Leaves(inbox'[k], c)
      PROVE  c \notin connected /\ \A l \in 1 .. n - 1 : inbox'[l].from = c => l <= k
  <2>1. Leaves(inbox[k + 1], c) /\ k + 1 \in 1 .. n
    BY <1>1, <1>2
  <2>2. ASSUME NEW l \in 1 .. n - 1, inbox'[l].from = c PROVE l <= k
    <3>1. l + 1 \in 1 .. n /\ inbox[l + 1].from = c
      BY <1>1, <2>2
    <3>2. l + 1 <= k + 1
      BY <1>1, <2>1, <3>1 DEF Departs
    <3> QED BY <3>2
  <2> QED BY <1>1, <2>1, <2>2 DEF Departs
<1> QED BY <1>1, <1>2 DEF Departs

LEMMA HandledUnknown ==
  ASSUME TypeInv, inbox # <<>>, inbox' = Tail(inbox), UNCHANGED <<registry, removed, wants>>,
         \A e \in Extensions \ (registry \cup removed) : Unknown(e)
  PROVE  \A e \in Extensions \ (registry' \cup removed') : Unknown(e)'
<1>1. PICK n \in Nat \ {0} :
        /\ Len(inbox) = n /\ Len(inbox') = n - 1
        /\ \A k \in 1 .. n - 1 : k + 1 \in 1 .. n /\ inbox'[k] = inbox[k + 1]
  BY HandledMessage
<1> QED BY <1>1 DEF Unknown

\* Others that are gone are not concerned by a message of somebody.
LEMMA HandledSettled ==
  ASSUME TypeInv, inbox # <<>>, inbox' = Tail(inbox), NEW c \in Clients,
         Settled(inbox, c), ~Leaves(Msg, c),
         Msg.from # c => source_activators'[c] = source_activators[c]
  PROVE  Settled(inbox, c)'
<1>1. PICK n \in Nat \ {0} :
        /\ Len(inbox) = n /\ Len(inbox') = n - 1 /\ Msg = inbox[1]
        /\ \A k \in 1 .. n - 1 : k + 1 \in 1 .. n /\ inbox'[k] = inbox[k + 1]
        /\ \A k \in 2 .. n : k - 1 \in 1 .. n - 1 /\ inbox'[k - 1] = inbox[k]
  BY HandledMessage
<1>2. ASSUME NEW k \in 1 .. n, Leaves(inbox[k], c) PROVE Settled(inbox, c)'
  <2>1. k \in 2 .. n
    BY <1>1, <1>2
  <2>2. k - 1 \in 1 .. n - 1 /\ Leaves(inbox'[k - 1], c)
    BY <1>1, <1>2, <2>1
  <2> QED BY <1>1, <2>2 DEF Settled
<1>3. ASSUME source_activators[c] = {}, \A k \in 1 .. n : inbox[k].from # c
      PROVE  Settled(inbox, c)'
  <2>1. 1 \in 1 .. n
    OBVIOUS
  <2>2. source_activators'[c] = {}
    BY <1>1, <1>3, <2>1
  <2> QED BY <1>1, <1>3, <2>2 DEF Settled
<1> QED BY <1>1, <1>2, <1>3 DEF Settled

LEMMA PropertyHeard ==
  ASSUME TypeInv, Listed, Held, Heard, handle_set_property
  PROVE  Heard'
<1>1. PICK a \in Clients, x \in Extensions :
        /\ Msg \in Wish /\ a = Msg.from /\ x = Msg.ext
        /\ \/ /\ Msg.value = TRUE /\ x \in registry \cap Activatable
              /\ register_client(x, a)
           \/ /\ Msg.value = FALSE /\ x \in source_activators[a]
              /\ unregister_client({x}, a)
           \/ /\ Msg.value = TRUE => x \notin registry \cap Activatable
              /\ Msg.value = FALSE => x \notin source_activators[a]
              /\ UNCHANGED activation
  BY PropertySet
<1>2. /\ inbox # <<>> /\ inbox' = Tail(inbox) /\ Msg.type = "set_property"
      /\ inbox \in Seq(Wish \cup Leave) /\ Msg = Head(inbox)
      /\ (Msg.value = TRUE \/ Msg.value = FALSE)
      /\ UNCHANGED <<registry, removed, connected, unheard, wants>>
  BY WishAtHead DEF handle_set_property, exportVars, TypeInv, Msg, Wish
<1>3. ASSUME NEW c \in Clients, NEW e \in registry \cap Activatable
      PROVE  /\ c = a /\ e = x => (Msg.value = TRUE <=> e \in source_activators'[c])
             /\ c # a \/ e # x => (e \in source_activators[c] <=> e \in source_activators'[c])
  <2>1. CASE Msg.value = TRUE /\ x \in registry \cap Activatable /\ register_client(x, a)
    BY <2>1 DEF register_client, TypeInv
  <2>2. CASE Msg.value = FALSE /\ x \in source_activators[a] /\ unregister_client({x}, a)
    BY <2>2 DEF unregister_client, TypeInv
  <2>3. CASE /\ Msg.value = TRUE => x \notin registry \cap Activatable
             /\ Msg.value = FALSE => x \notin source_activators[a]
             /\ UNCHANGED activation
    BY <1>2, <2>3 DEF activation
  <2> QED BY <1>1, <2>1, <2>2, <2>3
<1>4. \A c \in Clients \ {a} : source_activators'[c] = source_activators[c]
  BY <1>1 DEF register_client, unregister_client, activation, TypeInv
<1>5. ASSUME NEW c \in Clients
      PROVE  /\ Departs(inbox, c)'
             /\ c \in connected' =>
                  \A e \in registry' \cap Activatable :
                    Settles(inbox', c, e, source_activators'[c], wants'[c])
             /\ c \notin connected' => wants'[c] = {} /\ (c \in unheard' \/ Settled(inbox, c)')
  <2>1. Departs(inbox, c)'
    BY <1>2, HandledDeparts DEF Heard
  <2>2. ASSUME c \in connected, NEW e \in registry \cap Activatable
        PROVE  Settles(inbox', c, e, source_activators'[c], wants[c])
    <3>1. Settles(inbox, c, e, source_activators[c], wants[c])
      BY <2>2 DEF Heard
    <3>2. Asks(Msg, c, e) <=> c = a /\ e = x
      BY <1>1, <1>2 DEF Asks
    <3> QED BY <1>2, <1>3, <3>1, <3>2, HeadSettles
  <2>3. ASSUME c \notin connected, c \notin unheard PROVE Settled(inbox, c)'
    <3>1. ~Leaves(Msg, c)
      BY <1>2 DEF Leaves
    <3> QED BY <1>1, <1>2, <1>4, <2>3, <3>1, HandledSettled DEF Heard
  <2> QED BY <1>2, <2>1, <2>2, <2>3 DEF Heard
<1>6. \A e \in Extensions \ (registry' \cup removed') : Unknown(e)'
  BY <1>2, HandledUnknown DEF Heard
<1> QED BY <1>5, <1>6 DEF Heard

LEMMA ExitHeard ==
  ASSUME TypeInv, Heard, handle_client_exits
  PROVE  Heard'
<1>1. PICK a \in Clients : a = Msg.from /\ Leaves(Msg, a)
  BY LeaveAtHead DEF handle_client_exits, Leaves
<1>2. /\ inbox # <<>> /\ inbox' = Tail(inbox) /\ Msg.type = "NameOwnerChanged"
      /\ inbox \in Seq(Wish \cup Leave) /\ Msg = Head(inbox)
      /\ source_activators' = [source_activators EXCEPT ![a] = {}]
      /\ UNCHANGED <<registry, removed, connected, unheard, wants>>
  BY <1>1, LeaveAtHead DEF handle_client_exits, exportVars, TypeInv, Msg, unregister_client
<1>3. PICK n \in Nat \ {0} :
        /\ Len(inbox) = n /\ Len(inbox') = n - 1 /\ Msg = inbox[1]
        /\ \A k \in 1 .. n - 1 : k + 1 \in 1 .. n /\ inbox'[k] = inbox[k + 1]
  BY <1>2, HandledMessage
<1>4. a \notin connected /\ \A l \in 1 .. n : inbox[l].from = a => l <= 1
  BY <1>1, <1>3 DEF Heard, Departs
<1>5. ASSUME NEW c \in Clients
      PROVE  /\ Departs(inbox, c)'
             /\ c \in connected' =>
                  \A e \in registry' \cap Activatable :
                    Settles(inbox', c, e, source_activators'[c], wants'[c])
             /\ c \notin connected' => wants'[c] = {} /\ (c \in unheard' \/ Settled(inbox, c)')
  <2>1. Departs(inbox, c)'
    BY <1>2, HandledDeparts DEF Heard
  <2>2. ASSUME c \in connected, NEW e \in registry \cap Activatable
        PROVE  Settles(inbox', c, e, source_activators'[c], wants[c])
    <3>1. Settles(inbox, c, e, source_activators[c], wants[c])
      BY <2>2 DEF Heard
    <3>2. ~Asks(Msg, c, e) /\ source_activators'[c] = source_activators[c]
      BY <1>2, <1>4, <2>2 DEF Asks, TypeInv
    <3> QED BY <1>2, <3>1, <3>2, HeadSettles
  <2>3. ASSUME c \notin connected, c \notin unheard PROVE Settled(inbox, c)'
    <3>1. CASE c = a
      <4>1. \A k \in 1 .. n - 1 : inbox'[k].from # a
        <5>1. ASSUME NEW k \in 1 .. n - 1, inbox'[k].from = a PROVE FALSE
          <6>1. k + 1 \in 1 .. n /\ inbox[k + 1].from = a
            BY <1>3, <5>1
          <6>2. k + 1 <= 1
            BY <1>4, <6>1
          <6> QED BY <6>2
        <5> QED BY <5>1
      <4>2. source_activators'[a] = {}
        BY <1>2 DEF TypeInv
      <4> QED BY <1>3, <3>1, <4>1, <4>2 DEF Settled
    <3>2. CASE c # a
      <4>1. ~Leaves(Msg, c) /\ source_activators'[c] = source_activators[c]
        BY <1>1, <1>2, <3>2 DEF Leaves, TypeInv
      <4> QED BY <1>2, <2>3, <4>1, HandledSettled DEF Heard
    <3> QED BY <3>1, <3>2
  <2> QED BY <1>2, <2>1, <2>2, <2>3 DEF Heard
<1>6. \A e \in Extensions \ (registry' \cup removed') : Unknown(e)'
  BY <1>2, HandledUnknown DEF Heard
<1> QED BY <1>5, <1>6 DEF Heard

LEMMA AddHeard ==
  ASSUME Orderly, TypeInv, Held, Heard, NEW x \in Extensions, add_extension(x)
  PROVE  Heard'
<1>1. /\ x \notin registry /\ x \notin removed /\ registry' = registry \cup {x}
      /\ UNCHANGED <<removed, source_activators, inbox, connected, unheard, wants>>
  BY DEF add_extension, Orderly, activation
<1>2. ASSUME NEW c \in Clients
      PROVE  Departs(inbox, c)' /\ (Settled(inbox, c)' <=> Settled(inbox, c))
  BY <1>1 DEF Departs, Settled, Heard
<1>3. ASSUME NEW c \in connected, NEW e \in registry' \cap Activatable
      PROVE  Settles(inbox, c, e, source_activators[c], wants[c])
  <2>1. c \in Clients
    BY DEF TypeInv
  <2>2. CASE e = x
    <3>1. x \notin source_activators[c] /\ Unknown(x)
      BY <1>1, <2>1 DEF Held, Heard
    <3> QED BY <2>1, <2>2, <3>1 DEF Unknown, Settles
  <2>3. CASE e # x
    BY <1>1, <2>1, <2>3 DEF Heard
  <2> QED BY <2>2, <2>3
<1>4. \A e \in Extensions \ (registry' \cup removed') : Unknown(e)'
  BY <1>1 DEF Heard, Unknown
<1> QED BY <1>1, <1>2, <1>3, <1>4 DEF Heard

LEMMA RemoveHeard ==
  ASSUME Orderly, TypeInv, Listed, Heard, NEW x \in Extensions, remove_extension(x)
  PROVE  Heard'
<1>1. /\ registry' = registry \ {x} /\ removed' = removed \cup {x} /\ x \in registry
      /\ source_activators' = [c \in Clients |-> source_activators[c] \ {x}]
      /\ wants' = [c \in Clients |-> wants[c] \ {x}]
      /\ UNCHANGED <<inbox, connected, unheard>>
  BY RemoveListed DEF remove_extension, extension_deregister, Orderly, NameFree
<1>2. ASSUME NEW c \in Clients
      PROVE  Departs(inbox, c)' /\ (Settled(inbox, c) => Settled(inbox, c)')
  BY <1>1 DEF Departs, Settled, Heard
<1>3. ASSUME NEW c \in Clients, c \in connected, NEW e \in registry' \cap Activatable
      PROVE  Settles(inbox, c, e, source_activators'[c], wants'[c])
  <2>1. Settles(inbox, c, e, source_activators[c], wants[c])
    BY <1>1, <1>3 DEF Heard
  <2>2. /\ e \in source_activators[c] <=> e \in source_activators'[c]
        /\ e \in wants[c] <=> e \in wants'[c]
    BY <1>1
  <2> QED BY <2>1, <2>2, SameSettles
<1>4. \A e \in Extensions \ (registry' \cup removed') : Unknown(e)'
  BY <1>1 DEF Heard, Unknown
<1> QED BY <1>1, <1>2, <1>3, <1>4 DEF Heard

\* A message is sent.
LEMMA SentMessage ==
  ASSUME TypeInv, NEW m \in Wish \cup Leave, inbox' = Append(inbox, m)
  PROVE  \E n \in Nat :
           /\ Len(inbox) = n /\ Len(inbox') = n + 1 /\ inbox'[n + 1] = m
           /\ \A k \in 1 .. n : k \in 1 .. n + 1 /\ inbox'[k] = inbox[k]
           /\ n + 1 \in 1 .. n + 1
           /\ \A k \in 1 .. n + 1 : k = n + 1 \/ k \in 1 .. n
<1>1. inbox \in Seq(Wish \cup Leave)
  BY DEF TypeInv
<1>2. PICK n \in Nat : n = Len(inbox)
  BY <1>1
<1>3. /\ Len(inbox') = n + 1 /\ inbox'[n + 1] = m
      /\ \A k \in 1 .. n : inbox'[k] = inbox[k]
  BY <1>1, <1>2
<1>4. /\ \A k \in 1 .. n : k \in 1 .. n + 1
      /\ n + 1 \in 1 .. n + 1
      /\ \A k \in 1 .. n + 1 : k = n + 1 \/ k \in 1 .. n
  BY <1>2
<1> QED BY <1>2, <1>3, <1>4

\* ... by another client than c.
LEMMA OthersMessage ==
  ASSUME TypeInv, NEW m \in Wish \cup Leave, inbox' = Append(inbox, m),
         NEW c \in Clients, m.from # c, source_activators' = source_activators,
         connected' \subseteq connected
  PROVE  /\ Departs(inbox, c) => Departs(inbox, c)'
         /\ Settled(inbox, c) => Settled(inbox, c)'
<1>1. PICK n \in Nat :
        /\ Len(inbox) = n /\ Len(inbox') = n + 1 /\ inbox'[n + 1] = m
        /\ \A k \in 1 .. n : k \in 1 .. n + 1 /\ inbox'[k] = inbox[k]
        /\ n + 1 \in 1 .. n + 1
        /\ \A k \in 1 .. n + 1 : k = n + 1 \/ k \in 1 .. n
  BY SentMessage
<1>2. ~Leaves(m, c)
  BY DEF Leaves
<1>3. ASSUME Departs(inbox, c), NEW k \in 1 .. n + 1, Leaves(inbox'[k], c)
      PROVE  c \notin connected' /\ \A l \in 1 .. n + 1 : inbox'[l].from = c => l <= k
  <2>1. k \in 1 .. n /\ Leaves(inbox[k], c)
    BY <1>1, <1>2, <1>3
  <2>2. c \notin connected /\ \A l \in 1 .. n : inbox[l].from = c => l <= k
    BY <1>1, <1>3, <2>1 DEF Departs
  <2> QED BY <1>1, <2>2
<1>4. Departs(inbox, c) => Departs(inbox, c)'
  BY <1>1, <1>3 DEF Departs
<1>5. Settled(inbox, c) => Settled(inbox, c)'
  BY <1>1, <1>2 DEF Settled
<1> QED BY <1>4, <1>5

LEMMA SetHeard ==
  ASSUME TypeInv, Listed, Heard,
         NEW a \in Clients, NEW x \in Extensions, NEW value \in BOOLEAN, SetActivate(a, x, value)
  PROVE  Heard'
<1> DEFINE m == [type |-> "set_property", from |-> a, ext |-> x, value |-> value]
<1>1. /\ m \in Wish \cup Leave /\ m.from = a /\ m.ext = x /\ m.value = value
      /\ m.type = "set_property"
  BY DEF Wish
<1>2. inbox' = Append(inbox, m) /\ inbox \in Seq(Wish \cup Leave)
  BY DEF SetActivate, TypeInv
<1>3. \A c \in Clients : \A e : Asks(m, c, e) <=> c = a /\ e = x
  BY DEF Asks
<1> HIDE DEF m
<1>4. /\ a \in connected /\ x \in registry
      /\ wants' = [wants EXCEPT ![a] = IF value THEN @ \cup {x} ELSE @ \ {x}]
      /\ UNCHANGED <<registry, removed, source_activators, connected, unheard>>
  BY OnBusIs DEF SetActivate, exportVars, activation
<1>5. PICK n \in Nat :
        /\ Len(inbox) = n /\ Len(inbox') = n + 1 /\ inbox'[n + 1] = m
        /\ \A k \in 1 .. n : k \in 1 .. n + 1 /\ inbox'[k] = inbox[k]
        /\ n + 1 \in 1 .. n + 1
        /\ \A k \in 1 .. n + 1 : k = n + 1 \/ k \in 1 .. n
  BY <1>1, <1>2, SentMessage
<1>6. Departs(inbox, a)'
  <2>1. \A k \in 1 .. n : ~Leaves(inbox[k], a)
    BY <1>4, <1>5 DEF Heard, Departs
  <2>2. ~Leaves(m, a)
    BY <1>1 DEF Leaves
  <2> QED BY <1>5, <2>1, <2>2 DEF Departs
<1>7. ASSUME NEW c \in Clients \ {a}
      PROVE  Departs(inbox, c)' /\ (Settled(inbox, c) => Settled(inbox, c)')
  <2>1. m.from # c
    BY <1>1
  <2> QED BY <1>1, <1>2, <1>4, <2>1, OthersMessage DEF Heard
<1>8. ASSUME NEW c \in Clients, c \in connected, NEW e \in registry \cap Activatable
      PROVE  Settles(inbox', c, e, source_activators[c], wants'[c])
  <2>1. Settles(inbox, c, e, source_activators[c], wants[c])
    BY <1>8 DEF Heard
  <2>2. c = a /\ e = x => (m.value = TRUE <=> e \in wants'[c])
    BY <1>1, <1>4 DEF TypeInv
  <2>3. c # a \/ e # x => (e \in wants[c] <=> e \in wants'[c])
    BY <1>4 DEF TypeInv
  <2> QED BY <1>1, <1>2, <1>3, <2>1, <2>2, <2>3, LastSettles
<1>9. ASSUME NEW e \in Extensions \ (registry \cup removed)
      PROVE  Unknown(e)'
  <2>1. e # x /\ Unknown(e)
    BY <1>4, <1>9 DEF Heard
  <2>2. \A c \in Clients : e \notin wants'[c]
    BY <1>4, <2>1 DEF Unknown, TypeInv
  <2>3. \A c \in Clients : ~Asks(m, c, e)
    BY <1>3, <2>1
  <2> QED BY <1>5, <2>1, <2>2, <2>3 DEF Unknown
<1>10. \A c \in Clients \ {a} : wants'[c] = wants[c]
  BY <1>4 DEF TypeInv
<1> QED BY <1>4, <1>6, <1>7, <1>8, <1>9, <1>10 DEF Heard

LEMMA VanishHeard ==
  ASSUME TypeInv, Held, Heard, NEW a \in Clients, Vanish(a)
  PROVE  Heard'
<1>1. /\ a \in connected /\ connected' = connected \ {a}
      /\ wants' = [wants EXCEPT ![a] = {}]
      /\ UNCHANGED <<registry, removed, source_activators>>
      /\ inbox \in Seq(Wish \cup Leave)
  BY DEF Vanish, exportVars, activation, TypeInv
<1>2. wants'[a] = {} /\ \A c \in Clients \ {a} : wants'[c] = wants[c]
  BY <1>1 DEF TypeInv
<1>3. CASE a \in watched
  <2> DEFINE m == [type |-> "NameOwnerChanged", from |-> a]
  <2>1. m \in Wish \cup Leave /\ m.from = a /\ m.type = "NameOwnerChanged"
    BY DEF Leave
  <2>2. inbox' = Append(inbox, m) /\ unheard' = unheard
    BY <1>3 DEF Vanish
  <2> HIDE DEF m
  <2>3. PICK n \in Nat :
          /\ Len(inbox) = n /\ Len(inbox') = n + 1 /\ inbox'[n + 1] = m
          /\ \A k \in 1 .. n : k \in 1 .. n + 1 /\ inbox'[k] = inbox[k]
          /\ n + 1 \in 1 .. n + 1
          /\ \A k \in 1 .. n + 1 : k = n + 1 \/ k \in 1 .. n
    BY <2>1, <2>2, SentMessage
  <2>4. Departs(inbox, a)' /\ Settled(inbox, a)'
    <3>1. \A k \in 1 .. n : ~Leaves(inbox[k], a)
      BY <1>1, <2>3 DEF Heard, Departs
    <3>2. Leaves(m, a)
      BY <2>1 DEF Leaves
    <3>3. \A k \in 1 .. n + 1 : Leaves(inbox'[k], a) => k = n + 1
      BY <2>3, <3>1
    <3>4. \A l \in 1 .. n + 1 : l <= n + 1
      OBVIOUS
    <3> QED BY <1>1, <2>3, <3>2, <3>3, <3>4 DEF Departs, Settled
  <2>5. ASSUME NEW c \in Clients \ {a}
        PROVE  Departs(inbox, c)' /\ (Settled(inbox, c) => Settled(inbox, c)')
    <3>1. m.from # c /\ connected' \subseteq connected
      BY <1>1, <2>1
    <3> QED BY <1>1, <2>1, <2>2, <3>1, OthersMessage DEF Heard
  <2>6. \A c \in Clients : \A e : ~Asks(m, c, e)
    BY <2>1 DEF Asks
  <2>7. ASSUME NEW c \in Clients, c \in connected', NEW e \in registry \cap Activatable
        PROVE  Settles(inbox', c, e, source_activators[c], wants'[c])
    <3>1. Settles(inbox, c, e, source_activators[c], wants[c]) /\ wants'[c] = wants[c]
      BY <1>1, <1>2, <2>7 DEF Heard
    <3> QED BY <1>1, <2>1, <2>2, <2>6, <3>1, LastSettles
  <2>8. ASSUME NEW e \in Extensions \ (registry \cup removed) PROVE Unknown(e)'
    BY <1>2, <2>3, <2>6 DEF Heard, Unknown
  <2> QED BY <1>1, <1>2, <2>2, <2>4, <2>5, <2>7, <2>8 DEF Heard
<1>4. CASE a \notin watched
  <2>1. /\ inbox' = inbox /\ unheard' = unheard \cup (Senders \cap {a})
        /\ source_activators[a] = {}
    BY <1>4 DEF Vanish, Held
  <2>2. \A c \in Clients : Departs(inbox, c)' /\ (Settled(inbox, c)' <=> Settled(inbox, c))
    BY <1>1, <2>1 DEF Departs, Settled, Heard
  <2>3. a \in unheard' \/ Settled(inbox, a)
    <3>1. a \notin Senders => \A k \in 1 .. Len(inbox) : inbox[k].from # a
      BY <1>1 DEF Senders
    <3> QED BY <2>1, <3>1 DEF Settled
  <2>4. \A e \in Extensions \ (registry \cup removed) : Unknown(e)'
    BY <1>2, <2>1 DEF Heard, Unknown
  <2>5. ASSUME NEW c \in Clients
        PROVE  /\ Departs(inbox, c)'
               /\ c \in connected' =>
                    \A e \in registry' \cap Activatable :
                      Settles(inbox', c, e, source_activators'[c], wants'[c])
               /\ c \notin connected' => wants'[c] = {} /\ (c \in unheard' \/ Settled(inbox, c)')
    <3>1. CASE c = a
      BY <1>1, <1>2, <2>2, <2>3, <3>1
    <3>2. CASE c # a
      BY <1>1, <1>2, <2>1, <2>2, <3>2 DEF Heard
    <3> QED BY <3>1, <3>2
  <2> QED BY <1>1, <2>4, <2>5 DEF Heard
<1> QED BY <1>3, <1>4

LEMMA HeardHolds ==
  ASSUME Orderly
  PROVE  Spec => [](TypeInv /\ Listed /\ Held /\ Counted /\ Heard)
<1>1. Heard /\ UNCHANGED vars => Heard'
  BY DEF Heard, Departs, Settled, Unknown, vars, exportVars, activation
<1>2. TypeInv /\ Listed /\ Held /\ Heard /\ [Next]_vars => Heard'
  BY <1>1, PropertyHeard, ExitHeard, AddHeard, RemoveHeard, SetHeard, VanishHeard DEF Next
<1> QED BY InitHeard, CountedHolds, <1>2, PTL DEF Spec

\* Once every message is handled, an extension is active just while an application
\* on the bus wants it, in whatever order the applications asked, gave up, crashed
\* and left, and however many messages were under way (handle_set_property(),
\* handle_client_exits()); but for what an application asked just before it left,
\* when it was not watched yet.
THEOREM ActiveWhenWanted == ASSUME Orderly PROVE Spec => []ActiveIsWanted
<1>1. TypeInv /\ Listed /\ Held /\ Counted /\ Heard => ActiveIsWanted
  <2> SUFFICES ASSUME TypeInv, Listed, Held, Counted, Heard, inbox = <<>>,
                      NEW e \in OnBus \cap Activatable
               PROVE  active[e] <=> \E c \in Clients :
                                      \/ e \in wants[c]
                                      \/ c \in unheard /\ e \in source_activators[c]
    BY DEF ActiveIsWanted
  <2>1. e \in registry \cap Activatable /\ e \in Extensions /\ Len(inbox) = 0
    BY OnBusIs DEF TypeInv
  <2>2. active[e] <=> \E c \in Clients : e \in source_activators[c]
    <3>1. e \notin removed
      BY <2>1 DEF Counted
    <3>2. active[e] = TRUE <=> \E c \in Clients : e \in source_activators[c]
      BY <2>1, <3>1 DEF Counted, Holders
    <3>3. active[e] \in BOOLEAN
      BY <2>1 DEF TypeInv
    <3> QED BY <3>2, <3>3
  <2>3. ASSUME NEW c \in Clients, c \in connected
        PROVE  e \in source_activators[c] <=> e \in wants[c]
    BY <2>1, <2>3 DEF Heard, Settles
  <2>4. ASSUME NEW c \in Clients, c \notin connected
        PROVE  e \notin wants[c] /\ (e \in source_activators[c] => c \in unheard)
    BY <2>1, <2>4 DEF Heard, Settled
  <2>5. (\E c \in Clients : e \in source_activators[c]) <=>
          \E c \in Clients : e \in wants[c] \/ (c \in unheard /\ e \in source_activators[c])
    BY <2>3, <2>4
  <2> QED BY <2>2, <2>5
<1> QED BY <1>1, HeardHolds, PTL
=============================================================================
