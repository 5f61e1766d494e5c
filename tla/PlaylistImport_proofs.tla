------------------------ MODULE PlaylistImport_proofs -------------------------
(***************************************************************************)
(* Imports end as their application is told, for any number of imports and *)
(* items: the data of an import, its playlist, the message to the          *)
(* application and what the application knows go together at every step.   *)
(***************************************************************************)
EXTENDS PlaylistImport, TLAPS

Statuses ==
  {"new", "asked", "refused", "open", "done", "error", "cancelled", "too late"}
CallType ==
  [op : {"import", "cancel"}, import : Imports, at : {"bus", "replied", "failed"}]
MessageType == [import : Imports, ok : BOOLEAN]

TypeInv ==
  /\ call \in CallType \cup {NoCall}
  /\ requests \subseteq Imports /\ callback \subseteq Imports
  /\ status \in [Imports -> Statuses]
  /\ answers \in [Imports -> Nat]
  /\ imported \in Seq(MessageType)
  /\ pl_dat \in [Imports -> {"none", "live", "freed"}]
  /\ table \subseteq Imports
  /\ waits \in [Imports -> {"nothing", "metadata", "browse"}]
  /\ cancelled \in [Imports -> BOOLEAN]
  /\ urilist \in [Imports -> Nat]
  /\ size \in [Imports -> 0 .. MaxItems]
  /\ playlist \in [Imports -> 0 .. MaxItems + 1]

\* The answer to import i is on its way.
Pending(i) == \E k \in 1 .. Len(imported) : imported[k].import = i

\* No import is answered twice, and the answer tells of the playlist.
MessagesOK ==
  \A k \in 1 .. Len(imported) :
    LET i == imported[k].import
    IN  /\ \A j \in 1 .. Len(imported) : imported[j].import = i => j = k
        /\ playlist[i] = IF imported[k].ok THEN size[i] ELSE NoPlaylist

-----------------------------------------------------------------------------
(* What the daemon does for an import *)

\* The daemon has not heard of it.
Fresh(i) ==
  /\ pl_dat[i] = "none" /\ i \notin table /\ waits[i] = "nothing"
  /\ playlist[i] = NoPlaylist

\* The daemon waits for the source.
Working(i) ==
  /\ pl_dat[i] = "live" /\ i \in table /\ waits[i] # "nothing"
  /\ playlist[i] = NoPlaylist

\* The daemon waits for nothing, but keeps the data.
Orphaned(i) ==
  /\ pl_dat[i] = "live" /\ i \in table /\ waits[i] = "nothing" /\ ~cancelled[i]
  /\ playlist[i] = NoPlaylist

\* The daemon is done with it.
Finished(i) ==
  /\ pl_dat[i] = "freed" /\ i \notin table /\ waits[i] = "nothing"
  /\ playlist[i] \in {size[i], NoPlaylist}

\* It was not cancelled, and the application will hear of it.
OnItsWay(i) ==
  /\ ~cancelled[i]
  /\ (Working(i) /\ ~Pending(i)) \/ (Finished(i) /\ Pending(i))

\* Its cancel succeeded.
CalledOff(i) ==
  /\ ~Pending(i) /\ playlist[i] = NoPlaylist
  /\ \/ cancelled[i] /\ Working(i) /\ waits[i] = "metadata"
     \/ cancelled[i] /\ Finished(i)
     \/ Orphaned(i)

\* It is over, and nothing is on its way.
Over(i) == Finished(i) /\ ~Pending(i)

-----------------------------------------------------------------------------
(* What the application knows of it *)

Calling(i) == call.op = "import" /\ call.import = i

ImportOK(i) ==
  /\ status[i] = "new" => Fresh(i) /\ ~Pending(i) /\ ~cancelled[i]
  /\ status[i] = "asked" <=> Calling(i)
  /\ status[i] = "asked" =>
       /\ ~cancelled[i]
       /\ call.at = "bus" => Fresh(i) /\ ~Pending(i)
       /\ call.at = "replied" => OnItsWay(i)
       /\ call.at = "failed" => Over(i) /\ playlist[i] = NoPlaylist
  /\ status[i] = "refused" => Over(i) /\ playlist[i] = NoPlaylist
  /\ status[i] = "open" =>
       /\ i \in requests \/ Cancelling(i)
       /\ Cancelling(i) /\ call.at = "replied" => CalledOff(i)
       /\ Cancelling(i) /\ call.at = "failed" => Finished(i) /\ Pending(i)
       /\ ~Cancelling(i) \/ call.at = "bus" => OnItsWay(i)
  /\ status[i] \in {"done", "error"} =>
       /\ Over(i) /\ ~cancelled[i]
       /\ playlist[i] = IF status[i] = "done" THEN size[i] ELSE NoPlaylist
       /\ Cancelling(i) => call.at # "replied"
  /\ status[i] = "cancelled" => CalledOff(i)
  /\ status[i] = "too late" => Finished(i)
  /\ Cancelling(i) => i \notin requests /\ status[i] \in {"open", "done", "error"}
  /\ i \in requests => status[i] \in {"open", "done", "error"}
  /\ i \in callback => status[i] \in {"done", "error", "too late"}
  /\ status[i] \in {"new", "asked", "refused", "open", "cancelled"} => answers[i] = 0

\* The inductive invariant.
Inv == TypeInv /\ MessagesOK /\ \A i \in Imports : ImportOK(i)

-----------------------------------------------------------------------------
(* Lemmas about the messages *)

LEMMA InitInv == Init => Inv
BY ImportAssumption
   DEF Init, Inv, TypeInv, MessagesOK, ImportOK, Fresh, Pending, Calling, Cancelling,
       NoCall, NoPlaylist, Statuses, CallType, MessageType

\* The answer to an import that has none yet.
LEMMA ToldIsPending ==
  ASSUME TypeInv, MessagesOK, NEW i \in Imports, ~Pending(i),
         NEW ok \in BOOLEAN, Told(i, ok), UNCHANGED size,
         \A j \in Imports \ {i} : playlist'[j] = playlist[j],
         playlist'[i] = IF ok THEN size[i] ELSE NoPlaylist
  PROVE  /\ imported' \in Seq(MessageType)
         /\ MessagesOK'
         /\ \A j \in Imports : Pending(j)' <=> Pending(j) \/ j = i
<1> DEFINE m == [import |-> i, ok |-> ok]
<1>1. m \in MessageType /\ imported \in Seq(MessageType) /\ imported' = Append(imported, m)
  BY DEF TypeInv, MessageType, Told
<1>2. /\ imported' \in Seq(MessageType)
      /\ Len(imported') = Len(imported) + 1
      /\ \A k \in 1 .. Len(imported) : imported'[k] = imported[k]
      /\ imported'[Len(imported) + 1] = m
  BY <1>1
<1>3. \A k \in 1 .. Len(imported) : imported[k].import \in Imports \ {i}
  <2>1. \A k \in 1 .. Len(imported) : imported[k] \in MessageType
    BY <1>1
  <2> QED BY <2>1 DEF Pending, MessageType
<1>4. MessagesOK'
  BY <1>1, <1>2, <1>3 DEF MessagesOK, NoPlaylist
<1>5. \A j \in Imports : Pending(j)' <=> Pending(j) \/ j = i
  BY <1>1, <1>2, <1>3 DEF Pending
<1> QED BY <1>2, <1>4, <1>5

\* The first message is taken.
LEMMA TakenIsNotPending ==
  ASSUME TypeInv, MessagesOK, imported # <<>>, imported' = Tail(imported),
         UNCHANGED <<playlist, size>>
  PROVE  /\ Head(imported) \in MessageType
         /\ imported' \in Seq(MessageType)
         /\ MessagesOK'
         /\ Pending(Head(imported).import)
         /\ \A j \in Imports : Pending(j)' <=> Pending(j) /\ j # Head(imported).import
         /\ playlist[Head(imported).import] =
               IF Head(imported).ok THEN size[Head(imported).import] ELSE NoPlaylist
<1>1. imported \in Seq(MessageType) /\ Len(imported) \in Nat \ {0}
  BY DEF TypeInv
<1>2. /\ Head(imported) = imported[1] /\ imported[1] \in MessageType
      /\ imported' \in Seq(MessageType)
      /\ Len(imported') = Len(imported) - 1
      /\ \A k \in 1 .. Len(imported') : imported'[k] = imported[k + 1]
  BY <1>1
<1>3. MessagesOK'
  BY <1>1, <1>2 DEF MessagesOK, NoPlaylist
<1>4. \A j \in Imports : Pending(j)' <=> Pending(j) /\ j # imported[1].import
  <2> TAKE j \in Imports
  <2>1. ASSUME NEW k \in 1 .. Len(imported'), imported'[k].import = j
        PROVE  Pending(j) /\ j # imported[1].import
    BY <1>1, <1>2, <2>1 DEF Pending, MessagesOK
  <2>2. ASSUME NEW k \in 1 .. Len(imported), imported[k].import = j, j # imported[1].import
        PROVE  Pending(j)'
    <3>1. k - 1 \in 1 .. Len(imported') /\ imported'[k - 1] = imported[k]
      BY <1>1, <1>2, <2>2
    <3> QED BY <2>2, <3>1 DEF Pending
  <2> QED BY <2>1, <2>2 DEF Pending
<1>5. Pending(imported[1].import)
  BY <1>1 DEF Pending
<1>6. playlist[imported[1].import] =
        IF imported[1].ok THEN size[imported[1].import] ELSE NoPlaylist
  BY <1>1 DEF MessagesOK
<1> QED BY <1>2, <1>3, <1>4, <1>5, <1>6

\* No message is sent or taken.
LEMMA NothingSent ==
  ASSUME MessagesOK, UNCHANGED <<imported, playlist, size>>
  PROVE  MessagesOK' /\ \A j \in Imports : Pending(j)' <=> Pending(j)
BY DEF MessagesOK, Pending, NoPlaylist

-----------------------------------------------------------------------------
(* Lemmas about the application's call *)

\* The application makes one call at a time.
LEMMA CallIsOne ==
  ASSUME TypeInv
  PROVE  /\ call = NoCall \/ call.op = "import" \/ call.op = "cancel"
         /\ call = NoCall => \A j \in Imports : ~Calling(j) /\ ~Cancelling(j)
         /\ call # NoCall => call \in CallType /\ call.import \in Imports
         /\ call.op \in {"import", "cancel"} => call # NoCall
         /\ call.op = "import" =>
              \A j \in Imports : (Calling(j) <=> j = call.import) /\ ~Cancelling(j)
         /\ call.op = "cancel" =>
              \A j \in Imports : (Cancelling(j) <=> j = call.import) /\ ~Calling(j)
<1>1. NoCall.op = "none"
  BY DEF NoCall
<1>2. CASE call = NoCall
  BY <1>1, <1>2 DEF Calling, Cancelling
<1>3. CASE call \in CallType
  <2>1. call.op \in {"import", "cancel"} /\ call.import \in Imports
    BY <1>3 DEF CallType
  <2> QED BY <1>1, <1>3, <2>1 DEF Calling, Cancelling
<1> QED BY <1>2, <1>3 DEF TypeInv

LEMMA CallEnds ==
  ASSUME call' = NoCall
  PROVE  \A j \in Imports : ~Calling(j)' /\ ~Cancelling(j)'
<1>1. call'.op = "none"
  BY DEF NoCall
<1> QED BY <1>1 DEF Calling, Cancelling

LEMMA CallBegins ==
  ASSUME NEW i \in Imports, NEW op \in {"import", "cancel"},
         call' = [op |-> op, import |-> i, at |-> "bus"]
  PROVE  /\ call' \in CallType /\ call'.at = "bus"
         /\ \A j \in Imports : Calling(j)' <=> op = "import" /\ j = i
         /\ \A j \in Imports : Cancelling(j)' <=> op = "cancel" /\ j = i
BY DEF CallType, Calling, Cancelling

LEMMA CallIsReplied ==
  ASSUME NEW ok \in BOOLEAN, call \in CallType, Replied(ok)
  PROVE  /\ call' \in CallType
         /\ call'.at = IF ok THEN "replied" ELSE "failed"
         /\ \A j \in Imports : (Calling(j)' <=> Calling(j)) /\ (Cancelling(j)' <=> Cancelling(j))
BY DEF CallType, Replied, Calling, Cancelling

\* Nothing of import j changes.
Same(j) ==
  /\ UNCHANGED <<status[j], answers[j], pl_dat[j], waits[j], cancelled[j], playlist[j], size[j]>>
  /\ j \in requests' <=> j \in requests
  /\ j \in callback' <=> j \in callback
  /\ j \in table' <=> j \in table
  /\ Pending(j)' <=> Pending(j)
  /\ ~Calling(j)' /\ ~Calling(j) /\ ~Cancelling(j)' /\ ~Cancelling(j)

LEMMA SameKeepsImport ==
  ASSUME NEW j \in Imports, ImportOK(j), Same(j)
  PROVE  ImportOK(j)'
BY DEF Same, ImportOK, Fresh, Working, Finished, Orphaned, OnItsWay, CalledOff, Over

LEMMA ImportKeepsInv ==
  ASSUME Inv, NEW i \in Imports, import(i)
  PROVE  Inv'
<1>1. MessagesOK' /\ \A j \in Imports : Pending(j)' <=> Pending(j)
  BY NothingSent DEF Inv, import, daemon
<1>2. /\ call' \in CallType /\ call'.at = "bus"
      /\ \A j \in Imports : ~Calling(j) /\ ~Cancelling(j) /\ ~Cancelling(j)'
      /\ \A j \in Imports : Calling(j)' <=> j = i
  BY CallIsOne, CallBegins DEF Inv, import, Free
<1>3. TypeInv'
  BY <1>2 DEF Inv, TypeInv, import, daemon, Becomes, Statuses
<1>4. ASSUME NEW j \in Imports, j # i PROVE ImportOK(j)'
  <2>1. Same(j)
    BY <1>1, <1>2, <1>4 DEF Inv, TypeInv, import, daemon, Becomes, Same
  <2> QED BY <2>1, SameKeepsImport DEF Inv
<1>5. ImportOK(i)'
  BY <1>1, <1>2 DEF Inv, TypeInv, import, daemon, Becomes, ImportOK, Fresh, Working, Finished, Orphaned, OnItsWay, CalledOff, Over
<1> QED BY <1>1, <1>3, <1>4, <1>5 DEF Inv

LEMMA CancelImportKeepsInv ==
  ASSUME Inv, NEW i \in Imports, cancel_import(i)
  PROVE  Inv'
<1>1. MessagesOK' /\ \A j \in Imports : Pending(j)' <=> Pending(j)
  BY NothingSent DEF Inv, cancel_import, daemon
<1>2. /\ call' \in CallType /\ call'.at = "bus"
      /\ \A j \in Imports : ~Calling(j) /\ ~Cancelling(j) /\ ~Calling(j)'
      /\ \A j \in Imports : Cancelling(j)' <=> j = i
  BY CallIsOne, CallBegins DEF Inv, cancel_import, Free
<1>3. TypeInv'
  BY <1>2 DEF Inv, TypeInv, cancel_import, daemon
<1>4. ASSUME NEW j \in Imports, j # i PROVE ImportOK(j)'
  <2>1. Same(j)
    BY <1>1, <1>2, <1>4 DEF Inv, TypeInv, cancel_import, daemon, Same
  <2> QED BY <2>1, SameKeepsImport DEF Inv
<1>5. ImportOK(i)'
  BY <1>1, <1>2 DEF Inv, TypeInv, cancel_import, daemon, ImportOK, Fresh, Working, Finished, Orphaned, OnItsWay, CalledOff, Over
<1> QED BY <1>1, <1>3, <1>4, <1>5 DEF Inv

LEMMA ImportRepliedKeepsInv ==
  ASSUME Inv, ImportReplied
  PROVE  Inv'
<1>1. MessagesOK' /\ \A j \in Imports : Pending(j)' <=> Pending(j)
  BY NothingSent DEF Inv, ImportReplied, daemon
<1>2. PICK i \in Imports : /\ i = call.import /\ Calling(i)
                           /\ \A j \in Imports : Calling(j) => j = i
                           /\ \A j \in Imports : ~Cancelling(j)
  BY CallIsOne DEF Inv, ImportReplied
<1>3. \A j \in Imports : ~Calling(j)' /\ ~Cancelling(j)'
  BY CallEnds DEF ImportReplied
<1>4. TypeInv'
  BY <1>2 DEF Inv, TypeInv, ImportReplied, daemon, Becomes, Statuses
<1>5. ASSUME NEW j \in Imports, j # i PROVE ImportOK(j)'
  <2>1. Same(j)
    BY <1>1, <1>2, <1>3, <1>5 DEF Inv, TypeInv, ImportReplied, daemon, Becomes, Same
  <2> QED BY <2>1, SameKeepsImport DEF Inv
<1>6. ImportOK(i)'
  BY <1>1, <1>2, <1>3 DEF Inv, TypeInv, ImportReplied, daemon, Becomes, ImportOK, Fresh, Working, Finished, Orphaned, OnItsWay, CalledOff, Over
<1> QED BY <1>1, <1>4, <1>5, <1>6 DEF Inv

LEMMA CancelRepliedKeepsInv ==
  ASSUME Inv, CancelReplied
  PROVE  Inv'
<1>1. MessagesOK' /\ \A j \in Imports : Pending(j)' <=> Pending(j)
  BY NothingSent DEF Inv, CancelReplied, daemon
<1>2. PICK i \in Imports : /\ i = call.import /\ Cancelling(i)
                           /\ \A j \in Imports : Cancelling(j) => j = i
                           /\ \A j \in Imports : ~Calling(j)
  BY CallIsOne DEF Inv, CancelReplied
<1>3. \A j \in Imports : ~Calling(j)' /\ ~Cancelling(j)'
  BY CallEnds DEF CancelReplied
<1>4. TypeInv'
  BY <1>2 DEF Inv, TypeInv, CancelReplied, daemon, Becomes, Statuses
<1>5. ASSUME NEW j \in Imports, j # i PROVE ImportOK(j)'
  <2>1. Same(j)
    BY <1>1, <1>2, <1>3, <1>5 DEF Inv, TypeInv, CancelReplied, daemon, Becomes, Same
  <2> QED BY <2>1, SameKeepsImport DEF Inv
<1>6. ImportOK(i)'
  BY <1>1, <1>2, <1>3 DEF Inv, TypeInv, CancelReplied, daemon, Becomes, ImportOK, Fresh, Working, Finished, Orphaned, OnItsWay, CalledOff, Over
<1> QED BY <1>1, <1>4, <1>5, <1>6 DEF Inv

LEMMA CallbackReturnsKeepsInv ==
  ASSUME Inv, CallbackReturns
  PROVE  Inv'
<1>1. MessagesOK' /\ \A j \in Imports : Pending(j)' <=> Pending(j)
  BY NothingSent DEF Inv, CallbackReturns, daemon
<1>2. \A j \in Imports : /\ ~Calling(j)' /\ ~Calling(j)
                         /\ ~Cancelling(j)' /\ ~Cancelling(j)
  BY CallIsOne, CallEnds DEF Inv, CallbackReturns, Free
<1>3. TypeInv'
  BY DEF Inv, TypeInv, CallbackReturns, daemon
<1>4. ASSUME NEW j \in Imports PROVE ImportOK(j)'
  <2>1. CASE j \in callback
    BY <1>1, <1>2, <2>1 DEF Inv, TypeInv, CallbackReturns, daemon, ImportOK, Fresh, Working, Finished, Orphaned, OnItsWay, CalledOff, Over
  <2>2. CASE j \notin callback
    <3>1. Same(j)
      BY <1>1, <1>2, <2>2 DEF CallbackReturns, daemon, Same
    <3> QED BY <3>1, SameKeepsImport DEF Inv
  <2> QED BY <2>1, <2>2
<1> QED BY <1>1, <1>3, <1>4 DEF Inv

LEMMA PlaylistImportedKeepsInv ==
  ASSUME Inv, playlist_imported
  PROVE  Inv'
<1>1. PICK m \in MessageType :
        /\ m = Head(imported)
        /\ imported' \in Seq(MessageType)
        /\ MessagesOK'
        /\ Pending(m.import)
        /\ \A j \in Imports : Pending(j)' <=> Pending(j) /\ j # m.import
        /\ playlist[m.import] = IF m.ok THEN size[m.import] ELSE NoPlaylist
  BY TakenIsNotPending DEF Inv, playlist_imported, daemon
<1>2. PICK i \in Imports : i = m.import /\ m.ok \in BOOLEAN
  BY DEF MessageType
<1>3. \A j \in Imports : /\ ~Calling(j)' /\ ~Calling(j)
                         /\ ~Cancelling(j)' /\ ~Cancelling(j)
  BY CallIsOne, CallEnds DEF Inv, playlist_imported, Free
<1>4. UNCHANGED <<call, requests, pl_dat, table, waits, cancelled, urilist, playlist, size>>
  BY DEF playlist_imported, daemon
<1>5. CASE i \in requests
  <2>1. /\ callback' = {i} /\ callback = {}
        /\ answers' = [answers EXCEPT ![i] = @ + 1]
        /\ status' = [status EXCEPT ![i] = IF m.ok THEN "done" ELSE "error"]
    BY <1>1, <1>2, <1>5 DEF playlist_imported, Becomes
  <2>2. TypeInv'
    <3>1. /\ answers[i] + 1 \in Nat
          /\ (IF m.ok THEN "done" ELSE "error") \in Statuses
      <4>1. answers[i] + 1 \in Nat
        BY <1>2 DEF Inv, TypeInv
      <4>2. (IF m.ok THEN "done" ELSE "error") \in Statuses
        BY DEF Statuses
      <4> QED BY <4>1, <4>2
    <3>2. answers' \in [Imports -> Nat]
      BY <2>1, <3>1 DEF Inv, TypeInv
    <3>3. status' \in [Imports -> Statuses]
      BY <2>1, <3>1 DEF Inv, TypeInv
    <3>4. callback' \subseteq Imports
      BY <2>1
    <3> QED BY <1>1, <1>4, <3>2, <3>3, <3>4 DEF Inv, TypeInv
  <2>3. ASSUME NEW j \in Imports, j # i PROVE ImportOK(j)'
    <3>1. Same(j)
      BY <1>1, <1>2, <1>3, <1>4, <2>1, <2>3 DEF Inv, TypeInv, Same
    <3> QED BY <3>1, SameKeepsImport DEF Inv
  <2>4. ImportOK(i)'
    BY <1>1, <1>2, <1>3, <1>4, <1>5, <2>1 DEF Inv, TypeInv, NoPlaylist, ImportOK, Fresh, Working, Finished, Orphaned, OnItsWay, CalledOff, Over
  <2> QED BY <1>1, <2>2, <2>3, <2>4 DEF Inv
<1>6. CASE i \notin requests
  <2>1. UNCHANGED <<callback, answers, status>>
    BY <1>1, <1>2, <1>6 DEF playlist_imported
  <2>2. TypeInv'
    BY <1>1, <1>4, <2>1 DEF Inv, TypeInv
  <2>3. ASSUME NEW j \in Imports, j # i PROVE ImportOK(j)'
    <3>1. Same(j)
      BY <1>1, <1>2, <1>3, <1>4, <2>1, <2>3 DEF Same
    <3> QED BY <3>1, SameKeepsImport DEF Inv
  <2>4. ImportOK(i)'
    BY <1>1, <1>2, <1>3, <1>4, <1>6, <2>1 DEF Inv, TypeInv, ImportOK, Fresh, Working, Finished, Orphaned, OnItsWay, CalledOff, Over
  <2> QED BY <1>1, <2>2, <2>3, <2>4 DEF Inv
<1> QED BY <1>5, <1>6

-----------------------------------------------------------------------------
(* The daemon *)

LEMMA HandleCancelKeepsInv ==
  ASSUME Inv, HandleCancel
  PROVE  Inv'
<1>1. MessagesOK' /\ \A j \in Imports : Pending(j)' <=> Pending(j)
  BY NothingSent DEF Inv, HandleCancel
<1>2. PICK i \in Imports : /\ i = call.import /\ Cancelling(i) /\ call \in CallType
                           /\ \A j \in Imports : Cancelling(j) => j = i
                           /\ \A j \in Imports : ~Calling(j)
  BY CallIsOne DEF Inv, HandleCancel
<1>3. /\ call' \in CallType
      /\ call'.at = IF i \in table THEN "replied" ELSE "failed"
      /\ \A j \in Imports : (Calling(j)' <=> Calling(j)) /\ (Cancelling(j)' <=> Cancelling(j))
  <2>1. (i \in table) \in BOOLEAN /\ Replied(i \in table)
    BY <1>2 DEF HandleCancel
  <2> QED BY <1>2, <2>1, CallIsReplied
<1>4. /\ waits' = [waits EXCEPT ![i] = IF @ = "browse" THEN "nothing" ELSE @]
      /\ cancelled' = [cancelled EXCEPT ![i] = waits[i] = "metadata"]
      /\ UNCHANGED <<requests, callback, status, answers, imported, pl_dat, table, urilist,
                     playlist, size>>
      /\ call.at = "bus"
  BY <1>2 DEF HandleCancel
<1>5. TypeInv'
  <2>1. waits' \in [Imports -> {"nothing", "metadata", "browse"}]
    BY <1>4 DEF Inv, TypeInv
  <2>2. cancelled' \in [Imports -> BOOLEAN]
    BY <1>4 DEF Inv, TypeInv
  <2> QED BY <1>3, <1>4, <2>1, <2>2 DEF Inv, TypeInv
<1>6. ASSUME NEW j \in Imports, j # i PROVE ImportOK(j)'
  <2>1. Same(j)
    BY <1>1, <1>2, <1>3, <1>4, <1>6 DEF Inv, TypeInv, Same
  <2> QED BY <2>1, SameKeepsImport DEF Inv
<1>7. ImportOK(i)'
  <2>1. waits'[i] = IF waits[i] = "browse" THEN "nothing" ELSE waits[i]
    BY <1>4 DEF Inv, TypeInv
  <2>2. cancelled'[i] <=> waits[i] = "metadata"
    BY <1>4 DEF Inv, TypeInv
  <2>3. waits[i] \in {"nothing", "metadata", "browse"}
    BY DEF Inv, TypeInv
  <2> QED BY <1>1, <1>2, <1>3, <1>4, <2>1, <2>2, <2>3 DEF Inv, ImportOK, Fresh, Working, Finished, Orphaned, OnItsWay, CalledOff, Over
<1> QED BY <1>1, <1>5, <1>6, <1>7 DEF Inv

\* An import is done, whatever the occasion: the answer is on its way.
LEMMA DoneIsFinished ==
  ASSUME TypeInv, MessagesOK, NEW i \in Imports, ~Pending(i), playlist[i] = NoPlaylist,
         NEW ok \in BOOLEAN, NEW items, ok => items = size[i],
         import_done(i, items, ok), UNCHANGED size
  PROVE  /\ imported' \in Seq(MessageType)
         /\ MessagesOK'
         /\ \A j \in Imports : Pending(j)' <=> Pending(j) \/ j = i
         /\ Finished(i)' /\ Pending(i)'
         /\ pl_dat' \in [Imports -> {"none", "live", "freed"}]
         /\ waits' \in [Imports -> {"nothing", "metadata", "browse"}]
         /\ playlist' \in [Imports -> 0 .. MaxItems + 1]
         /\ table' \subseteq Imports
         /\ \A j \in Imports \ {i} :
              /\ UNCHANGED <<pl_dat[j], waits[j], playlist[j]>>
              /\ j \in table' <=> j \in table
<1>1. playlist' = [playlist EXCEPT ![i] = IF ok THEN size[i] ELSE NoPlaylist]
  BY DEF import_done, TypeInv
<1>2. /\ playlist' \in [Imports -> 0 .. MaxItems + 1]
      /\ playlist'[i] = IF ok THEN size[i] ELSE NoPlaylist
      /\ \A j \in Imports \ {i} : playlist'[j] = playlist[j]
  BY <1>1, ImportAssumption DEF TypeInv, NoPlaylist
<1>3. Told(i, ok)
  BY DEF import_done
<1>4. /\ imported' \in Seq(MessageType)
      /\ MessagesOK'
      /\ \A j \in Imports : Pending(j)' <=> Pending(j) \/ j = i
  BY <1>2, <1>3, ToldIsPending
<1>5. /\ pl_dat' \in [Imports -> {"none", "live", "freed"}]
      /\ pl_dat'[i] = "freed"
      /\ \A j \in Imports \ {i} : pl_dat'[j] = pl_dat[j]
  BY DEF import_done, Freed, TypeInv
<1>6. /\ waits' \in [Imports -> {"nothing", "metadata", "browse"}]
      /\ waits'[i] = "nothing"
      /\ \A j \in Imports \ {i} : waits'[j] = waits[j]
  BY DEF import_done, Waits, TypeInv
<1>7. table' = table \ {i}
  BY DEF import_done
<1>8. Finished(i)'
  BY <1>2, <1>5, <1>6, <1>7 DEF Finished, NoPlaylist
<1> QED BY <1>2, <1>4, <1>5, <1>6, <1>7, <1>8 DEF TypeInv

LEMMA HandleImportKeepsInv ==
  ASSUME Inv, HandleImport
  PROVE  Inv'
<1>1. PICK i \in Imports : /\ i = call.import /\ Calling(i) /\ call \in CallType
                           /\ \A j \in Imports : Calling(j) => j = i
                           /\ \A j \in Imports : ~Cancelling(j)
  BY CallIsOne DEF Inv, HandleImport
<1>2. /\ status[i] = "asked" /\ answers[i] = 0
      /\ Fresh(i) /\ ~Pending(i) /\ ~cancelled[i]
      /\ i \notin requests /\ i \notin callback
      /\ UNCHANGED <<requests, callback, status, answers, urilist, size>>
  BY <1>1 DEF Inv, HandleImport, ImportOK
<1>3. CASE import_done(i, size[i], TRUE) /\ Replied(TRUE) /\ UNCHANGED cancelled
  <2>1. /\ imported' \in Seq(MessageType)
        /\ MessagesOK'
        /\ \A j \in Imports : Pending(j)' <=> Pending(j) \/ j = i
        /\ Finished(i)' /\ Pending(i)'
        /\ pl_dat' \in [Imports -> {"none", "live", "freed"}]
        /\ waits' \in [Imports -> {"nothing", "metadata", "browse"}]
        /\ playlist' \in [Imports -> 0 .. MaxItems + 1]
        /\ table' \subseteq Imports
        /\ \A j \in Imports \ {i} :
             /\ UNCHANGED <<pl_dat[j], waits[j], playlist[j]>>
             /\ j \in table' <=> j \in table
    BY <1>2, <1>3, DoneIsFinished DEF Inv, Fresh
  <2>2. /\ call' \in CallType /\ call'.at = "replied"
        /\ \A j \in Imports : (Calling(j)' <=> Calling(j)) /\ (Cancelling(j)' <=> Cancelling(j))
    BY <1>1, <1>3, CallIsReplied
  <2>3. TypeInv'
    BY <1>2, <1>3, <2>1, <2>2 DEF Inv, TypeInv
  <2>4. ASSUME NEW j \in Imports, j # i PROVE ImportOK(j)'
    <3>1. Same(j)
      BY <1>1, <1>2, <1>3, <2>1, <2>2, <2>4 DEF Same
    <3> QED BY <3>1, SameKeepsImport DEF Inv
  <2>5. ImportOK(i)'
    BY <1>1, <1>2, <1>3, <2>1, <2>2 DEF ImportOK, OnItsWay
  <2> QED BY <2>1, <2>3, <2>4, <2>5 DEF Inv
<1>4. CASE /\ Freed(i) /\ Replied(FALSE)
           /\ UNCHANGED <<imported, table, waits, cancelled, playlist>>
  <2>1. MessagesOK' /\ \A j \in Imports : Pending(j)' <=> Pending(j)
    BY <1>2, <1>4, NothingSent DEF Inv
  <2>2. /\ call' \in CallType /\ call'.at = "failed"
        /\ \A j \in Imports : (Calling(j)' <=> Calling(j)) /\ (Cancelling(j)' <=> Cancelling(j))
    BY <1>1, <1>4, CallIsReplied
  <2>3. TypeInv'
    BY <1>2, <1>4, <2>2 DEF Inv, TypeInv, Freed
  <2>4. ASSUME NEW j \in Imports, j # i PROVE ImportOK(j)'
    <3>1. Same(j)
      BY <1>1, <1>2, <1>4, <2>1, <2>2, <2>4 DEF Inv, TypeInv, Freed, Same
    <3> QED BY <3>1, SameKeepsImport DEF Inv
  <2>5. ImportOK(i)'
    BY <1>1, <1>2, <1>4, <2>1, <2>2 DEF Inv, TypeInv, Freed, ImportOK, Fresh, Over, Finished
  <2> QED BY <2>1, <2>3, <2>4, <2>5 DEF Inv
<1>5. CASE /\ pl_dat' = [pl_dat EXCEPT ![i] = "live"]
           /\ table' = table \cup {i}
           /\ Waits(i, "metadata") /\ Replied(TRUE)
           /\ UNCHANGED <<imported, cancelled, playlist>>
  <2>1. MessagesOK' /\ \A j \in Imports : Pending(j)' <=> Pending(j)
    BY <1>2, <1>5, NothingSent DEF Inv
  <2>2. /\ call' \in CallType /\ call'.at = "replied"
        /\ \A j \in Imports : (Calling(j)' <=> Calling(j)) /\ (Cancelling(j)' <=> Cancelling(j))
    BY <1>1, <1>5, CallIsReplied
  <2>3. TypeInv'
    BY <1>2, <1>5, <2>2 DEF Inv, TypeInv, Waits
  <2>4. ASSUME NEW j \in Imports, j # i PROVE ImportOK(j)'
    <3>1. Same(j)
      BY <1>1, <1>2, <1>5, <2>1, <2>2, <2>4 DEF Inv, TypeInv, Waits, Same
    <3> QED BY <3>1, SameKeepsImport DEF Inv
  <2>5. ImportOK(i)'
    BY <1>1, <1>2, <1>5, <2>1, <2>2
       DEF Inv, TypeInv, Waits, ImportOK, Fresh, OnItsWay, Working
  <2> QED BY <2>1, <2>3, <2>4, <2>5 DEF Inv
<1> QED BY <1>1, <1>3, <1>4, <1>5 DEF HandleImport, ImportFile, ImportObject

\* The daemon waits only for the sources of imports that are under way.
LEMMA WaitsIsWorking ==
  ASSUME Inv, NEW i \in Imports, waits[i] # "nothing"
  PROVE  /\ Working(i) /\ ~Pending(i)
         /\ cancelled[i] => waits[i] = "metadata" /\ CalledOff(i)
         /\ ~cancelled[i] => OnItsWay(i)
         /\ \/ status[i] = "asked" /\ call.at = "replied"
            \/ status[i] = "open" \/ status[i] = "cancelled"
<1>1. status[i] \in Statuses /\ ImportOK(i)
  BY DEF Inv, TypeInv
<1>2. (status[i] = "asked" => call \in CallType) /\ (Cancelling(i) => call \in CallType)
  BY <1>1, CallIsOne DEF Inv, ImportOK
<1>3. call \in CallType => call.at \in {"bus", "replied", "failed"}
  BY DEF CallType
<1> QED BY <1>1, <1>2, <1>3 DEF Statuses, ImportOK, Fresh, Working, Finished, Orphaned, OnItsWay, CalledOff, Over

\* A source's answer that ends an import which was not cancelled.
LEMMA AnswerKeepsInv ==
  ASSUME Inv, NEW i \in Imports, waits[i] # "nothing", ~cancelled[i],
         NEW ok \in BOOLEAN, NEW items, ok => items = size[i], import_done(i, items, ok),
         UNCHANGED <<client, cancelled, size>>, urilist' \in [Imports -> Nat]
  PROVE  Inv'
<1>1. /\ Working(i) /\ ~Pending(i) /\ OnItsWay(i)
      /\ \/ status[i] = "asked" /\ call.at = "replied"
         \/ status[i] = "open" \/ status[i] = "cancelled"
  BY WaitsIsWorking
<1>2. /\ imported' \in Seq(MessageType)
      /\ MessagesOK'
      /\ \A j \in Imports : Pending(j)' <=> Pending(j) \/ j = i
      /\ Finished(i)' /\ Pending(i)'
      /\ pl_dat' \in [Imports -> {"none", "live", "freed"}]
      /\ waits' \in [Imports -> {"nothing", "metadata", "browse"}]
      /\ playlist' \in [Imports -> 0 .. MaxItems + 1]
      /\ table' \subseteq Imports
      /\ \A j \in Imports \ {i} :
           /\ UNCHANGED <<pl_dat[j], waits[j], playlist[j]>>
           /\ j \in table' <=> j \in table
  BY <1>1, DoneIsFinished DEF Inv, Working
<1>3. \A j \in Imports : (Calling(j)' <=> Calling(j)) /\ (Cancelling(j)' <=> Cancelling(j))
  BY DEF client, Calling, Cancelling
<1>4. TypeInv'
  BY <1>2 DEF Inv, TypeInv, client
<1>5. ASSUME NEW j \in Imports, j # i PROVE ImportOK(j)'
  <2>1. /\ UNCHANGED <<pl_dat[j], waits[j], playlist[j], status[j], answers[j], cancelled[j],
                      size[j], call, requests, callback>>
        /\ (j \in table)' <=> j \in table
        /\ Pending(j)' <=> Pending(j)
        /\ Calling(j)' <=> Calling(j)
        /\ Cancelling(j)' <=> Cancelling(j)
        /\ NoPlaylist' = NoPlaylist
    BY <1>2, <1>3, <1>5 DEF client, NoPlaylist
  <2>2. /\ Fresh(j)' <=> Fresh(j)
        /\ Over(j)' <=> Over(j)
        /\ Finished(j)' <=> Finished(j)
        /\ OnItsWay(j)' <=> OnItsWay(j)
        /\ CalledOff(j)' <=> CalledOff(j)
    BY <2>1 DEF Fresh, Working, Finished, Orphaned, OnItsWay, CalledOff, Over
  <2> QED BY <2>1, <2>2 DEF Inv, ImportOK
<1>6. ImportOK(i)'
  BY <1>1, <1>2, <1>3 DEF Inv, client, ImportOK, CalledOff, Working, Orphaned, OnItsWay
<1> QED BY <1>2, <1>4, <1>5, <1>6 DEF Inv

LEMMA MdataKeepsInv ==
  ASSUME Inv, NEW i \in Imports, mdata_res_cb(i)
  PROVE  Inv'
<1>1. /\ waits[i] = "metadata"
      /\ UNCHANGED <<client, cancelled, urilist, size>>
      /\ urilist' \in [Imports -> Nat]
      /\ \A j \in Imports : (Calling(j)' <=> Calling(j)) /\ (Cancelling(j)' <=> Cancelling(j))
  BY DEF Inv, TypeInv, mdata_res_cb, client, Calling, Cancelling
<1>2. CASE cancelled[i] /\ Dropped(i)
  <2>1. MessagesOK' /\ \A j \in Imports : Pending(j)' <=> Pending(j)
    BY <1>1, <1>2, NothingSent DEF Inv, Dropped
  <2>2. TypeInv'
    BY <1>1, <1>2 DEF Inv, TypeInv, Dropped, Freed, Waits, client
  <2>3. ASSUME NEW j \in Imports, j # i PROVE ImportOK(j)'
    BY <1>1, <1>2, <2>1, <2>3
       DEF Inv, TypeInv, Dropped, Freed, Waits, client, ImportOK, Fresh, Working, Finished, Orphaned, OnItsWay, CalledOff, Over
  <2>4. ImportOK(i)'
    <3>1. /\ CalledOff(i) /\ ~Pending(i) /\ Working(i)
          /\ \/ status[i] = "asked" /\ call.at = "replied"
             \/ status[i] = "open" \/ status[i] = "cancelled"
      BY <1>1, <1>2, WaitsIsWorking
    <3>2. CalledOff(i)'
      BY <1>1, <1>2, <2>1, <3>1
         DEF Inv, TypeInv, Dropped, Freed, Waits, Working, Finished, CalledOff
    <3> QED BY <1>1, <1>2, <3>1, <3>2 DEF Inv, client, ImportOK, OnItsWay, Finished, Working
  <2> QED BY <2>1, <2>2, <2>3, <2>4 DEF Inv
<1>3. CASE ~cancelled[i] /\ import_done(i, 0, FALSE)
  BY <1>1, <1>3, AnswerKeepsInv
<1>4. CASE ~cancelled[i] /\ import_done(i, size[i], TRUE)
  BY <1>1, <1>4, AnswerKeepsInv
<1>5. CASE ~cancelled[i] /\ Waits(i, "browse") /\ UNCHANGED <<imported, pl_dat, table, playlist>>
  <2>1. MessagesOK' /\ \A j \in Imports : Pending(j)' <=> Pending(j)
    BY <1>1, <1>5, NothingSent DEF Inv
  <2>2. TypeInv'
    BY <1>1, <1>5 DEF Inv, TypeInv, Waits, client
  <2>3. ASSUME NEW j \in Imports, j # i PROVE ImportOK(j)'
    BY <1>1, <1>5, <2>1, <2>3
       DEF Inv, TypeInv, Waits, client, ImportOK, Fresh, Working, Finished, Orphaned, OnItsWay, CalledOff, Over
  <2>4. ImportOK(i)'
    BY <1>1, <1>5, <2>1 DEF Inv, TypeInv, Waits, client, ImportOK, Fresh, Working, Finished, Orphaned, OnItsWay, CalledOff, Over
  <2> QED BY <2>1, <2>2, <2>3, <2>4 DEF Inv
<1> QED BY <1>1, <1>2, <1>3, <1>4, <1>5 DEF mdata_res_cb

LEMMA BrowseKeepsInv ==
  ASSUME Inv, NEW i \in Imports, browse_res_cb(i)
  PROVE  Inv'
<1>1. /\ waits[i] = "browse" /\ ~cancelled[i]
      /\ UNCHANGED <<client, cancelled, size>>
      /\ \A j \in Imports : (Calling(j)' <=> Calling(j)) /\ (Cancelling(j)' <=> Cancelling(j))
  BY WaitsIsWorking DEF browse_res_cb, client, Calling, Cancelling
<1>2. urilist' \in [Imports -> Nat]
  <2>1. size[i] \in Nat /\ urilist[i] + 1 \in Nat /\ urilist \in [Imports -> Nat]
    BY ImportAssumption DEF Inv, TypeInv
  <2>2. \/ urilist' = [urilist EXCEPT ![i] = @ + 1]
        \/ urilist' = [urilist EXCEPT ![i] = size[i]]
        \/ urilist' = urilist
    BY DEF browse_res_cb
  <2> QED BY <2>1, <2>2
<1>3. CASE UNCHANGED <<imported, pl_dat, table, waits, playlist>>
  <2>1. MessagesOK' /\ \A j \in Imports : Pending(j)' <=> Pending(j)
    BY <1>1, <1>3, NothingSent DEF Inv
  <2>2. TypeInv'
    BY <1>1, <1>2, <1>3 DEF Inv, TypeInv, client
  <2>3. ASSUME NEW j \in Imports PROVE ImportOK(j)'
    BY <1>1, <1>3, <2>1 DEF Inv, client, ImportOK, Fresh, Working, Finished, Orphaned, OnItsWay, CalledOff, Over
  <2> QED BY <2>1, <2>2, <2>3 DEF Inv
<1>4. CASE import_done(i, size[i], TRUE)
  BY <1>1, <1>2, <1>4, AnswerKeepsInv
<1>5. CASE import_done(i, urilist[i], FALSE)
  BY <1>1, <1>2, <1>5, AnswerKeepsInv
<1> QED BY <1>3, <1>4, <1>5 DEF browse_res_cb

-----------------------------------------------------------------------------
(* Theorems *)

LEMMA NextKeepsInv == Inv /\ [Next]_vars => Inv'
<1> SUFFICES ASSUME Inv, [Next]_vars PROVE Inv'
  OBVIOUS
<1>1. CASE Daemon
  BY <1>1, HandleImportKeepsInv, HandleCancelKeepsInv, MdataKeepsInv, BrowseKeepsInv DEF Daemon
<1>2. CASE Manager
  BY <1>2, ImportRepliedKeepsInv, CancelRepliedKeepsInv, PlaylistImportedKeepsInv,
     CallbackReturnsKeepsInv DEF Manager
<1>3. CASE \E i \in Imports : import(i) \/ cancel_import(i)
  BY <1>3, ImportKeepsInv, CancelImportKeepsInv
<1>4. CASE UNCHANGED vars
  <2>1. MessagesOK' /\ \A j \in Imports : Pending(j)' <=> Pending(j)
    BY <1>4, NothingSent DEF Inv, vars, daemon
  <2>2. TypeInv'
    BY <1>4 DEF Inv, TypeInv, vars, client, daemon
  <2>3. ASSUME NEW j \in Imports PROVE ImportOK(j)'
    BY <1>4, <2>1 DEF Inv, vars, client, daemon, Calling, Cancelling, ImportOK, Fresh, Working, Finished, Orphaned, OnItsWay, CalledOff, Over
  <2> QED BY <2>1, <2>2, <2>3 DEF Inv
<1> QED BY <1>1, <1>2, <1>3, <1>4 DEF Next

LEMMA InvHolds == Spec => []Inv
BY InitInv, NextKeepsInv, PTL DEF Spec

\* A cancelled import makes no playlist, and any other all of it or none, as its
\* application was told.
THEOREM CancelsHold == Spec => []CancelHolds
<1>1. ASSUME Inv PROVE CancelHolds
  <2>1. ASSUME NEW i \in Imports
        PROVE  /\ playlist[i] \in {size[i], NoPlaylist}
               /\ status[i] \in {"cancelled", "error"} => playlist[i] = NoPlaylist
               /\ status[i] = "done" => playlist[i] = size[i]
    <3>1. status[i] \in Statuses /\ ImportOK(i)
      BY <1>1 DEF Inv, TypeInv
    <3>2. (status[i] = "asked" => call \in CallType) /\ (Cancelling(i) => call \in CallType)
      BY <1>1, <3>1, CallIsOne DEF Inv, ImportOK
    <3>3. call \in CallType => call.at \in {"bus", "replied", "failed"}
      BY DEF CallType
    <3> QED BY <3>1, <3>2, <3>3 DEF Statuses, ImportOK, Fresh, Working, Finished, Orphaned, OnItsWay, CalledOff, Over
  <2> QED BY <2>1 DEF CancelHolds
<1> QED BY <1>1, InvHolds, PTL

\* The source never calls back with data that is freed, and data that nobody waits
\* for is of an import that was cancelled during its browse.
THEOREM DataLives == Spec => []DataLivesWithWork
<1>1. ASSUME Inv PROVE DataLivesWithWork
  <2>1. ASSUME NEW i \in Imports, waits[i] # "nothing"
        PROVE  pl_dat[i] = "live" /\ i \in table
    BY <1>1, <2>1, WaitsIsWorking DEF Working
  <2>2. ASSUME NEW i \in Imports, pl_dat[i] = "live", waits[i] = "nothing"
        PROVE  ~cancelled[i] /\ (status[i] = "cancelled" \/ Cancelling(i))
    <3>1. status[i] \in Statuses /\ ImportOK(i)
      BY <1>1 DEF Inv, TypeInv
    <3>2. (status[i] = "asked" => call \in CallType) /\ (Cancelling(i) => call \in CallType)
      BY <1>1, <3>1, CallIsOne DEF Inv, ImportOK
    <3>3. call \in CallType => call.at \in {"bus", "replied", "failed"}
      BY DEF CallType
    <3> QED BY <2>2, <3>1, <3>2, <3>3 DEF Statuses, ImportOK, Fresh, Working, Finished, Orphaned, OnItsWay, CalledOff, Over
  <2> QED BY <2>1, <2>2 DEF DataLivesWithWork
<1> QED BY <1>1, InvHolds, PTL

\* The callback of an import is called once, and not after a cancel.
THEOREM OneAnswer == Spec => AnsweredOnce
<1>1. ASSUME Inv, [Next]_vars
      PROVE  [\A i \in Imports : answers'[i] # answers[i] =>
                answers[i] = 0 /\ status[i] = "open"]_vars
  <2>1. CASE playlist_imported
    <3>1. PICK i : i = Head(imported).import
      OBVIOUS
    <3>2. i \in Imports /\ Pending(i) /\ ImportOK(i) /\ status[i] \in Statuses
      BY <1>1, <2>1, <3>1, TakenIsNotPending
         DEF Inv, TypeInv, playlist_imported, daemon, MessageType
    <3>3. i \in requests => status[i] = "open" /\ answers[i] = 0
      BY <3>2 DEF ImportOK, Over
    <3>4. answers' = IF i \in requests THEN [answers EXCEPT ![i] = @ + 1] ELSE answers
      BY <2>1, <3>1 DEF playlist_imported
    <3> QED BY <1>1, <3>2, <3>3, <3>4 DEF Inv, TypeInv
  <2>2. CASE UNCHANGED answers
    BY <2>2
  <2>3. Daemon => UNCHANGED answers
    BY DEF Daemon, client, HandleImport, HandleCancel, mdata_res_cb, browse_res_cb
  <2>4. Manager => playlist_imported \/ UNCHANGED answers
    BY DEF Manager, ImportReplied, CancelReplied, CallbackReturns
  <2>5. ASSUME NEW i \in Imports, import(i) \/ cancel_import(i) PROVE UNCHANGED answers
    BY <2>5 DEF import, cancel_import
  <2>6. UNCHANGED vars => UNCHANGED answers
    BY DEF vars, client
  <2> QED BY <1>1, <2>1, <2>2, <2>3, <2>4, <2>5, <2>6 DEF Next
<1> QED BY <1>1, InvHolds, PTL DEF Spec, AnsweredOnce
=============================================================================
