------------------------- MODULE BrowseSession_proofs -------------------------
(***************************************************************************)
(* Browse sessions implement the promise of BrowseDelivery, for any number *)
(* of requests and results and any batch sizes: the results the source     *)
(* gave are, in order, those the callback got, those of the message being  *)
(* handled, those of the messages under way and those of the batch.        *)
(***************************************************************************)
EXTENDS BrowseSession, TLAPS

Statuses == {"new", "asked", "open", "over", "failed", "cancelled"}
ItemType == [n : Nat, kind : {"more", "last", "broken"}]
BatchType == Seq(ItemType) \ {<<>>}
CallType ==
  [op : {"browse", "cancel"}, req : Reqs, at : {"bus", "source", "replied", "failed"}]
ResultType == [req : Reqs, items : BatchType]
DispatchType == [req : Reqs, items : BatchType, inside : BOOLEAN]

TypeInv ==
  /\ running \subseteq Reqs /\ table \subseteq Reqs /\ idle \subseteq Reqs
  /\ emitted \in [Reqs -> Nat]
  /\ bdata \in [Reqs -> {"none", "live", "freed"}]
  /\ batch \in [Reqs -> Seq(ItemType)]
  /\ maxresults \in [Reqs -> INITIAL_MAX_RESULTS .. MAX_BROWSE_RESULT]
  /\ timer \in [Reqs -> BOOLEAN]
  /\ call \in CallType \cup {NoCall}
  /\ results \in Seq(ResultType)
  /\ entry \in [Reqs -> {"none", "waiting", "emitting", "stopping"}]
  /\ dispatch \in DispatchType \cup {NoMessage}
  /\ status \in [Reqs -> Statuses]
  /\ delivered \in [Reqs -> Seq(Nat)]

LEMMA MinIsLess ==
  ASSUME NEW a \in Nat, NEW b \in Nat
  PROVE  Min({a, b}) = IF a <= b THEN a ELSE b
<1>1. \E x \in {a, b} : \A y \in {a, b} : x <= y
  OBVIOUS
<1>2. Min({a, b}) \in {a, b} /\ \A y \in {a, b} : Min({a, b}) <= y
  BY <1>1 DEF Min
<1> QED BY <1>2

\* A call under way, and each of its steps.
LEMMA CallIsOne ==
  ASSUME TypeInv, call.op \in {"browse", "cancel"}
  PROVE  /\ call \in CallType /\ call # NoCall /\ call.req \in Reqs
         /\ call.at \in {"bus", "source", "replied", "failed"}
BY DEF TypeInv, CallType, NoCall

LEMMA CallMoves ==
  ASSUME call \in CallType, NEW at \in {"bus", "source", "replied", "failed"},
         call' = [call EXCEPT !.at = at]
  PROVE  /\ call' \in CallType /\ call' # NoCall
         /\ call'.op = call.op /\ call'.req = call.req /\ call'.at = at
BY DEF CallType, NoCall

LEMMA CallBegins ==
  ASSUME NEW op \in {"browse", "cancel"}, NEW r \in Reqs,
         call' = [op |-> op, req |-> r, at |-> "bus"]
  PROVE  /\ call' \in CallType /\ call' # NoCall
         /\ call'.op = op /\ call'.req = r /\ call'.at = "bus"
BY DEF CallType, NoCall

LEMMA NoCallIsNone == NoCall.op = "none"
BY DEF NoCall

LEMMA ShownMessage ==
  ASSUME TypeInv
  PROVE  /\ dispatch # NoMessage <=> dispatch \in DispatchType
         /\ dispatch \in DispatchType =>
              /\ dispatch.req \in Reqs /\ dispatch.inside \in BOOLEAN
              /\ dispatch.items \in Seq(ItemType) /\ dispatch.items # <<>>
         /\ NoMessage.inside = FALSE
         /\ dispatch.inside => dispatch \in DispatchType
BY DEF TypeInv, DispatchType, BatchType, NoMessage

LEMMA InitTyped == Init => TypeInv
BY BrowseAssumption DEF Init, TypeInv, Statuses

LEMMA WrapperTyped ==
  ASSUME TypeInv, Wrapper
  PROVE  TypeInv'
<1>1. ASSUME NEW rs \in SUBSET Reqs, Freed(rs)
      PROVE  /\ bdata' \in [Reqs -> {"none", "live", "freed"}]
             /\ batch' \in [Reqs -> Seq(ItemType)]
             /\ timer' \in [Reqs -> BOOLEAN]
  <2>1. bdata' \in [Reqs -> {"none", "live", "freed"}] /\ timer' \in [Reqs -> BOOLEAN]
    BY <1>1 DEF TypeInv, Freed
  <2>2. <<>> \in Seq(ItemType)
    OBVIOUS
  <2>3. batch' \in [Reqs -> Seq(ItemType)]
    BY <1>1, <2>2 DEF TypeInv, Freed
  <2> QED BY <2>1, <2>3
<1>2. CASE HandleBrowse
  <2>1. call' \in CallType /\ call.req \in Reqs
    BY <1>2, CallIsOne, CallMoves DEF HandleBrowse
  <2> QED BY <1>2, <2>1 DEF HandleBrowse, TypeInv, proxy, app
<1>3. CASE BrowseReturns
  <2>1. call' \in CallType /\ call.req \in Reqs
    BY <1>3, CallIsOne, CallMoves DEF BrowseReturns, Browsing
  <2> QED BY <1>3, <2>1 DEF BrowseReturns, TypeInv, source, proxy, app
<1>4. CASE BrowseFails
  <2>1. call' \in CallType /\ call.req \in Reqs
    BY <1>4, CallIsOne, CallMoves DEF BrowseFails, Browsing
  <2>2. /\ bdata' \in [Reqs -> {"none", "live", "freed"}]
        /\ batch' \in [Reqs -> Seq(ItemType)]
        /\ timer' \in [Reqs -> BOOLEAN]
    BY <1>1, <1>4, <2>1 DEF BrowseFails
  <2> QED BY <1>4, <2>1, <2>2 DEF BrowseFails, TypeInv, proxy, app
<1>5. CASE HandleCancel
  <2>1. PICK at \in {"replied", "failed"} : call' = [call EXCEPT !.at = at]
    BY <1>5 DEF HandleCancel
  <2>2. call' \in CallType /\ call.req \in Reqs
    BY <1>5, <2>1, CallIsOne, CallMoves DEF HandleCancel
  <2>3. /\ bdata' \in [Reqs -> {"none", "live", "freed"}]
        /\ batch' \in [Reqs -> Seq(ItemType)]
        /\ timer' \in [Reqs -> BOOLEAN]
    BY <1>1, <1>5, <2>2 DEF HandleCancel
  <2> QED BY <1>5, <2>2, <2>3 DEF HandleCancel, TypeInv, proxy, app
<1>6. ASSUME NEW r \in Reqs, send_browse_res(r) PROVE TypeInv'
  <2>1. Message(r, batch[r]) \in ResultType
    BY <1>6 DEF TypeInv, send_browse_res, Message, ResultType, BatchType
  <2>2. results' \in Seq(ResultType)
    BY <1>6, <2>1 DEF TypeInv, send_browse_res
  <2> QED BY <1>6, <2>2 DEF TypeInv, send_browse_res, source, proxy, app
<1>7. ASSUME NEW r \in Reqs, remove_from_hash(r) PROVE TypeInv'
  <2>1. /\ bdata' \in [Reqs -> {"none", "live", "freed"}]
        /\ batch' \in [Reqs -> Seq(ItemType)]
        /\ timer' \in [Reqs -> BOOLEAN]
    BY <1>1, <1>7 DEF remove_from_hash
  <2> QED BY <1>7, <2>1 DEF remove_from_hash, TypeInv, source, bus, proxy, app
<1> QED BY <1>2, <1>3, <1>4, <1>5, <1>6, <1>7 DEF Wrapper

\* What a result of the source changes.
LEMMA Emitted ==
  ASSUME TypeInv, NEW r \in Reqs, emit_browse_result(r)
  PROVE  \E item \in ItemType :
           LET full == Append(batch[r], item)
               final == item.kind # "more"
               sent == final \/ Len(full) >= maxresults[r]
           IN  /\ item.n = emitted[r] + 1
               /\ r \in running
               /\ call.op = "browse" /\ call.at = "source" => call.req = r
               /\ item.n = MaxItems[r] => final
               /\ emitted' = [emitted EXCEPT ![r] = item.n]
               /\ running' = IF final THEN running \ {r} ELSE running
               /\ full \in BatchType
               /\ results' = IF sent THEN Append(results, Message(r, full)) ELSE results
               /\ batch' = [batch EXCEPT ![r] = IF sent THEN <<>> ELSE full]
               /\ idle' = IF final THEN idle \cup {r} ELSE idle
               /\ timer' = IF final THEN [timer EXCEPT ![r] = FALSE] ELSE timer
               /\ maxresults' = IF sent /\ ~final THEN maxresults' ELSE maxresults
               /\ UNCHANGED <<bdata, table, call, entry, dispatch, status, delivered>>
<1>1. PICK item \in Items(r) :
        LET full == Append(batch[r], item)
            final == item.kind # "more"
        IN  /\ item.n = MaxItems[r] => final
            /\ emitted' = [emitted EXCEPT ![r] = item.n]
            /\ running' = IF final THEN running \ {r} ELSE running
            /\ IF final \/ Len(full) >= maxresults[r]
               THEN /\ results' = Append(results, Message(r, full))
                    /\ batch' = [batch EXCEPT ![r] = <<>>]
               ELSE /\ batch' = [batch EXCEPT ![r] = full]
                    /\ UNCHANGED results
            /\ \/ final /\ FinalBatch(r)
               \/ ~final /\ Len(full) >= maxresults[r]
                    /\ FullBatch(r) /\ UNCHANGED <<table, idle, bdata>>
               \/ ~final /\ Len(full) < maxresults[r]
                    /\ UNCHANGED <<maxresults, timer, table, idle, bdata>>
  BY DEF emit_browse_result
<1>2. item \in ItemType /\ item.n = emitted[r] + 1
  BY DEF Items, ItemType, TypeInv
<1>3. Append(batch[r], item) \in BatchType
  <2>1. batch[r] \in Seq(ItemType)
    BY DEF TypeInv
  <2>2. Append(batch[r], item) \in Seq(ItemType) /\ Len(Append(batch[r], item)) # 0
    BY <1>2, <2>1
  <2> QED BY <2>2 DEF BatchType
<1>4. /\ r \in running
      /\ call.op = "browse" /\ call.at = "source" => call.req = r
      /\ UNCHANGED <<call, entry, dispatch, status, delivered>>
  BY DEF emit_browse_result, Browsing, proxy, app
<1> QED BY <1>1, <1>2, <1>3, <1>4 DEF FinalBatch, FullBatch

LEMMA EmitTyped ==
  ASSUME TypeInv, NEW r \in Reqs, emit_browse_result(r)
  PROVE  TypeInv'
<1>1. PICK item \in ItemType :
        LET full == Append(batch[r], item)
            final == item.kind # "more"
            sent == final \/ Len(full) >= maxresults[r]
        IN  /\ emitted' = [emitted EXCEPT ![r] = item.n]
            /\ running' = IF final THEN running \ {r} ELSE running
            /\ full \in BatchType
            /\ results' = IF sent THEN Append(results, Message(r, full)) ELSE results
            /\ batch' = [batch EXCEPT ![r] = IF sent THEN <<>> ELSE full]
            /\ idle' = IF final THEN idle \cup {r} ELSE idle
            /\ timer' = IF final THEN [timer EXCEPT ![r] = FALSE] ELSE timer
            /\ UNCHANGED <<bdata, table, call, entry, dispatch, status, delivered>>
  BY Emitted
<1> DEFINE full == Append(batch[r], item)
<1>2. Message(r, full) \in ResultType /\ full \in Seq(ItemType)
  BY <1>1 DEF Message, ResultType, BatchType
<1>3. results' \in Seq(ResultType)
  BY <1>1, <1>2 DEF TypeInv
<1>4. batch' \in [Reqs -> Seq(ItemType)]
  <2> DEFINE b == IF item.kind # "more" \/ Len(full) >= maxresults[r] THEN <<>> ELSE full
  <2>1. b \in Seq(ItemType) /\ batch' = [batch EXCEPT ![r] = b]
    BY <1>1, <1>2
  <2> HIDE DEF b
  <2> QED BY <2>1 DEF TypeInv
<1>5. emitted' \in [Reqs -> Nat]
  BY <1>1 DEF TypeInv, ItemType
<1>6. maxresults' \in [Reqs -> INITIAL_MAX_RESULTS .. MAX_BROWSE_RESULT]
  <2>1. CASE UNCHANGED maxresults
    BY <2>1 DEF TypeInv
  <2>2. CASE FullBatch(r)
    <3> DEFINE m == maxresults[r]
               more == IF m = MAX_BROWSE_RESULT THEN m ELSE Min({3 * m, MAX_BROWSE_RESULT})
    <3>1. m \in INITIAL_MAX_RESULTS .. MAX_BROWSE_RESULT /\ m \in Nat /\ 3 * m \in Nat
      BY BrowseAssumption DEF TypeInv
    <3>2. more \in INITIAL_MAX_RESULTS .. MAX_BROWSE_RESULT
      <4>1. Min({3 * m, MAX_BROWSE_RESULT}) =
              IF 3 * m <= MAX_BROWSE_RESULT THEN 3 * m ELSE MAX_BROWSE_RESULT
        BY <3>1, BrowseAssumption, MinIsLess
      <4> QED BY <3>1, <4>1, BrowseAssumption
    <3>3. maxresults' = [maxresults EXCEPT ![r] = more]
      BY <2>2 DEF FullBatch
    <3> HIDE DEF more
    <3> QED BY <3>2, <3>3 DEF TypeInv
  <2> QED BY <2>1, <2>2 DEF emit_browse_result, FinalBatch
<1>7. /\ running' \subseteq Reqs /\ idle' \subseteq Reqs
      /\ timer' \in [Reqs -> BOOLEAN]
  BY <1>1 DEF TypeInv
<1> QED BY <1>1, <1>3, <1>4, <1>5, <1>6, <1>7 DEF TypeInv

LEMMA ProxyTyped ==
  ASSUME TypeInv, Proxy \/ \E r \in Reqs : Browse(r) \/ Cancel(r)
  PROVE  TypeInv'
<1>1. CASE BrowseReplied
  <2>1. call.req \in Reqs /\ call' = NoCall
    BY <1>1, CallIsOne DEF BrowseReplied
  <2>2. status' \in [Reqs -> Statuses] /\ entry' \in [Reqs -> {"none", "waiting", "emitting", "stopping"}]
    BY <1>1 DEF BrowseReplied, TypeInv, Statuses
  <2> QED BY <1>1, <2>1, <2>2 DEF BrowseReplied, TypeInv, source, wrapper
<1>2. CASE CancelReplied
  BY <1>2 DEF CancelReplied, TypeInv, source, wrapper, proxy, app
<1>3. CASE Dispatch
  <2>1. /\ Head(results) \in ResultType /\ results' \in Seq(ResultType)
    BY <1>3 DEF Dispatch, TypeInv
  <2>2. CASE UNCHANGED proxy
    BY <1>3, <2>1, <2>2 DEF Dispatch, TypeInv, source, wrapper, proxy, app
  <2>3. CASE ~UNCHANGED proxy
    <3>1. dispatch' \in DispatchType
      <4>1. PICK m \in ResultType : m = Head(results)
        BY <2>1
      <4>2. dispatch' = [req |-> m.req, items |-> m.items, inside |-> FALSE]
        BY <1>3, <2>3, <4>1 DEF Dispatch
      <4> QED BY <4>2 DEF ResultType, DispatchType
    <3>2. entry' \in [Reqs -> {"none", "waiting", "emitting", "stopping"}]
      BY <1>3, <2>3 DEF Dispatch, TypeInv
    <3> QED BY <1>3, <2>1, <3>1, <3>2 DEF Dispatch, TypeInv, source, wrapper, app
  <2> QED BY <2>2, <2>3
<1>4. CASE Callback
  <2>1. /\ dispatch \in DispatchType /\ Head(dispatch.items) \in ItemType
        /\ dispatch.req \in Reqs
    BY <1>4, ShownMessage DEF Callback
  <2>2. dispatch' \in DispatchType
    BY <1>4, <2>1 DEF Callback, DispatchType
  <2>3. delivered' \in [Reqs -> Seq(Nat)]
    <3>1. Head(dispatch.items).n \in Nat
      BY <2>1 DEF ItemType
    <3>2. Append(delivered[dispatch.req], Head(dispatch.items).n) \in Seq(Nat)
      BY <2>1, <3>1 DEF TypeInv
    <3> QED BY <1>4, <3>2 DEF Callback, TypeInv
  <2>4. status' \in [Reqs -> Statuses]
    BY <1>4 DEF Callback, TypeInv, Statuses
  <2> QED BY <1>4, <2>2, <2>3, <2>4 DEF Callback, TypeInv, source, wrapper, bus
<1>5. CASE Returned
  <2>1. dispatch \in DispatchType /\ Tail(dispatch.items) \in Seq(ItemType) /\ dispatch.req \in Reqs
    BY <1>5, ShownMessage DEF Returned
  <2>2. dispatch' \in DispatchType \cup {NoMessage}
    BY <1>5, <2>1 DEF Returned, DispatchType, BatchType
  <2>3. entry' \in [Reqs -> {"none", "waiting", "emitting", "stopping"}]
    BY <1>5 DEF Returned, TypeInv
  <2> QED BY <1>5, <2>2, <2>3 DEF Returned, TypeInv, source, wrapper, bus, app
<1>6. ASSUME NEW r \in Reqs, Browse(r) PROVE TypeInv'
  <2>1. call' \in CallType
    BY <1>6, CallBegins DEF Browse
  <2>2. status' \in [Reqs -> Statuses]
    BY <1>6 DEF Browse, TypeInv, Statuses
  <2> QED BY <1>6, <2>1, <2>2 DEF Browse, TypeInv, source, wrapper, proxy
<1>7. ASSUME NEW r \in Reqs, Cancel(r) PROVE TypeInv'
  <2>1. call' \in CallType
    BY <1>7, CallBegins DEF Cancel
  <2>2. status' \in [Reqs -> Statuses]
    BY <1>7 DEF Cancel, TypeInv, Statuses
  <2>3. entry' \in [Reqs -> {"none", "waiting", "emitting", "stopping"}]
    BY <1>7 DEF Cancel, CancelledEntry, TypeInv
  <2> QED BY <1>7, <2>1, <2>2, <2>3 DEF Cancel, TypeInv, source, wrapper
<1> QED BY <1>1, <1>2, <1>3, <1>4, <1>5, <1>6, <1>7 DEF Proxy

LEMMA Typed == Spec => []TypeInv
<1>1. TypeInv /\ UNCHANGED vars => TypeInv'
  BY DEF TypeInv, vars, source, wrapper, bus, proxy, app
<1>2. TypeInv /\ [Next]_vars => TypeInv'
  BY <1>1, WrapperTyped, EmitTyped, ProxyTyped DEF Next
<1> QED BY InitTyped, <1>2, PTL DEF Spec

-----------------------------------------------------------------------------
(* The wrapper *)

Asking(r) == call.op = "browse" /\ call.req = r
Cancelling(r) == call.op = "cancel" /\ call.req = r

\* The wrapper has not heard of it.
Fresh(r) ==
  /\ r \notin running /\ r \notin table /\ r \notin idle
  /\ ~timer[r] /\ batch[r] = <<>> /\ emitted[r] = 0

WrapperOK(r) ==
  /\ r \in running \/ timer[r] \/ r \in table => bdata[r] = "live"
  /\ Asking(r) /\ call.at = "source" => bdata[r] = "live" /\ r \notin table
  /\ status[r] = "new" \/ (Asking(r) /\ call.at = "bus") => Fresh(r)
  /\ r \in idle => r \notin running
  /\ r \notin running => batch[r] = <<>>
  /\ emitted[r] <= MaxItems[r]
  /\ r \in running =>
       /\ emitted[r] < MaxItems[r]
       /\ r \in table \/ (Asking(r) /\ call.at = "source")
  /\ Len(batch[r]) < maxresults[r]

\* No message is empty or too long.
MessagesFit ==
  \A k \in 1 .. Len(results) : Len(results[k].items) <= MAX_BROWSE_RESULT

-----------------------------------------------------------------------------
(* The proxy *)

Showing(r) == dispatch # NoMessage /\ dispatch.req = r

ProxyOK(r) ==
  /\ status[r] = "asked" <=> Asking(r)
  /\ Cancelling(r) => status[r] \in {"cancelled", "over"}
  /\ status[r] \in {"new", "asked", "failed"} => entry[r] = "none"
  /\ status[r] = "open" => entry[r] \in {"waiting", "emitting"}
  /\ entry[r] = "waiting" => status[r] \in {"open", "over"}
  /\ entry[r] = "emitting" => Showing(r) /\ status[r] \in {"open", "over"}
  /\ entry[r] = "stopping" => Showing(r) /\ dispatch.inside /\ status[r] \in {"cancelled", "over"}
  /\ Showing(r) => entry[r] \in {"emitting", "stopping"}
  /\ Showing(r) /\ dispatch.inside /\ Head(dispatch.items).kind # "more" => status[r] = "over"

Sound == MessagesFit /\ \A r \in Reqs : WrapperOK(r) /\ ProxyOK(r)

LEMMA InitSound == Init => Sound
BY BrowseAssumption
   DEF Init, Sound, MessagesFit, WrapperOK, ProxyOK, Asking, Cancelling, Showing, Fresh, NoCall

\* What the proxy and the application know is as it was.
LEMMA ProxyKept ==
  ASSUME Sound, UNCHANGED <<status, entry, dispatch>>,
         \A r \in Reqs : (Asking(r)' <=> Asking(r)) /\ (Cancelling(r)' => Cancelling(r))
  PROVE  \A r \in Reqs : ProxyOK(r)'
BY DEF Sound, ProxyOK, Showing

\* A request that the wrapper leaves alone.
LEMMA WrapperKept ==
  ASSUME Sound, NEW r \in Reqs,
         UNCHANGED <<bdata[r], batch[r], timer[r], emitted[r], maxresults[r]>>,
         (r \in running)' <=> r \in running,
         (r \in table)' <=> r \in table,
         (r \in idle)' => r \in idle,
         (Asking(r) /\ call.at = "source")' <=> Asking(r) /\ call.at = "source",
         (status[r] = "new" \/ (Asking(r) /\ call.at = "bus"))' =>
           status[r] = "new" \/ (Asking(r) /\ call.at = "bus")
  PROVE  WrapperOK(r)'
BY DEF Sound, WrapperOK, Fresh

LEMMA MessagesKept == ASSUME Sound, UNCHANGED results PROVE MessagesFit'
BY DEF Sound, MessagesFit

LEMMA HandleBrowseSound == ASSUME TypeInv, Sound, HandleBrowse PROVE Sound'
<1>1. PICK q \in Reqs :
        /\ q = call.req /\ Asking(q) /\ call.at = "bus"
        /\ call'.op = "browse" /\ call'.req = q /\ call'.at = "source"
  BY CallIsOne, CallMoves DEF HandleBrowse, Asking
<1>2. /\ bdata' = [bdata EXCEPT ![q] = "live"]
      /\ timer' = [timer EXCEPT ![q] = TRUE]
      /\ running' = running \cup {q}
      /\ UNCHANGED <<emitted, batch, maxresults, table, idle, results, entry, dispatch, status>>
  BY <1>1 DEF HandleBrowse, proxy, app
<1>3. \A r \in Reqs : ProxyOK(r)'
  BY <1>1, <1>2, ProxyKept DEF Asking, Cancelling
<1>4. WrapperOK(q)'
  <2>1. Fresh(q) /\ status[q] = "asked" /\ MaxItems[q] \in Nat \ {0}
    BY <1>1, BrowseAssumption DEF Sound, WrapperOK, ProxyOK
  <2> QED BY <1>1, <1>2, <2>1 DEF Sound, WrapperOK, Fresh, Asking, TypeInv
<1>5. ASSUME NEW r \in Reqs \ {q} PROVE WrapperOK(r)'
  BY <1>1, <1>2, WrapperKept DEF TypeInv, Asking
<1> QED BY <1>2, <1>3, <1>4, <1>5, MessagesKept DEF Sound

LEMMA BrowseReturnsSound == ASSUME TypeInv, Sound, BrowseReturns PROVE Sound'
<1>1. PICK q \in Reqs :
        /\ q = call.req /\ Asking(q) /\ call.at = "source"
        /\ call'.op = "browse" /\ call'.req = q /\ call'.at = "replied"
  BY CallIsOne, CallMoves DEF BrowseReturns, Browsing, Asking
<1>2. /\ table' = table \cup {q}
      /\ UNCHANGED <<running, emitted, bdata, batch, maxresults, timer, idle, results, entry, dispatch, status>>
  BY <1>1 DEF BrowseReturns, source, proxy, app
<1>3. \A r \in Reqs : ProxyOK(r)'
  BY <1>1, <1>2, ProxyKept DEF Asking, Cancelling
<1>4. WrapperOK(q)'
  <2>1. status[q] = "asked"
    BY <1>1 DEF Sound, ProxyOK
  <2> QED BY <1>1, <1>2, <2>1 DEF Sound, WrapperOK, Fresh, Asking
<1>5. ASSUME NEW r \in Reqs \ {q} PROVE WrapperOK(r)'
  BY <1>1, <1>2, WrapperKept DEF TypeInv, Asking
<1> QED BY <1>2, <1>3, <1>4, <1>5, MessagesKept DEF Sound

LEMMA BrowseFailsSound == ASSUME TypeInv, Sound, BrowseFails PROVE Sound'
<1>1. PICK q \in Reqs :
        /\ q = call.req /\ Asking(q) /\ call.at = "source"
        /\ call'.op = "browse" /\ call'.req = q /\ call'.at = "failed"
  BY CallIsOne, CallMoves DEF BrowseFails, Browsing, Asking
<1>2. /\ running' = running \ {q}
      /\ Freed({q})
      /\ UNCHANGED <<emitted, table, maxresults, idle, results, entry, dispatch, status>>
  BY <1>1 DEF BrowseFails, proxy, app
<1>3. \A r \in Reqs : ProxyOK(r)'
  BY <1>1, <1>2, ProxyKept DEF Asking, Cancelling
<1>4. WrapperOK(q)'
  <2>1. status[q] = "asked" /\ maxresults[q] \in Nat \ {0}
    BY <1>1, BrowseAssumption DEF Sound, ProxyOK, TypeInv
  <2>2. timer'[q] = FALSE /\ batch'[q] = <<>> /\ Len(<<>>) = 0
    BY <1>2 DEF Freed
  <2> QED BY <1>1, <1>2, <2>1, <2>2 DEF Sound, WrapperOK, Fresh, Asking
<1>5. ASSUME NEW r \in Reqs \ {q} PROVE WrapperOK(r)'
  BY <1>1, <1>2, WrapperKept DEF TypeInv, Asking, Freed
<1> QED BY <1>2, <1>3, <1>4, <1>5, MessagesKept DEF Sound

LEMMA HandleCancelSound == ASSUME TypeInv, Sound, HandleCancel PROVE Sound'
<1>1. PICK q \in Reqs, at \in {"replied", "failed"} :
        /\ q = call.req /\ Cancelling(q) /\ call.op = "cancel"
        /\ call'.op = "cancel" /\ call'.req = q /\ call'.at = at
  BY CallIsOne, CallMoves DEF HandleCancel, Cancelling
<1>2. /\ running' = running \ {q} /\ table' = table \ {q}
      /\ Freed({q} \cap table)
      /\ UNCHANGED <<emitted, maxresults, idle, results, entry, dispatch, status>>
  BY <1>1 DEF HandleCancel, proxy, app
<1>3. \A r \in Reqs : ProxyOK(r)'
  BY <1>1, <1>2, ProxyKept DEF Asking, Cancelling
<1>4. WrapperOK(q)'
  <2>1. status[q] \in {"cancelled", "over"} /\ maxresults[q] \in Nat \ {0} /\ Len(<<>>) = 0
    BY <1>1, BrowseAssumption DEF Sound, ProxyOK, TypeInv
  <2>2. CASE q \in table
    <3>1. timer'[q] = FALSE /\ batch'[q] = <<>>
      BY <1>2, <2>2 DEF Freed
    <3> QED BY <1>1, <1>2, <2>1, <3>1 DEF Sound, WrapperOK, Asking
  <2>3. CASE q \notin table
    <3>1. /\ UNCHANGED <<bdata[q], timer[q], batch[q]>>
          /\ q \notin running
      BY <1>1, <1>2, <2>3 DEF Freed, TypeInv, Sound, WrapperOK, Asking
    <3> QED BY <1>1, <1>2, <2>1, <2>3, <3>1 DEF Sound, WrapperOK, Asking
  <2> QED BY <2>2, <2>3
<1>5. ASSUME NEW r \in Reqs \ {q} PROVE WrapperOK(r)'
  BY <1>1, <1>2, WrapperKept DEF TypeInv, Asking, Freed
<1> QED BY <1>2, <1>3, <1>4, <1>5, MessagesKept DEF Sound

LEMMA SendSound == ASSUME TypeInv, Sound, NEW q \in Reqs, send_browse_res(q) PROVE Sound'
<1>1. /\ timer[q] /\ batch[q] # <<>>
      /\ results' = Append(results, Message(q, batch[q]))
      /\ batch' = [batch EXCEPT ![q] = <<>>]
      /\ UNCHANGED <<running, emitted, bdata, maxresults, timer, table, idle, call, entry, dispatch, status>>
  BY DEF send_browse_res, source, proxy, app
<1>2. \A r \in Reqs : ProxyOK(r)'
  BY <1>1, ProxyKept DEF Asking, Cancelling
<1>3. WrapperOK(q)'
  <2>1. maxresults[q] \in Nat \ {0} /\ Len(<<>>) = 0 /\ batch'[q] = <<>>
    BY <1>1, BrowseAssumption DEF TypeInv
  <2> QED BY <1>1, <2>1 DEF Sound, WrapperOK, Fresh, Asking
<1>4. ASSUME NEW r \in Reqs \ {q} PROVE WrapperOK(r)'
  BY <1>1, WrapperKept DEF TypeInv, Asking
<1>5. MessagesFit'
  <2>1. Len(batch[q]) <= MAX_BROWSE_RESULT
    BY BrowseAssumption DEF Sound, WrapperOK, TypeInv
  <2>2. /\ results \in Seq(ResultType) /\ Len(results') = Len(results) + 1
        /\ results'[Len(results) + 1].items = batch[q]
        /\ \A k \in 1 .. Len(results) : results'[k] = results[k]
    BY <1>1 DEF TypeInv, Message
  <2> QED BY <2>1, <2>2 DEF Sound, MessagesFit
<1> QED BY <1>2, <1>3, <1>4, <1>5 DEF Sound

LEMMA RemoveSound == ASSUME TypeInv, Sound, NEW q \in Reqs, remove_from_hash(q) PROVE Sound'
<1>1. /\ q \in idle /\ ~(call.op = "browse" /\ call.at = "source")
      /\ idle' = idle \ {q} /\ table' = table \ {q}
      /\ Freed({q} \cap table)
      /\ UNCHANGED <<running, emitted, maxresults, results, call, entry, dispatch, status>>
  BY DEF remove_from_hash, Browsing, source, bus, proxy, app
<1>2. \A r \in Reqs : ProxyOK(r)'
  BY <1>1, ProxyKept DEF Asking, Cancelling
<1>3. WrapperOK(q)'
  <2>1. maxresults[q] \in Nat \ {0} /\ Len(<<>>) = 0
    BY <1>1, BrowseAssumption DEF TypeInv
  <2>2. CASE q \in table
    <3>1. timer'[q] = FALSE /\ batch'[q] = <<>>
      BY <1>1, <2>2 DEF Freed
    <3> QED BY <1>1, <2>1, <3>1 DEF Sound, WrapperOK, Asking, Fresh
  <2>3. CASE q \notin table
    <3>1. UNCHANGED <<bdata[q], timer[q], batch[q]>>
      BY <1>1, <2>3 DEF Freed, TypeInv
    <3> QED BY <1>1, <2>1, <2>3, <3>1 DEF Sound, WrapperOK, Asking, Fresh
  <2> QED BY <2>2, <2>3
<1>4. ASSUME NEW r \in Reqs \ {q} PROVE WrapperOK(r)'
  BY <1>1, WrapperKept DEF TypeInv, Asking, Freed
<1> QED BY <1>1, <1>2, <1>3, <1>4, MessagesKept DEF Sound

LEMMA EmitSound == ASSUME TypeInv, Sound, NEW q \in Reqs, emit_browse_result(q) PROVE Sound'
<1>1. PICK item \in ItemType :
        LET full == Append(batch[q], item)
            final == item.kind # "more"
            sent == final \/ Len(full) >= maxresults[q]
        IN  /\ item.n = emitted[q] + 1
            /\ q \in running
            /\ call.op = "browse" /\ call.at = "source" => call.req = q
            /\ item.n = MaxItems[q] => final
            /\ emitted' = [emitted EXCEPT ![q] = item.n]
            /\ running' = IF final THEN running \ {q} ELSE running
            /\ full \in BatchType
            /\ results' = IF sent THEN Append(results, Message(q, full)) ELSE results
            /\ batch' = [batch EXCEPT ![q] = IF sent THEN <<>> ELSE full]
            /\ idle' = IF final THEN idle \cup {q} ELSE idle
            /\ timer' = IF final THEN [timer EXCEPT ![q] = FALSE] ELSE timer
            /\ maxresults' = IF sent /\ ~final THEN maxresults' ELSE maxresults
            /\ UNCHANGED <<bdata, table, call, entry, dispatch, status, delivered>>
  BY Emitted
<1> DEFINE full == Append(batch[q], item)
           final == item.kind # "more"
           sent == final \/ Len(full) >= maxresults[q]
<1>2. \A r \in Reqs : ProxyOK(r)'
  BY <1>1, ProxyKept DEF Asking, Cancelling
<1>3. /\ batch[q] \in Seq(ItemType) /\ Len(full) = Len(batch[q]) + 1
      /\ Len(full) <= maxresults[q]
      /\ maxresults[q] \in Nat \ {0} /\ maxresults[q] <= MAX_BROWSE_RESULT
      /\ emitted[q] + 1 <= MaxItems[q]
  <2>1. batch[q] \in Seq(ItemType) /\ Len(full) = Len(batch[q]) + 1
    BY <1>1 DEF TypeInv
  <2>2. maxresults[q] \in Nat \ {0} /\ maxresults[q] <= MAX_BROWSE_RESULT
    BY BrowseAssumption DEF TypeInv
  <2>3. Len(batch[q]) < maxresults[q] /\ emitted[q] < MaxItems[q]
    BY <1>1 DEF Sound, WrapperOK
  <2>4. emitted[q] \in Nat /\ MaxItems[q] \in Nat
    BY BrowseAssumption DEF TypeInv
  <2> HIDE DEF full
  <2> QED BY <2>1, <2>2, <2>3, <2>4
<1>4. WrapperOK(q)'
  <2>1. Len(batch'[q]) < maxresults'[q]
    <3>1. maxresults'[q] \in Nat \ {0} /\ Len(<<>>) = 0
      BY EmitTyped, BrowseAssumption DEF TypeInv
    <3>2. CASE sent
      BY <1>1, <3>1, <3>2 DEF TypeInv
    <3>3. CASE ~sent
      BY <1>1, <1>3, <3>3 DEF TypeInv
    <3> QED BY <3>2, <3>3
  <2>2. /\ emitted'[q] = emitted[q] + 1
        /\ final => q \notin running' /\ timer'[q] = FALSE /\ batch'[q] = <<>>
        /\ ~final => /\ q \in running' /\ UNCHANGED <<timer[q], idle>>
                     /\ emitted[q] + 1 < MaxItems[q]
    <3>1. /\ emitted'[q] = emitted[q] + 1
          /\ emitted[q] \in Nat /\ MaxItems[q] \in Nat
      BY <1>1, BrowseAssumption DEF TypeInv
    <3>2. CASE final
      BY <1>1, <3>1, <3>2 DEF TypeInv
    <3>3. CASE ~final
      BY <1>1, <1>3, <3>1, <3>3
    <3> QED BY <3>1, <3>2, <3>3
  <2>3. status[q] # "new" /\ ~(Asking(q) /\ call.at = "bus")
    BY <1>1 DEF Sound, WrapperOK, Fresh
  <2>4. q \in running /\ bdata'[q] = bdata[q] /\ bdata[q] = "live" /\ (table' = table) /\ (call' = call)
        /\ status' = status /\ q \notin idle
    BY <1>1 DEF Sound, WrapperOK
  <2> HIDE DEF final
  <2> QED BY <1>3, <2>1, <2>2, <2>3, <2>4 DEF Sound, WrapperOK, Asking
<1>5. ASSUME NEW r \in Reqs \ {q} PROVE WrapperOK(r)'
  <2>1. UNCHANGED maxresults[r]
    BY <1>5 DEF emit_browse_result, FullBatch, FinalBatch, TypeInv
  <2> QED BY <1>1, <2>1, WrapperKept DEF TypeInv, Asking
<1>6. MessagesFit'
  <2>1. CASE UNCHANGED results
    BY <2>1, MessagesKept
  <2>2. CASE results' = Append(results, Message(q, full))
    <3>1. /\ results \in Seq(ResultType) /\ Len(results') = Len(results) + 1
          /\ results'[Len(results) + 1].items = full
          /\ \A k \in 1 .. Len(results) : results'[k] = results[k]
      BY <2>2 DEF TypeInv, Message
    <3>2. Len(full) <= MAX_BROWSE_RESULT
      BY <1>3, BrowseAssumption
    <3> HIDE DEF full
    <3> QED BY <3>1, <3>2 DEF Sound, MessagesFit
  <2> QED BY <1>1, <2>1, <2>2
<1> QED BY <1>2, <1>4, <1>5, <1>6 DEF Sound

\* A request that the application and the proxy leave alone.
LEMMA OtherProxyKept ==
  ASSUME Sound, NEW r \in Reqs,
         UNCHANGED <<status[r], entry[r]>>,
         Asking(r)' <=> Asking(r), Cancelling(r)' => Cancelling(r),
         Showing(r)' <=> Showing(r),
         Showing(r) => dispatch' = dispatch
  PROVE  ProxyOK(r)'
BY DEF Sound, ProxyOK

\* A step of the application or the proxy leaves the wrapper alone.
LEMMA WrapperUntouched ==
  ASSUME TypeInv, Sound, UNCHANGED <<source, wrapper>>, NEW r \in Reqs,
         (Asking(r) /\ call.at = "source")' <=> Asking(r) /\ call.at = "source",
         (status[r] = "new" \/ (Asking(r) /\ call.at = "bus"))' =>
           status[r] = "new" \/ (Asking(r) /\ call.at = "bus")
  PROVE  WrapperOK(r)'
BY WrapperKept DEF source, wrapper

LEMMA BrowseSound == ASSUME TypeInv, Sound, NEW q \in Reqs, Browse(q) PROVE Sound'
<1>1. /\ call = NoCall /\ call.op = "none" /\ status[q] = "new"
      /\ status' = [status EXCEPT ![q] = "asked"]
      /\ call'.op = "browse" /\ call'.req = q /\ call'.at = "bus"
      /\ UNCHANGED <<source, wrapper, results, entry, dispatch>>
  BY CallBegins, NoCallIsNone DEF Browse, Free, proxy
<1>2. ASSUME NEW r \in Reqs PROVE WrapperOK(r)'
  <2>1. CASE r = q
    BY <1>1, <2>1, WrapperUntouched DEF Asking, TypeInv
  <2>2. CASE r # q
    BY <1>1, <2>2, WrapperUntouched DEF Asking, TypeInv
  <2> QED BY <2>1, <2>2
<1>3. ProxyOK(q)'
  BY <1>1 DEF Sound, ProxyOK, Asking, Cancelling, Showing, TypeInv
<1>4. ASSUME NEW r \in Reqs \ {q} PROVE ProxyOK(r)'
  BY <1>1, <1>4, OtherProxyKept DEF Asking, Cancelling, Showing, TypeInv
<1> QED BY <1>1, <1>2, <1>3, <1>4, MessagesKept DEF Sound

LEMMA CancelSound == ASSUME TypeInv, Sound, NEW q \in Reqs, Cancel(q) PROVE Sound'
<1>1. /\ call = NoCall /\ call.op = "none" /\ entry[q] # "none"
      /\ dispatch = NoMessage \/ dispatch.inside
      /\ entry' = [entry EXCEPT ![q] = CancelledEntry(q)]
      /\ status' = [status EXCEPT ![q] = IF status[q] = "open" THEN "cancelled" ELSE status[q]]
      /\ call'.op = "cancel" /\ call'.req = q /\ call'.at = "bus"
      /\ UNCHANGED <<source, wrapper, results, dispatch>>
  BY CallBegins, NoCallIsNone DEF Cancel, Free
<1>2. ASSUME NEW r \in Reqs PROVE WrapperOK(r)'
  BY <1>1, WrapperUntouched DEF Asking, TypeInv
<1>3. ProxyOK(q)'
  BY <1>1 DEF Sound, ProxyOK, Asking, Cancelling, Showing, CancelledEntry, TypeInv
<1>4. ASSUME NEW r \in Reqs \ {q} PROVE ProxyOK(r)'
  BY <1>1, <1>4, OtherProxyKept DEF Asking, Cancelling, Showing, TypeInv
<1> QED BY <1>1, <1>2, <1>3, <1>4, MessagesKept DEF Sound

LEMMA BrowseRepliedSound == ASSUME TypeInv, Sound, BrowseReplied PROVE Sound'
<1>1. PICK q \in Reqs :
        /\ q = call.req /\ Asking(q) /\ call.at \in {"replied", "failed"}
        /\ entry' = [entry EXCEPT ![q] = IF call.at = "replied" THEN "waiting" ELSE "none"]
        /\ status' = [status EXCEPT ![q] = IF call.at = "replied" THEN "open" ELSE "failed"]
  BY CallIsOne DEF BrowseReplied, Asking
<1>2. /\ call' = NoCall /\ call'.op = "none"
      /\ UNCHANGED <<source, wrapper, results, dispatch>>
  BY NoCallIsNone DEF BrowseReplied
<1>3. ASSUME NEW r \in Reqs PROVE WrapperOK(r)'
  BY <1>1, <1>2, WrapperUntouched DEF Asking, TypeInv
<1>4. ProxyOK(q)'
  BY <1>1, <1>2 DEF Sound, ProxyOK, Asking, Cancelling, Showing, TypeInv
<1>5. ASSUME NEW r \in Reqs \ {q} PROVE ProxyOK(r)'
  BY <1>1, <1>2, <1>5, OtherProxyKept DEF Asking, Cancelling, Showing, TypeInv
<1> QED BY <1>2, <1>3, <1>4, <1>5, MessagesKept DEF Sound

LEMMA CancelRepliedSound == ASSUME TypeInv, Sound, CancelReplied PROVE Sound'
<1>1. /\ call.op = "cancel" /\ call' = NoCall /\ call'.op = "none"
      /\ UNCHANGED <<source, wrapper, results, entry, dispatch, status>>
  BY NoCallIsNone DEF CancelReplied, proxy, app
<1>2. ASSUME NEW r \in Reqs PROVE WrapperOK(r)'
  BY <1>1, WrapperUntouched DEF Asking
<1>3. \A r \in Reqs : ProxyOK(r)'
  BY <1>1, ProxyKept DEF Asking, Cancelling
<1> QED BY <1>1, <1>2, <1>3, MessagesKept DEF Sound

LEMMA DispatchSound == ASSUME TypeInv, Sound, Dispatch PROVE Sound'
<1>1. PICK m \in ResultType :
        /\ m = Head(results)
        /\ IF entry[m.req] = "none" THEN UNCHANGED <<entry, dispatch>>
           ELSE /\ dispatch' = [req |-> m.req, items |-> m.items, inside |-> FALSE]
                /\ entry' = [entry EXCEPT ![m.req] = "emitting"]
  BY DEF Dispatch, TypeInv, proxy
<1>2. /\ dispatch = NoMessage /\ results # <<>> /\ results' = Tail(results)
      /\ UNCHANGED <<source, wrapper, call, status>>
  BY DEF Dispatch, app
<1>3. ASSUME NEW r \in Reqs PROVE WrapperOK(r)'
  BY <1>2, WrapperUntouched DEF Asking
<1>4. \A r \in Reqs : ProxyOK(r)'
  <2>1. CASE entry[m.req] = "none"
    BY <1>1, <1>2, <2>1, ProxyKept DEF Asking, Cancelling
  <2>2. CASE entry[m.req] # "none"
    <3> DEFINE q == m.req
    <3>1. q \in Reqs /\ m.items \in BatchType
      BY DEF ResultType
    <3>2. dispatch' # NoMessage /\ dispatch'.req = q /\ dispatch'.inside = FALSE
      <4>1. dispatch' \in DispatchType
        <5>1. dispatch' = [req |-> m.req, items |-> m.items, inside |-> FALSE]
          BY <1>1, <2>2
        <5>2. \A a \in Reqs, b \in BatchType :
                [req |-> a, items |-> b, inside |-> FALSE] \in DispatchType
          BY DEF DispatchType
        <5> QED BY <3>1, <5>1, <5>2
      <4> QED BY <1>1, <2>2, <4>1 DEF DispatchType, NoMessage, BatchType
    <3>3. /\ entry' = [entry EXCEPT ![q] = "emitting"] /\ entry[q] # "none"
      BY <1>1, <2>2
    <3> HIDE DEF q
    <3>4. ProxyOK(q)'
      BY <1>2, <3>1, <3>2, <3>3 DEF Sound, ProxyOK, Asking, Cancelling, Showing, TypeInv
    <3>5. ASSUME NEW r \in Reqs \ {q} PROVE ProxyOK(r)'
      BY <1>2, <3>1, <3>2, <3>3, <3>5, OtherProxyKept DEF Asking, Cancelling, Showing, TypeInv
    <3> QED BY <3>4, <3>5
  <2> QED BY <2>1, <2>2
<1>5. MessagesFit'
  <2>1. results \in Seq(ResultType) /\ Len(results') = Len(results) - 1
        /\ \A k \in 1 .. Len(results') : results'[k] = results[k + 1]
    BY <1>2 DEF TypeInv
  <2> QED BY <2>1 DEF Sound, MessagesFit
<1> QED BY <1>3, <1>4, <1>5 DEF Sound

LEMMA CallbackSound == ASSUME TypeInv, Sound, Callback PROVE Sound'
<1>1. PICK q \in Reqs :
        /\ q = dispatch.req /\ Showing(q) /\ dispatch \in DispatchType
        /\ status' = [status EXCEPT ![q] =
             IF Head(dispatch.items).kind # "more" THEN "over" ELSE status[q]]
  BY ShownMessage DEF Callback, Showing
<1>2. /\ call = NoCall /\ call.op = "none" /\ ~dispatch.inside
      /\ dispatch' = [dispatch EXCEPT !.inside = TRUE]
      /\ UNCHANGED <<source, wrapper, call, results, entry>>
  BY NoCallIsNone DEF Callback, bus
<1>3. /\ dispatch' # NoMessage /\ dispatch'.req = q /\ dispatch'.inside
      /\ dispatch'.items = dispatch.items
  BY <1>1, <1>2 DEF DispatchType, NoMessage, BatchType
<1>4. status[q] \in {"open", "over"} /\ entry[q] = "emitting"
  BY <1>1, <1>2 DEF Sound, ProxyOK
<1>5. ASSUME NEW r \in Reqs PROVE WrapperOK(r)'
  BY <1>1, <1>2, <1>4, WrapperUntouched DEF Asking, TypeInv
<1>6. ProxyOK(q)'
  BY <1>1, <1>2, <1>3, <1>4 DEF Sound, ProxyOK, Asking, Cancelling, Showing, TypeInv
<1>7. ASSUME NEW r \in Reqs \ {q} PROVE ProxyOK(r)'
  BY <1>1, <1>2, <1>3, <1>7, OtherProxyKept DEF Asking, Cancelling, Showing, TypeInv
<1> QED BY <1>2, <1>5, <1>6, <1>7, MessagesKept DEF Sound

\* What a return of the callback leaves.
LEMMA WhenReturned ==
  ASSUME TypeInv, Returned
  PROVE  \E q \in Reqs :
           /\ q = dispatch.req /\ Showing(q) /\ dispatch.inside
           /\ call = NoCall /\ call.op = "none"
           /\ UNCHANGED <<source, wrapper, call, results, status, delivered>>
           /\ \/ /\ Head(dispatch.items).kind = "last" \/ entry[q] = "stopping"
                 /\ entry' = [entry EXCEPT ![q] = "none"]
                 /\ dispatch' = NoMessage
              \/ /\ entry[q] # "stopping" /\ Tail(dispatch.items) # <<>>
                 /\ entry' = entry
                 /\ dispatch' # NoMessage
                 /\ dispatch'.req = q /\ dispatch'.inside = FALSE
                 /\ dispatch'.items = Tail(dispatch.items)
              \/ /\ entry[q] # "stopping" /\ Tail(dispatch.items) = <<>>
                 /\ entry' = [entry EXCEPT ![q] = "waiting"]
                 /\ dispatch' = NoMessage
<1>1. dispatch \in DispatchType /\ dispatch # NoMessage /\ dispatch.req \in Reqs
  BY ShownMessage DEF Returned
<1>2. ASSUME dispatch' = [dispatch EXCEPT !.items = Tail(dispatch.items), !.inside = FALSE],
             Tail(dispatch.items) # <<>>
      PROVE  /\ dispatch' # NoMessage
             /\ dispatch'.req = dispatch.req /\ dispatch'.inside = FALSE
             /\ dispatch'.items = Tail(dispatch.items)
  BY <1>1, <1>2 DEF DispatchType, NoMessage
<1> QED BY <1>1, <1>2, NoCallIsNone DEF Returned, Showing, bus, app

LEMMA ReturnedSound == ASSUME TypeInv, Sound, Returned PROVE Sound'
<1>1. PICK q \in Reqs :
        /\ q = dispatch.req /\ Showing(q) /\ dispatch.inside
        /\ call = NoCall /\ call.op = "none"
        /\ UNCHANGED <<source, wrapper, call, results, status, delivered>>
        /\ \/ /\ Head(dispatch.items).kind = "last" \/ entry[q] = "stopping"
              /\ entry' = [entry EXCEPT ![q] = "none"]
              /\ dispatch' = NoMessage
           \/ /\ entry[q] # "stopping" /\ Tail(dispatch.items) # <<>>
              /\ entry' = entry
              /\ dispatch' # NoMessage
              /\ dispatch'.req = q /\ dispatch'.inside = FALSE
              /\ dispatch'.items = Tail(dispatch.items)
           \/ /\ entry[q] # "stopping" /\ Tail(dispatch.items) = <<>>
              /\ entry' = [entry EXCEPT ![q] = "waiting"]
              /\ dispatch' = NoMessage
  BY WhenReturned
<1>2. ASSUME NEW r \in Reqs PROVE WrapperOK(r)'
  BY <1>1, WrapperUntouched DEF Asking
<1>3. ProxyOK(q)'
  BY <1>1 DEF Sound, ProxyOK, Asking, Cancelling, Showing, TypeInv
<1>4. ASSUME NEW r \in Reqs \ {q} PROVE ProxyOK(r)'
  BY <1>1, <1>4, OtherProxyKept DEF Asking, Cancelling, Showing, TypeInv
<1> QED BY <1>1, <1>2, <1>3, <1>4, MessagesKept DEF Sound

LEMMA SoundHolds == Spec => [](TypeInv /\ Sound)
<1>1. TypeInv /\ Sound /\ UNCHANGED vars => Sound'
  <2> SUFFICES ASSUME TypeInv, Sound, UNCHANGED vars PROVE Sound'
    OBVIOUS
  <2>1. UNCHANGED <<source, wrapper, call, results, entry, dispatch, status>>
    BY DEF vars, bus, proxy, app
  <2>2. ASSUME NEW r \in Reqs PROVE WrapperOK(r)'
    BY <2>1, WrapperUntouched DEF Asking
  <2>3. \A r \in Reqs : ProxyOK(r)'
    BY <2>1, ProxyKept DEF Asking, Cancelling
  <2> QED BY <2>1, <2>2, <2>3, MessagesKept DEF Sound
<1>2. TypeInv /\ Sound /\ [Next]_vars => Sound'
  BY <1>1, HandleBrowseSound, BrowseReturnsSound, BrowseFailsSound, HandleCancelSound,
     SendSound, RemoveSound, EmitSound, BrowseSound, CancelSound, BrowseRepliedSound,
     CancelRepliedSound, DispatchSound, CallbackSound, ReturnedSound
     DEF Next, Wrapper, Proxy
<1> QED BY InitSound, Typed, <1>2, PTL DEF Spec

\* Every variable has its type, and no message is empty or longer than the
\* maximum of results it can contain, whatever the batch sizes
\* (emit_browse_result(), send_browse_res()).
THEOREM TypeCorrect == Spec => []TypeOK
<1>1. TypeInv /\ Sound => TypeOK
  <2> SUFFICES ASSUME TypeInv, Sound PROVE TypeOK
    OBVIOUS
  <2>1. call.op \in {"none", "browse", "cancel"}
    BY NoCallIsNone DEF TypeInv, CallType
  <2>2. ASSUME NEW k \in DOMAIN results
        PROVE  results[k].req \in Reqs /\ Len(results[k].items) \in 1 .. MAX_BROWSE_RESULT
    <3>1. k \in 1 .. Len(results) /\ results[k] \in ResultType
      BY DEF TypeInv
    <3>2. results[k].req \in Reqs /\ results[k].items \in BatchType
      BY <3>1 DEF ResultType
    <3>3. Len(results[k].items) \in Nat \ {0}
      BY <3>2 DEF BatchType
    <3> QED BY <3>1, <3>2, <3>3, BrowseAssumption DEF Sound, MessagesFit
  <2>3. \A r \in Reqs : emitted[r] <= MaxItems[r]
    BY DEF Sound, WrapperOK
  <2> QED BY <2>1, <2>2, <2>3 DEF TypeInv, TypeOK
<1> QED BY SoundHolds, <1>1, PTL

\* The browse_data that the source's callback or a timer gets as user data is
\* live, whatever a cancel or remove_from_hash() freed before.
THEOREM DataIsLive == Spec => []UserDataLive
<1>1. Sound => UserDataLive
  BY DEF Sound, WrapperOK, UserDataLive
<1> QED BY SoundHolds, <1>1, PTL

-----------------------------------------------------------------------------
(* The results, from the source to the callback *)

\* The items are the results of r after the n-th, and only the end-th may end it.
Numbered(items, n, end) ==
  \A j \in 1 .. Len(items) :
    items[j].n = n + j /\ (items[j].kind # "more" => n + j = end)

\* Those of r among the messages are its results after the a-th up to the b-th:
\* f counts them.
Counts(f, messages, r, end) ==
  /\ \A k \in 1 .. Len(messages) :
       IF messages[k].req = r
       THEN /\ f[k] = f[k - 1] + Len(messages[k].items)
            /\ Numbered(messages[k].items, f[k - 1], end)
       ELSE f[k] = f[k - 1]
  /\ \A k \in 0 .. Len(messages) : f[k] <= f[Len(messages)]

Between(messages, r, a, b, end) ==
  \E f \in [0 .. Len(messages) -> Nat] :
    Counts(f, messages, r, end) /\ f[0] = a /\ f[Len(messages)] = b

LEMMA BetweenBounds ==
  ASSUME NEW messages \in Seq(ResultType), NEW r, NEW a, NEW b, NEW end,
         Between(messages, r, a, b, end)
  PROVE  a \in Nat /\ b \in Nat /\ a <= b
<1>1. Len(messages) \in Nat
  OBVIOUS
<1> QED BY <1>1 DEF Between, Counts

LEMMA BetweenNone ==
  ASSUME NEW r, NEW end
  PROVE  Between(<<>>, r, 0, 0, end)
<1> DEFINE f == [k \in 0 .. Len(<<>>) |-> 0]
<1>1. Len(<<>>) = 0 /\ f \in [0 .. Len(<<>>) -> Nat]
  OBVIOUS
<1>2. Counts(f, <<>>, r, end) /\ f[0] = 0
  BY <1>1 DEF Counts
<1> QED BY <1>1, <1>2 DEF Between

LEMMA BetweenExtends ==
  ASSUME NEW messages \in Seq(ResultType), NEW m \in ResultType, NEW r,
         NEW a, NEW b, NEW end,
         Between(messages, r, a, b, end),
         m.req = r => Numbered(m.items, b, end)
  PROVE  Between(Append(messages, m), r, a,
                 IF m.req = r THEN b + Len(m.items) ELSE b, end)
<1> DEFINE longer == Append(messages, m)
<1>1. PICK n \in Nat : n = Len(messages)
  OBVIOUS
<1>2. Len(longer) = n + 1 /\ longer[n + 1] = m /\ \A k \in 1 .. n : longer[k] = messages[k]
  BY <1>1
<1>3. PICK f \in [0 .. n -> Nat] : Counts(f, messages, r, end) /\ f[0] = a /\ f[n] = b
  BY <1>1 DEF Between
<1>4. PICK len \in Nat : len = Len(m.items)
  BY DEF ResultType, BatchType
<1>5. PICK c \in Nat : c = (IF m.req = r THEN b + len ELSE b) /\ b <= c
  BY <1>3, <1>4
<1> DEFINE g == [k \in 0 .. (n + 1) |-> IF k = n + 1 THEN c ELSE f[k]]
<1>6. /\ g \in [0 .. (n + 1) -> Nat] /\ g[n + 1] = c
      /\ \A k \in 0 .. n : g[k] = f[k]
  OBVIOUS
<1> HIDE DEF g, longer
<1>7. ASSUME NEW k \in 1 .. (n + 1)
      PROVE  IF longer[k].req = r
             THEN g[k] = g[k - 1] + Len(longer[k].items) /\ Numbered(longer[k].items, g[k - 1], end)
             ELSE g[k] = g[k - 1]
  <2>1. CASE k = n + 1
    BY <1>2, <1>3, <1>4, <1>5, <1>6, <2>1
  <2>2. CASE k # n + 1
    <3>1. k \in 1 .. n /\ k - 1 \in 0 .. n /\ k \in 0 .. n
      BY <2>2
    <3> QED BY <1>1, <1>2, <1>3, <1>6, <3>1 DEF Counts
  <2> QED BY <2>1, <2>2
<1>8. \A k \in 0 .. (n + 1) : g[k] <= g[n + 1]
  BY <1>1, <1>3, <1>5, <1>6 DEF Counts
<1>9. Counts(g, longer, r, end) /\ g[0] = a
  BY <1>2, <1>3, <1>6, <1>7, <1>8 DEF Counts
<1>10. Between(longer, r, a, c, end)
  BY <1>2, <1>6, <1>9 DEF Between
<1> QED BY <1>4, <1>5, <1>10 DEF longer

LEMMA BetweenShifts ==
  ASSUME NEW messages \in Seq(ResultType), messages # <<>>, NEW r,
         NEW a, NEW b, NEW end,
         Between(messages, r, a, b, end)
  PROVE  LET m == Head(messages)
         IN  /\ m.req = r => Numbered(m.items, a, end)
             /\ Between(Tail(messages), r,
                        IF m.req = r THEN a + Len(m.items) ELSE a, b, end)
<1>1. PICK n \in Nat : n = Len(messages) /\ n > 0
  OBVIOUS
<1>2. PICK f \in [0 .. n -> Nat] : Counts(f, messages, r, end) /\ f[0] = a /\ f[n] = b
  BY <1>1 DEF Between
<1>3. PICK rest \in Seq(ResultType), m \in ResultType :
        /\ rest = Tail(messages) /\ m = Head(messages) /\ m = messages[1]
        /\ Len(rest) = n - 1 /\ \A k \in 1 .. n - 1 : rest[k] = messages[k + 1]
  BY <1>1
<1> DEFINE g == [k \in 0 .. (n - 1) |-> f[k + 1]]
<1>4. g \in [0 .. (n - 1) -> Nat] /\ \A k \in 0 .. (n - 1) : g[k] = f[k + 1]
  BY <1>1
<1>5. /\ m.req = r => Numbered(m.items, a, end) /\ g[0] = a + Len(m.items)
      /\ m.req # r => g[0] = a
  <2>1. 1 \in 1 .. n /\ 1 - 1 = 0 /\ g[0] = f[1]
    BY <1>1, <1>4
  <2> HIDE DEF g
  <2> QED BY <1>1, <1>2, <1>3, <2>1 DEF Counts
<1> HIDE DEF g
<1>6. ASSUME NEW k \in 1 .. (n - 1)
      PROVE  IF rest[k].req = r
             THEN g[k] = g[k - 1] + Len(rest[k].items) /\ Numbered(rest[k].items, g[k - 1], end)
             ELSE g[k] = g[k - 1]
  <2>1. PICK i \in 1 .. n : i = k + 1
    BY <1>1
  <2>2. g[k] = f[i] /\ g[k - 1] = f[i - 1] /\ rest[k] = messages[i]
    <3>1. k - 1 \in 0 .. (n - 1) /\ (k - 1) + 1 = i - 1
      BY <2>1
    <3> QED BY <1>3, <1>4, <2>1, <3>1
  <2> QED BY <1>1, <1>2, <2>1, <2>2 DEF Counts
<1>7. g[n - 1] = b /\ \A k \in 0 .. (n - 1) : g[k] <= g[n - 1]
  BY <1>1, <1>2, <1>4 DEF Counts
<1>8. Counts(g, rest, r, end)
  BY <1>3, <1>6, <1>7 DEF Counts
<1>9. Between(rest, r, g[0], b, end)
  BY <1>3, <1>4, <1>7, <1>8 DEF Between
<1> QED BY <1>3, <1>5, <1>9

\* The last result was none of these: it may come next.
LEMMA NumberedOpen ==
  ASSUME NEW items \in Seq(ItemType), NEW n \in Nat, NEW end, Numbered(items, n, 0)
  PROVE  Numbered(items, n, end)
BY DEF Numbered

LEMMA BetweenOpen ==
  ASSUME NEW messages \in Seq(ResultType), NEW r, NEW a, NEW b, NEW end,
         Between(messages, r, a, b, 0)
  PROVE  Between(messages, r, a, b, end)
<1>1. PICK n \in Nat : n = Len(messages)
  OBVIOUS
<1>2. PICK f \in [0 .. n -> Nat] : Counts(f, messages, r, 0) /\ f[0] = a /\ f[n] = b
  BY <1>1 DEF Between
<1>3. ASSUME NEW k \in 1 .. n, messages[k].req = r
      PROVE  Numbered(messages[k].items, f[k - 1], end)
  <2>1. k - 1 \in 0 .. n /\ messages[k] \in ResultType
    BY <1>1
  <2>2. f[k - 1] \in Nat /\ messages[k].items \in Seq(ItemType)
    BY <2>1 DEF ResultType, BatchType
  <2>3. Numbered(messages[k].items, f[k - 1], 0)
    BY <1>1, <1>2, <1>3 DEF Counts
  <2> QED BY <2>2, <2>3, NumberedOpen
<1>4. Counts(f, messages, r, end)
  BY <1>1, <1>2, <1>3 DEF Counts
<1> QED BY <1>1, <1>2, <1>4 DEF Between

\* The results that callbacks returned from, and those that a message brought.
Done(r) == Len(delivered[r]) - (IF Showing(r) /\ dispatch.inside THEN 1 ELSE 0)
Shown(r) == Done(r) + (IF Showing(r) THEN Len(dispatch.items) ELSE 0)

\* The number of the last result, 0 as long as the source works.
End(r) == IF r \in running THEN 0 ELSE emitted[r]

Refused(r) == status[r] = "failed" \/ (Asking(r) /\ call.at = "failed")

\* From the callback over the message being handled and those under way to the
\* batch: every result the source gave, in its place.
Chain(r) ==
  /\ Done(r) \in Nat
  /\ Showing(r) => Numbered(dispatch.items, Done(r), End(r))
  /\ Between(results, r, Shown(r), emitted[r] - Len(batch[r]), End(r))
  /\ Numbered(batch[r], emitted[r] - Len(batch[r]), 0)
  /\ status[r] = "over" => Len(delivered[r]) = emitted[r] /\ r \notin running
  /\ Refused(r) => emitted[r] = 0 /\ r \notin running

\* The messages of a cancelled request are dropped.
Chains == \A r \in Reqs : status[r] # "cancelled" => Chain(r)

LEMMA InitChains == Init => Chains
<1> SUFFICES ASSUME Init, NEW r \in Reqs PROVE Chain(r)
  BY DEF Chains
<1>1. /\ ~Showing(r) /\ Len(<<>>) = 0 /\ delivered[r] = <<>> /\ batch[r] = <<>>
      /\ emitted[r] = 0 /\ results = <<>> /\ ~Refused(r) /\ status[r] # "over"
  BY NoCallIsNone DEF Init, Showing, Refused, Asking
<1>2. Done(r) = 0 /\ Shown(r) = 0 /\ emitted[r] - Len(batch[r]) = 0
  <2>1. Len(delivered[r]) = 0 /\ Len(batch[r]) = 0
    BY <1>1
  <2>2. Done(r) = 0
    BY <1>1, <2>1 DEF Done
  <2>3. Shown(r) = 0
    BY <1>1, <2>2 DEF Shown
  <2>4. emitted[r] - Len(batch[r]) = 0
    <3>1. emitted[r] = 0
      BY <1>1
    <3> QED BY <2>1, <3>1
  <2> QED BY <2>2, <2>3, <2>4
<1> QED BY <1>1, <1>2, BetweenNone DEF Chain, Numbered

LEMMA ChainKept ==
  ASSUME NEW r \in Reqs, Chain(r),
         UNCHANGED <<results, emitted[r], batch[r], delivered[r]>>,
         (r \in running)' => r \in running, End(r)' = End(r),
         Showing(r)' <=> Showing(r), Showing(r) => dispatch' = dispatch,
         (status[r] = "over")' => status[r] = "over",
         Refused(r)' => Refused(r)
  PROVE  Chain(r)'
<1>1. Done(r)' = Done(r) /\ Shown(r)' = Shown(r)
  BY DEF Done, Shown
<1> QED BY <1>1 DEF Chain

\* What the wrapper does to requests whose results go on.
LEMMA WrapperChains ==
  ASSUME TypeInv, Sound, Chains, HandleBrowse \/ BrowseReturns \/ BrowseFails \/ HandleCancel
  PROVE  Chains'
<1> SUFFICES ASSUME NEW r \in Reqs, status[r] # "cancelled" PROVE Chain(r)'
  BY DEF Chains, HandleBrowse, BrowseReturns, BrowseFails, HandleCancel, app
<1>1. Chain(r) /\ emitted[r] \in Nat
  BY DEF Chains, TypeInv
<1>2. PICK q \in Reqs : q = call.req /\ q = call'.req /\ call'.op = call.op
  BY CallIsOne, CallMoves DEF HandleBrowse, BrowseReturns, BrowseFails, HandleCancel, Browsing
<1>3. /\ call \in CallType
      /\ call.op = "browse" <=> Asking(q)
      /\ call.op = "cancel" <=> Cancelling(q)
      /\ UNCHANGED <<results, emitted, delivered, dispatch, status>>
  BY <1>2, CallIsOne DEF HandleBrowse, BrowseReturns, BrowseFails, HandleCancel, Browsing,
     Asking, Cancelling, source, proxy, app
<1>4. Showing(r)' <=> Showing(r)
  BY <1>3 DEF Showing
<1>5. CASE HandleBrowse
  <2>1. call'.at = "source" /\ UNCHANGED batch
    BY <1>3, <1>5, CallMoves DEF HandleBrowse
  <2>2. Refused(r)' => Refused(r)
    BY <1>2, <1>3, <2>1 DEF Refused, Asking
  <2>3. CASE r = q
    <3>1. Fresh(r) /\ status[r] = "asked" /\ Asking(r) /\ call.at = "bus"
      BY <1>3, <1>5, <2>3 DEF HandleBrowse, Sound, WrapperOK, ProxyOK
    <3>2. End(r)' = End(r) /\ ~Refused(r)'
      BY <1>3, <2>1, <3>1 DEF End, Fresh, Refused, Asking
    <3>3. Done(r)' = Done(r) /\ Shown(r)' = Shown(r)
      BY <1>3, <1>4 DEF Done, Shown
    <3> QED BY <1>1, <1>3, <1>4, <2>1, <3>1, <3>2, <3>3 DEF Chain
  <2>4. CASE r # q
    BY <1>1, <1>2, <1>3, <1>4, <1>5, <2>1, <2>2, <2>4, ChainKept DEF HandleBrowse, End
  <2> QED BY <2>3, <2>4
<1>6. CASE BrowseReturns
  <2>1. call'.at = "replied" /\ UNCHANGED <<batch, running>>
    BY <1>3, <1>6, CallMoves DEF BrowseReturns, source
  <2>2. Refused(r)' => Refused(r)
    BY <1>2, <1>3, <2>1 DEF Refused, Asking
  <2> QED BY <1>1, <1>3, <1>4, <2>1, <2>2, ChainKept DEF End
<1>7. CASE BrowseFails
  <2>1. CASE r = q
    <3>1. /\ status[r] = "asked" /\ emitted[r] = 0 /\ batch[r] \in Seq(ItemType)
          /\ running' = running \ {r} /\ batch'[r] = <<>>
      BY <1>2, <1>3, <1>7, <2>1 DEF BrowseFails, Browsing, Sound, ProxyOK, TypeInv, Freed
    <3>2. UNCHANGED batch[r]
      <4>1. emitted[r] - Len(batch[r]) \in Nat
        <5>1. results \in Seq(ResultType) /\ Between(results, r, Shown(r), emitted[r] - Len(batch[r]), End(r))
          BY <1>1 DEF TypeInv, Chain
        <5> QED BY <5>1, BetweenBounds
      <4>2. Len(batch[r]) = 0
        BY <3>1, <4>1
      <4> QED BY <3>1, <4>2
    <3>3. End(r)' = End(r)
      BY <1>3, <3>1 DEF End
    <3>4. Done(r)' = Done(r) /\ Shown(r)' = Shown(r)
      BY <1>3, <1>4 DEF Done, Shown
    <3> QED BY <1>1, <1>3, <1>4, <3>1, <3>2, <3>3, <3>4 DEF Chain
  <2>2. CASE r # q
    <3>1. UNCHANGED batch[r] /\ running' = running \ {q}
      BY <1>2, <1>7, <2>2 DEF BrowseFails, Freed, TypeInv
    <3>2. (Refused(r)' => Refused(r)) /\ End(r)' = End(r)
      BY <1>2, <1>3, <2>2, <3>1 DEF Refused, Asking, End
    <3> QED BY <1>1, <1>3, <1>4, <3>1, <3>2, ChainKept
  <2> QED BY <2>1, <2>2
<1>8. CASE HandleCancel
  <2>1. (Refused(r)' => Refused(r)) /\ running' = running \ {q}
    BY <1>2, <1>3, <1>8 DEF Refused, Asking, HandleCancel
  <2>2. UNCHANGED batch[r] /\ (r = q => r \notin running)
    <3>1. CASE r = q
      <4>1. status[r] = "over"
        BY <1>3, <1>8, <3>1 DEF HandleCancel, Sound, ProxyOK
      <4>2. r \notin running /\ batch[r] = <<>>
        BY <1>1, <4>1 DEF Chain, Sound, WrapperOK
      <4> QED BY <1>8, <4>2 DEF HandleCancel, Freed
    <3>2. CASE r # q
      BY <1>2, <1>8, <3>2 DEF HandleCancel, Freed, TypeInv
    <3> QED BY <3>1, <3>2
  <2>3. End(r)' = End(r)
    BY <1>3, <2>1, <2>2 DEF End
  <2> QED BY <1>1, <1>3, <1>4, <2>1, <2>2, <2>3, ChainKept
<1> QED BY <1>5, <1>6, <1>7, <1>8

\* A message with the batch of q is sent; other requests do not notice.
LEMMA SentToOthers ==
  ASSUME TypeInv, NEW q \in Reqs, NEW r \in Reqs, r # q, Chain(r),
         NEW items \in BatchType,
         results' = results \/ results' = Append(results, Message(q, items)),
         UNCHANGED <<emitted[r], batch[r], delivered, dispatch, status, call>>,
         (r \in running)' <=> r \in running
  PROVE  Chain(r)'
<1>1. /\ Showing(r)' <=> Showing(r)
      /\ Refused(r)' <=> Refused(r)
      /\ End(r)' = End(r)
  BY DEF Showing, Refused, Asking, End
<1>2. Done(r)' = Done(r) /\ Shown(r)' = Shown(r)
  BY <1>1 DEF Done, Shown
<1>3. Between(results', r, Shown(r), emitted[r] - Len(batch[r]), End(r))
  <2>1. PICK m \in ResultType : m = Message(q, items) /\ m.req = q
    BY DEF Message, ResultType
  <2>2. Between(results, r, Shown(r), emitted[r] - Len(batch[r]), End(r))
    BY DEF Chain
  <2>3. CASE results' = results
    BY <2>2, <2>3
  <2>4. CASE results' = Append(results, m)
    <3>1. results \in Seq(ResultType)
      BY DEF TypeInv
    <3> QED BY <2>1, <2>2, <2>4, <3>1, BetweenExtends
  <2> QED BY <2>1, <2>3, <2>4
<1> QED BY <1>1, <1>2, <1>3 DEF Chain

LEMMA SendChains ==
  ASSUME TypeInv, Sound, Chains, NEW q \in Reqs, send_browse_res(q)
  PROVE  Chains'
<1>1. /\ batch[q] \in BatchType
      /\ results' = Append(results, Message(q, batch[q]))
      /\ batch' = [batch EXCEPT ![q] = <<>>]
      /\ UNCHANGED <<running, emitted, call, dispatch, status, delivered>>
  BY DEF send_browse_res, source, proxy, app, TypeInv, BatchType
<1>2. ASSUME NEW r \in Reqs \ {q}, status[r] # "cancelled" PROVE Chain(r)'
  <2>1. Chain(r) /\ UNCHANGED batch[r]
    BY <1>1, <1>2 DEF Chains, TypeInv
  <2> QED BY <1>1, <2>1, SentToOthers
<1>3. ASSUME status[q] # "cancelled" PROVE Chain(q)'
  <2>1. Chain(q) /\ batch'[q] = <<>> /\ Len(<<>>) = 0 /\ emitted[q] \in Nat
    BY <1>1, <1>3 DEF Chains, TypeInv
  <2>2. /\ Showing(q)' <=> Showing(q)
        /\ Refused(q)' <=> Refused(q)
        /\ End(q)' = End(q)
    BY <1>1 DEF Showing, Refused, Asking, End
  <2>3. Done(q)' = Done(q) /\ Shown(q)' = Shown(q)
    BY <1>1, <2>2 DEF Done, Shown
  <2> DEFINE b == emitted[q] - Len(batch[q])
  <2>4. /\ results \in Seq(ResultType) /\ batch[q] \in Seq(ItemType)
        /\ Between(results, q, Shown(q), b, End(q))
        /\ Numbered(batch[q], b, 0)
    BY <2>1 DEF Chain, TypeInv
  <2>5. b \in Nat
    BY <2>4, BetweenBounds
  <2>6. Numbered(batch[q], b, End(q))
    BY <2>4, <2>5, NumberedOpen
  <2>7. b + Len(batch[q]) = emitted[q]
    BY <2>1, <2>4
  <2> HIDE DEF b
  <2>8. PICK m \in ResultType : m = Message(q, batch[q]) /\ m.req = q /\ m.items = batch[q]
    BY <1>1 DEF Message, ResultType
  <2>9. Between(results', q, Shown(q), emitted[q], End(q))
    BY <1>1, <2>4, <2>6, <2>7, <2>8, BetweenExtends
  <2>10. emitted[q] - Len(batch'[q]) = emitted[q] /\ Numbered(batch'[q], emitted[q], 0)
    BY <2>1 DEF Numbered
  <2> QED BY <1>1, <2>1, <2>2, <2>3, <2>9, <2>10 DEF Chain
<1> QED BY <1>1, <1>2, <1>3 DEF Chains

LEMMA RemoveChains ==
  ASSUME TypeInv, Sound, Chains, NEW q \in Reqs, remove_from_hash(q)
  PROVE  Chains'
<1>1. /\ q \in idle /\ Freed({q} \cap table)
      /\ UNCHANGED <<running, emitted, results, call, dispatch, status, delivered>>
  BY DEF remove_from_hash, source, bus, proxy, app
<1>2. batch[q] = <<>>
  BY <1>1 DEF Sound, WrapperOK
<1>3. ASSUME NEW r \in Reqs, status[r] # "cancelled" PROVE Chain(r)'
  <2>1. UNCHANGED batch[r]
    BY <1>1, <1>2 DEF Freed, TypeInv
  <2>2. Chain(r)
    BY <1>3 DEF Chains
  <2> QED BY <1>1, <2>1, <2>2, ChainKept DEF Showing, Refused, Asking, End
<1> QED BY <1>1, <1>3 DEF Chains

LEMMA NumberedExtends ==
  ASSUME NEW items \in Seq(ItemType), NEW item \in ItemType, NEW n \in Nat, NEW end,
         Numbered(items, n, 0), item.n = n + Len(items) + 1,
         item.kind # "more" => item.n = end
  PROVE  Numbered(Append(items, item), n, end)
<1> DEFINE full == Append(items, item)
<1>1. /\ Len(full) = Len(items) + 1 /\ full[Len(items) + 1] = item
      /\ \A j \in 1 .. Len(items) : full[j] = items[j]
  OBVIOUS
<1> HIDE DEF full
<1>2. Numbered(items, n, end)
  BY NumberedOpen
<1>3. ASSUME NEW j \in 1 .. Len(full)
      PROVE  full[j].n = n + j /\ (full[j].kind # "more" => n + j = end)
  <2>1. CASE j = Len(items) + 1
    BY <1>1, <2>1
  <2>2. CASE j # Len(items) + 1
    <3>1. j \in 1 .. Len(items)
      BY <1>1, <2>2
    <3> QED BY <1>1, <1>2, <3>1 DEF Numbered
  <2> QED BY <2>1, <2>2
<1> QED BY <1>3 DEF Numbered, full

LEMMA EmitChains ==
  ASSUME TypeInv, Sound, Chains, NEW q \in Reqs, emit_browse_result(q)
  PROVE  Chains'
<1>1. PICK item \in ItemType :
        LET full == Append(batch[q], item)
            final == item.kind # "more"
            sent == final \/ Len(full) >= maxresults[q]
        IN  /\ item.n = emitted[q] + 1
            /\ q \in running
            /\ emitted' = [emitted EXCEPT ![q] = item.n]
            /\ running' = IF final THEN running \ {q} ELSE running
            /\ full \in BatchType
            /\ results' = IF sent THEN Append(results, Message(q, full)) ELSE results
            /\ batch' = [batch EXCEPT ![q] = IF sent THEN <<>> ELSE full]
            /\ UNCHANGED <<call, dispatch, status, delivered>>
  BY Emitted
<1> DEFINE full == Append(batch[q], item)
           final == item.kind # "more"
           sent == final \/ Len(full) >= maxresults[q]
<1>2. ASSUME NEW r \in Reqs \ {q}, status[r] # "cancelled" PROVE Chain(r)'
  <2>1. Chain(r) /\ UNCHANGED <<batch[r], emitted[r]>> /\ ((r \in running)' <=> r \in running)
    BY <1>1, <1>2 DEF Chains, TypeInv
  <2> QED BY <1>1, <2>1, SentToOthers
<1>3. ASSUME status[q] # "cancelled" PROVE Chain(q)'
  <2>1. Chain(q) /\ emitted[q] \in Nat /\ emitted'[q] = emitted[q] + 1
    BY <1>1, <1>3 DEF Chains, TypeInv, ItemType
  <2>2. /\ Showing(q)' <=> Showing(q)
        /\ Refused(q)' <=> Refused(q)
    BY <1>1 DEF Showing, Refused, Asking
  <2>3. Done(q)' = Done(q) /\ Shown(q)' = Shown(q)
    BY <1>1, <2>2 DEF Done, Shown
  <2> DEFINE b == emitted[q] - Len(batch[q])
             end == IF final THEN emitted[q] + 1 ELSE 0
  <2>4. /\ results \in Seq(ResultType) /\ batch[q] \in Seq(ItemType)
        /\ Between(results, q, Shown(q), b, 0)
        /\ Numbered(batch[q], b, 0)
        /\ Showing(q) => Numbered(dispatch.items, Done(q), 0)
        /\ status[q] # "over" /\ ~Refused(q) /\ Done(q) \in Nat
    BY <1>1, <2>1 DEF Chain, TypeInv, End
  <2>5. b \in Nat /\ b + Len(batch[q]) = emitted[q]
    <3>1. b \in Nat
      BY <2>4, BetweenBounds
    <3>2. Len(batch[q]) \in Nat
      BY <2>4
    <3> QED BY <2>1, <3>1, <3>2
  <2>6. End(q)' = end
    BY <1>1, <2>1 DEF End
  <2> HIDE DEF b, end
  <2>7. /\ Between(results, q, Shown(q), b, end)
        /\ Showing(q) => Numbered(dispatch.items, Done(q), end)
    <3>1. Showing(q) => dispatch.items \in Seq(ItemType)
      BY ShownMessage DEF Showing
    <3> QED BY <2>4, <3>1, BetweenOpen, NumberedOpen
  <2>8. /\ Numbered(full, b, end) /\ Len(full) = Len(batch[q]) + 1
        /\ b + Len(full) = emitted[q] + 1
    <3>1. item.n = b + Len(batch[q]) + 1 /\ (item.kind # "more" => item.n = end)
      BY <1>1, <2>5, <2>1, <2>4 DEF end
    <3>2. Numbered(full, b, end)
      BY <2>4, <2>5, <3>1, NumberedExtends
    <3>3. Len(full) = Len(batch[q]) + 1
      BY <2>4
    <3> HIDE DEF full
    <3> QED BY <2>4, <2>5, <3>2, <3>3
  <2>9. CASE sent
    <3>1. PICK m \in ResultType : m = Message(q, full) /\ m.req = q /\ m.items = full
      <4>1. full \in BatchType
        BY <1>1
      <4>2. \A a \in Reqs, bb \in BatchType :
              /\ Message(a, bb) \in ResultType
              /\ Message(a, bb).req = a /\ Message(a, bb).items = bb
        BY DEF Message, ResultType
      <4> HIDE DEF full
      <4> QED BY <4>1, <4>2
    <3>2. results' = Append(results, m) /\ batch'[q] = <<>>
      BY <1>1, <2>9, <3>1 DEF TypeInv
    <3> HIDE DEF full, sent, final
    <3>3. Between(results', q, Shown(q), emitted[q] + 1, end)
      BY <2>4, <2>7, <2>8, <3>1, <3>2, BetweenExtends
    <3>4. emitted'[q] - Len(batch'[q]) = emitted[q] + 1 /\ Numbered(batch'[q], emitted[q] + 1, 0)
      <4>1. Len(<<>>) = 0
        OBVIOUS
      <4> QED BY <2>1, <3>2, <4>1 DEF Numbered
    <3> QED BY <1>1, <2>2, <2>3, <2>4, <2>6, <2>7, <3>3, <3>4 DEF Chain
  <2>10. CASE ~sent
    <3>1. results' = results /\ batch'[q] = full /\ end = 0
      BY <1>1, <2>10 DEF TypeInv, end
    <3> HIDE DEF full, sent, final
    <3>2. emitted'[q] - Len(full) = b
      BY <2>1, <2>4, <2>5, <2>8
    <3> QED BY <1>1, <2>2, <2>3, <2>4, <2>6, <2>7, <2>8, <3>1, <3>2 DEF Chain
  <2> QED BY <2>9, <2>10
<1> QED BY <1>1, <1>2, <1>3 DEF Chains

-----------------------------------------------------------------------------
(* The proxy hands them on *)

LEMMA CallChains ==
  ASSUME TypeInv, Sound, Chains,
         BrowseReplied \/ CancelReplied \/ \E q \in Reqs : Browse(q) \/ Cancel(q)
  PROVE  Chains'
<1> SUFFICES ASSUME NEW r \in Reqs, status'[r] # "cancelled" PROVE Chain(r)'
  BY DEF Chains
<1>1. UNCHANGED <<results, emitted, batch, delivered, running, dispatch>>
  BY DEF BrowseReplied, CancelReplied, Browse, Cancel, source, wrapper, proxy, app
<1>2. /\ status[r] # "cancelled"
      /\ (status[r] = "over")' => status[r] = "over"
      /\ Refused(r)' => Refused(r)
  <2>1. CASE BrowseReplied
    <3>1. call.req \in Reqs
      BY <2>1, CallIsOne DEF BrowseReplied
    <3> QED BY <2>1, <3>1, NoCallIsNone DEF BrowseReplied, Refused, Asking, TypeInv, Sound, ProxyOK
  <2>2. CASE CancelReplied
    BY <2>2, NoCallIsNone DEF CancelReplied, Refused, Asking, app
  <2>3. ASSUME NEW q \in Reqs, Browse(q)
        PROVE /\ status[r] # "cancelled"
              /\ (status[r] = "over")' => status[r] = "over"
              /\ Refused(r)' => Refused(r)
    <3>1. call'.at = "bus"
      BY <2>3, CallBegins DEF Browse
    <3> QED BY <2>3, <3>1 DEF Browse, Refused, TypeInv
  <2>4. ASSUME NEW q \in Reqs, Cancel(q)
        PROVE /\ status[r] # "cancelled"
              /\ (status[r] = "over")' => status[r] = "over"
              /\ Refused(r)' => Refused(r)
    <3>1. call'.at = "bus"
      BY <2>4, CallBegins DEF Cancel
    <3> QED BY <2>4, <3>1 DEF Cancel, Refused, TypeInv
  <2> QED BY <2>1, <2>2, <2>3, <2>4
<1>3. Chain(r)
  BY <1>2 DEF Chains
<1> QED BY <1>1, <1>2, <1>3, ChainKept DEF Showing, End

LEMMA DispatchChains ==
  ASSUME TypeInv, Sound, Chains, Dispatch
  PROVE  Chains'
<1>1. PICK m \in ResultType :
        /\ m = Head(results)
        /\ IF entry[m.req] = "none" THEN UNCHANGED dispatch
           ELSE dispatch' = [req |-> m.req, items |-> m.items, inside |-> FALSE]
  BY DEF Dispatch, TypeInv, proxy
<1>2. /\ dispatch = NoMessage /\ results # <<>> /\ results' = Tail(results)
      /\ results \in Seq(ResultType) /\ call = NoCall /\ call.op = "none"
      /\ UNCHANGED <<running, emitted, batch, call, status, delivered>>
  BY NoCallIsNone DEF Dispatch, app, source, wrapper, TypeInv
<1>3. m.req \in Reqs /\ m.items \in Seq(ItemType) /\ Len(m.items) \in Nat \ {0}
  BY DEF ResultType, BatchType
<1> SUFFICES ASSUME NEW r \in Reqs, status[r] # "cancelled" PROVE Chain(r)'
  BY <1>2 DEF Chains
<1>4. /\ Chain(r) /\ ~Showing(r) /\ emitted[r] \in Nat /\ delivered[r] \in Seq(Nat)
      /\ Done(r) = Len(delivered[r]) /\ Shown(r) = Len(delivered[r])
      /\ (Refused(r)' <=> Refused(r)) /\ End(r)' = End(r)
  BY <1>2 DEF Chains, TypeInv, Showing, Refused, Asking, End, Done, Shown
<1> DEFINE d == Len(delivered[r])
           b == emitted[r] - Len(batch[r])
           e == End(r)
<1>5. Between(results, r, d, b, e) /\ d \in Nat
  BY <1>4 DEF Chain
<1> HIDE DEF b, e
<1>6. CASE m.req # r
  <2>1. Between(results', r, d, b, e)
    BY <1>1, <1>2, <1>5, <1>6, BetweenShifts
  <2>2. ~Showing(r)'
    <3>1. CASE entry[m.req] = "none"
      BY <1>1, <1>2, <3>1 DEF Showing
    <3>2. CASE entry[m.req] # "none"
      <4>1. dispatch'.req = m.req
        BY <1>1, <3>2
      <4> QED BY <1>6, <4>1 DEF Showing
    <3> QED BY <3>1, <3>2
  <2>3. Done(r)' = d /\ Shown(r)' = d
    BY <1>2, <1>5, <2>2 DEF Done, Shown
  <2> QED BY <1>2, <1>4, <1>5, <2>1, <2>2, <2>3 DEF Chain, b, e
<1>7. CASE m.req = r
  <2>1. /\ Numbered(m.items, d, e)
        /\ Between(results', r, d + Len(m.items), b, e)
    BY <1>1, <1>2, <1>5, <1>7, BetweenShifts
  <2>2. d < emitted[r]
    <3>1. results' \in Seq(ResultType)
      BY <1>2
    <3>2. b \in Nat /\ d + Len(m.items) <= b
      BY <2>1, <3>1, BetweenBounds
    <3>3. b <= emitted[r]
      BY <1>4 DEF b, TypeInv
    <3>4. Len(m.items) \in Nat \ {0} /\ d \in Nat /\ emitted[r] \in Nat
      BY <1>3, <1>4, <1>5
    <3> HIDE DEF d
    <3> QED BY <3>2, <3>3, <3>4
  <2>3. entry[r] # "none"
    <3>1. status[r] # "over"
      BY <1>4, <2>2 DEF Chain
    <3>2. status[r] \notin {"new", "failed"}
      BY <1>4, <1>5, <2>2 DEF Chain, Refused, Sound, WrapperOK, Fresh
    <3>3. status[r] # "asked"
      BY <1>2 DEF Sound, ProxyOK, Asking
    <3>4. status[r] = "open"
      BY <3>1, <3>2, <3>3 DEF TypeInv, Statuses
    <3> QED BY <3>4 DEF Sound, ProxyOK
  <2>4. /\ dispatch' # NoMessage /\ dispatch'.req = r /\ dispatch'.inside = FALSE
        /\ dispatch'.items = m.items
    <3>1. dispatch' = [req |-> r, items |-> m.items, inside |-> FALSE]
      BY <1>1, <1>7, <2>3
    <3>2. dispatch'.items # <<>>
      BY <3>1 DEF ResultType, BatchType
    <3> QED BY <3>1, <3>2 DEF NoMessage
  <2>5. Showing(r)' /\ Done(r)' = d /\ Shown(r)' = d + Len(m.items)
    <3>1. Showing(r)'
      BY <2>4 DEF Showing
    <3>2. Done(r)' = d
      <4>1. Done(r)' = Len(delivered'[r]) - 0
        BY <2>4 DEF Done
      <4> QED BY <1>2, <1>5, <4>1
    <3> QED BY <2>4, <3>1, <3>2 DEF Shown
  <2> QED BY <1>2, <1>4, <1>5, <2>1, <2>4, <2>5 DEF Chain, b, e
<1> QED BY <1>6, <1>7

\* The callback is called with the next result of a request that goes on.
LEMMA CallbackIsNext ==
  ASSUME TypeInv, Sound, Chains, Callback
  PROVE  \E q \in Reqs :
           /\ q = dispatch.req /\ Showing(q) /\ Chain(q)
           /\ status[q] = "open" /\ Len(delivered[q]) < emitted[q]
           /\ Head(dispatch.items).n = Len(delivered[q]) + 1
           /\ Head(dispatch.items).kind # "more" =>
                Len(delivered[q]) + 1 = emitted[q] /\ q \notin running
<1>1. PICK q \in Reqs : q = dispatch.req /\ Showing(q)
  BY ShownMessage DEF Callback, Showing
<1>2. /\ ~dispatch.inside /\ dispatch.items \in Seq(ItemType) /\ dispatch.items # <<>>
      /\ emitted[q] \in Nat /\ delivered[q] \in Seq(Nat) /\ batch[q] \in Seq(ItemType)
      /\ results \in Seq(ResultType)
  BY ShownMessage DEF Callback, TypeInv
<1>3. status[q] \in {"open", "over"}
  BY <1>1, <1>2 DEF Sound, ProxyOK
<1>4. Chain(q)
  BY <1>3 DEF Chains
<1> DEFINE d == Len(delivered[q])
           b == emitted[q] - Len(batch[q])
<1>5. d \in Nat /\ Len(dispatch.items) \in Nat \ {0}
  BY <1>2
<1>6. Done(q) = d /\ Shown(q) = d + Len(dispatch.items)
  <2>1. Done(q) = d - 0
    BY <1>2 DEF Done
  <2>2. Done(q) = d
    BY <1>5, <2>1
  <2> QED BY <1>1, <2>2 DEF Shown
<1>7. d < emitted[q]
  <2>1. Between(results, q, Shown(q), b, End(q))
    BY <1>4 DEF Chain
  <2>2. b \in Nat /\ Shown(q) <= b
    BY <1>2, <2>1, BetweenBounds
  <2>3. Len(batch[q]) \in Nat
    BY <1>2
  <2> HIDE DEF d
  <2>4. \A x \in Nat, y \in Nat, n \in Nat \ {0} :
          d \in Nat /\ b = x - y /\ d + n <= b => d < x
    OBVIOUS
  <2>5. d + Len(dispatch.items) <= b /\ d \in Nat
    BY <1>5, <1>6, <2>2
  <2> HIDE DEF b
  <2>6. b = emitted[q] - Len(batch[q])
    BY DEF b
  <2> QED BY <1>2, <1>5, <2>3, <2>4, <2>5, <2>6
<1>8. status[q] = "open"
  <2>1. d # emitted[q]
    BY <1>2, <1>5, <1>7
  <2> QED BY <1>3, <1>4, <2>1 DEF Chain
<1>9. Numbered(dispatch.items, d, End(q))
  BY <1>1, <1>4, <1>6 DEF Chain
<1>10. /\ Head(dispatch.items).n = d + 1
       /\ Head(dispatch.items).kind # "more" => d + 1 = End(q)
  <2>1. Head(dispatch.items) = dispatch.items[1] /\ 1 \in 1 .. Len(dispatch.items)
    BY <1>2, <1>5
  <2> QED BY <1>9, <2>1 DEF Numbered
<1>11. d + 1 # 0
  BY <1>5
<1> QED BY <1>1, <1>4, <1>7, <1>8, <1>10, <1>11 DEF End

LEMMA CallbackChains ==
  ASSUME TypeInv, Sound, Chains, Callback
  PROVE  Chains'
<1>1. PICK q \in Reqs :
        /\ q = dispatch.req /\ Showing(q) /\ Chain(q)
        /\ status[q] = "open" /\ Len(delivered[q]) < emitted[q]
        /\ Head(dispatch.items).n = Len(delivered[q]) + 1
        /\ Head(dispatch.items).kind # "more" =>
             Len(delivered[q]) + 1 = emitted[q] /\ q \notin running
  BY CallbackIsNext
<1>2. /\ dispatch \in DispatchType /\ ~dispatch.inside
      /\ dispatch' = [dispatch EXCEPT !.inside = TRUE]
      /\ delivered' = [delivered EXCEPT ![q] = Append(delivered[q], Head(dispatch.items).n)]
      /\ status' = [status EXCEPT ![q] =
           IF Head(dispatch.items).kind # "more" THEN "over" ELSE status[q]]
      /\ UNCHANGED <<running, emitted, batch, results, call>>
  BY <1>1, ShownMessage DEF Callback, source, wrapper, bus
<1>3. /\ dispatch' # NoMessage /\ dispatch'.req = q /\ dispatch'.inside
      /\ dispatch'.items = dispatch.items
  BY <1>1, <1>2 DEF DispatchType, NoMessage, BatchType
<1>4. Chain(q)'
  <2>1. delivered[q] \in Seq(Nat) /\ Head(dispatch.items).n \in Nat
    BY <1>1 DEF TypeInv
  <2>2. Len(delivered'[q]) = Len(delivered[q]) + 1 /\ Len(delivered[q]) \in Nat
    BY <1>2, <2>1 DEF TypeInv
  <2>3. Showing(q)' /\ End(q)' = End(q) /\ ~Refused(q)'
    BY <1>1, <1>2, <1>3 DEF Showing, End, Refused, TypeInv, Sound, ProxyOK, Asking
  <2>4. Done(q)' = Done(q) /\ Done(q) \in Nat
    <3>1. Done(q)' = Len(delivered'[q]) - 1
      BY <1>3, <2>3 DEF Done
    <3>2. Done(q) = Len(delivered[q]) - 0
      BY <1>2 DEF Done
    <3> QED BY <2>2, <3>1, <3>2
  <2>5. Shown(q)' = Shown(q)
    BY <1>1, <1>3, <2>3, <2>4 DEF Shown
  <2>6. (status[q] = "over")' => Len(delivered'[q]) = emitted[q] /\ q \notin running
    BY <1>1, <1>2, <2>2 DEF TypeInv
  <2> QED BY <1>1, <1>2, <1>3, <2>3, <2>4, <2>5, <2>6 DEF Chain
<1>5. ASSUME NEW r \in Reqs \ {q}, status'[r] # "cancelled" PROVE Chain(r)'
  <2>1. UNCHANGED <<status[r], delivered[r]>> /\ Chain(r)
    BY <1>2, <1>5 DEF TypeInv, Chains
  <2>2. ~Showing(r) /\ ~Showing(r)'
    BY <1>1, <1>3, <1>5 DEF Showing
  <2> QED BY <1>2, <2>1, <2>2, ChainKept DEF End, Refused, Asking
<1> QED BY <1>4, <1>5 DEF Chains

LEMMA TailIsShorter ==
  ASSUME NEW items \in Seq(ItemType), items # <<>>
  PROVE  /\ Tail(items) \in Seq(ItemType) /\ Len(Tail(items)) = Len(items) - 1
         /\ \A j \in 1 .. Len(Tail(items)) : Tail(items)[j] = items[j + 1]
         /\ Tail(items) = <<>> <=> Len(items) = 1
<1>1. Tail(items) \in Seq(ItemType) /\ Len(Tail(items)) = Len(items) - 1
  OBVIOUS
<1>2. \A j \in 1 .. Len(Tail(items)) : Tail(items)[j] = items[j + 1]
  OBVIOUS
<1>3. \A rest \in Seq(ItemType) : rest = <<>> <=> Len(rest) = 0
  OBVIOUS
<1>4. Len(items) \in Nat
  OBVIOUS
<1>5. Tail(items) = <<>> <=> Len(items) = 1
  <2>1. Tail(items) = <<>> <=> Len(Tail(items)) = 0
    BY <1>1, <1>3
  <2>2. PICK n \in Nat : n = Len(items) /\ n - 1 = Len(Tail(items))
    BY <1>1, <1>4
  <2> QED BY <2>1, <2>2
<1> QED BY <1>1, <1>2, <1>5

LEMMA ReturnedChains ==
  ASSUME TypeInv, Sound, Chains, Returned
  PROVE  Chains'
<1>1. PICK q \in Reqs :
        /\ q = dispatch.req /\ Showing(q) /\ dispatch.inside
        /\ call = NoCall /\ call.op = "none"
        /\ UNCHANGED <<source, wrapper, call, results, status, delivered>>
        /\ \/ /\ Head(dispatch.items).kind = "last" \/ entry[q] = "stopping"
              /\ entry' = [entry EXCEPT ![q] = "none"]
              /\ dispatch' = NoMessage
           \/ /\ entry[q] # "stopping" /\ Tail(dispatch.items) # <<>>
              /\ entry' = entry
              /\ dispatch' # NoMessage
              /\ dispatch'.req = q /\ dispatch'.inside = FALSE
              /\ dispatch'.items = Tail(dispatch.items)
           \/ /\ entry[q] # "stopping" /\ Tail(dispatch.items) = <<>>
              /\ entry' = [entry EXCEPT ![q] = "waiting"]
              /\ dispatch' = NoMessage
  BY WhenReturned
<1>2. UNCHANGED <<running, emitted, batch, results, status, delivered, call>>
  BY <1>1 DEF source, wrapper
<1>3. ASSUME NEW r \in Reqs \ {q}, status[r] # "cancelled" PROVE Chain(r)'
  <2>1. ~Showing(r) /\ ~Showing(r)' /\ Chain(r)
    BY <1>1, <1>3 DEF Showing, Chains
  <2> QED BY <1>2, <2>1, ChainKept DEF End, Refused, Asking
<1>4. ASSUME status[q] # "cancelled" PROVE Chain(q)'
  <2>1. /\ dispatch.items \in Seq(ItemType) /\ dispatch.items # <<>>
        /\ emitted[q] \in Nat /\ delivered[q] \in Seq(Nat) /\ batch[q] \in Seq(ItemType)
        /\ results \in Seq(ResultType) /\ Chain(q)
    BY <1>1, <1>4, ShownMessage DEF TypeInv, Chains
  <2>2. PICK d \in Nat, n \in Nat \ {0} : d = Len(delivered[q]) /\ n = Len(dispatch.items)
    BY <2>1
  <2>3. Done(q) = d - 1 /\ Shown(q) = d - 1 + n /\ d - 1 \in Nat
    <3>1. Done(q) = d - 1
      BY <1>1, <2>2 DEF Done
    <3> QED BY <1>1, <2>1, <2>2, <3>1 DEF Shown, Chain
  <2>4. /\ Between(results, q, Shown(q), emitted[q] - Len(batch[q]), End(q))
        /\ Numbered(dispatch.items, d - 1, End(q))
        /\ status[q] = "over" => d = emitted[q]
        /\ End(q)' = End(q) /\ (Refused(q)' <=> Refused(q))
    BY <1>1, <1>2, <2>1, <2>2, <2>3 DEF Chain, End, Refused, Asking
  <2>5. status[q] = "over" => n = 1
    <3>1. emitted[q] - Len(batch[q]) \in Nat /\ Shown(q) <= emitted[q] - Len(batch[q])
      BY <2>1, <2>4, BetweenBounds
    <3>2. Len(batch[q]) \in Nat
      BY <2>1
    <3>3. d - 1 + n <= emitted[q] - Len(batch[q])
      BY <2>3, <3>1
    <3>4. \A x \in Nat, y \in Nat : d - 1 + n <= x - y /\ d = x => n = 1
      OBVIOUS
    <3> QED BY <2>1, <2>4, <3>2, <3>3, <3>4
  <2>6. CASE Tail(dispatch.items) = <<>> \/ Head(dispatch.items).kind = "last" \/ entry[q] = "stopping"
    <3>1. n = 1
      <4>1. CASE Tail(dispatch.items) = <<>>
        BY <2>1, <2>2, <4>1, TailIsShorter
      <4>2. CASE Head(dispatch.items).kind = "last" \/ entry[q] = "stopping"
        BY <1>1, <1>4, <2>5, <4>2 DEF Sound, ProxyOK
      <4> QED BY <2>6, <4>1, <4>2
    <3>2. CASE dispatch' = NoMessage
      <4>1. ~Showing(q)'
        BY <3>2 DEF Showing
      <4>2. Done(q)' = d
        <5>1. Done(q)' = Len(delivered'[q]) - 0
          BY <4>1 DEF Done
        <5> QED BY <1>2, <2>2, <5>1
      <4>3. Shown(q)' = d /\ Shown(q) = d
        <5>1. Shown(q)' = d + 0
          BY <4>1, <4>2 DEF Shown
        <5>2. d - 1 + n = d
          BY <3>1
        <5> QED BY <2>3, <5>1, <5>2
      <4> QED BY <1>2, <2>1, <2>2, <2>4, <4>1, <4>2, <4>3 DEF Chain
    <3>3. CASE dispatch' # NoMessage
      <4>1. Tail(dispatch.items) # <<>>
        BY <1>1, <3>3
      <4> QED BY <2>1, <2>2, <3>1, <4>1, TailIsShorter
    <3> QED BY <3>2, <3>3
  <2>7. CASE /\ Tail(dispatch.items) # <<>> /\ Head(dispatch.items).kind # "last"
             /\ entry[q] # "stopping"
    <3>1. PICK rest \in Seq(ItemType) :
            /\ rest = Tail(dispatch.items) /\ Len(rest) = n - 1
            /\ \A j \in 1 .. Len(rest) : rest[j] = dispatch.items[j + 1]
      BY <2>1, <2>2, TailIsShorter
    <3>2. Showing(q)' /\ dispatch'.inside = FALSE /\ dispatch'.items = rest
      BY <1>1, <2>7, <3>1 DEF Showing
    <3>3. Done(q)' = d
      <4>1. Done(q)' = Len(delivered'[q]) - 0
        BY <3>2 DEF Done
      <4> QED BY <1>2, <2>2, <4>1
    <3>4. Shown(q)' = Shown(q)
      <4>1. Shown(q)' = d + (n - 1)
        BY <3>1, <3>2, <3>3 DEF Shown
      <4> QED BY <2>2, <2>3, <4>1
    <3>5. Numbered(rest, d, End(q))
      <4>1. ASSUME NEW j \in 1 .. Len(rest)
            PROVE  rest[j].n = d + j /\ (rest[j].kind # "more" => d + j = End(q))
        <5>1. PICK i \in 1 .. n : i = j + 1 /\ d - 1 + i = d + j
          BY <2>2, <3>1
        <5> QED BY <2>2, <2>4, <3>1, <5>1 DEF Numbered
      <4> QED BY <4>1 DEF Numbered
    <3> QED BY <1>2, <2>1, <2>2, <2>4, <3>2, <3>3, <3>4, <3>5 DEF Chain
  <2> QED BY <2>6, <2>7
<1> QED BY <1>2, <1>3, <1>4 DEF Chains

LEMMA ChainsHold == Spec => [](TypeInv /\ Sound /\ Chains)
<1>1. Chains /\ UNCHANGED vars => Chains'
  <2> SUFFICES ASSUME Chains, UNCHANGED vars, NEW r \in Reqs, status[r] # "cancelled"
               PROVE  Chain(r)'
    BY DEF Chains, vars, app
  <2>1. UNCHANGED <<running, emitted, batch, call, results, dispatch, status, delivered>>
    BY DEF vars, source, wrapper, bus, proxy, app
  <2> QED BY <2>1, ChainKept DEF Chains, Showing, End, Refused, Asking
<1>2. TypeInv /\ Sound /\ Chains /\ [Next]_vars => Chains'
  BY <1>1, WrapperChains, SendChains, RemoveChains, EmitChains, CallChains, DispatchChains,
     CallbackChains, ReturnedChains DEF Next, Wrapper, Proxy
<1> QED BY InitChains, SoundHolds, <1>2, PTL DEF Spec

-----------------------------------------------------------------------------
(* The promise *)

\* A call of the application, or its answer.
LEMMA CallDelivers ==
  ASSUME TypeInv, Sound,
         BrowseReplied \/ \E r \in Reqs : Browse(r) \/ Cancel(r)
  PROVE  Delivery!Next \/ UNCHANGED Delivery!vars
<1>1. ASSUME NEW r \in Reqs, Browse(r) PROVE Delivery!Next
  BY <1>1 DEF Browse, Delivery!Next, Delivery!Ask, Delivery!Becomes
<1>2. CASE BrowseReplied
  <2>1. PICK r \in Reqs :
          /\ r = call.req /\ Asking(r) /\ UNCHANGED delivered
          /\ status' = [status EXCEPT ![r] = IF call.at = "replied" THEN "open" ELSE "failed"]
    BY <1>2, CallIsOne DEF BrowseReplied, Asking
  <2>2. status[r] = "asked"
    BY <2>1 DEF Sound, ProxyOK
  <2> QED BY <2>1, <2>2 DEF Delivery!Next, Delivery!Answer, Delivery!Becomes
<1>3. ASSUME NEW r \in Reqs, Cancel(r) PROVE Delivery!Next \/ UNCHANGED Delivery!vars
  <2>1. CASE status[r] = "open"
    BY <1>3, <2>1 DEF Cancel, Delivery!Next, Delivery!Cancel, Delivery!Becomes
  <2>2. CASE status[r] # "open"
    BY <1>3, <2>2 DEF Cancel, Delivery!vars, TypeInv
  <2> QED BY <2>1, <2>2
<1> QED BY <1>1, <1>2, <1>3

LEMMA CallbackDelivers ==
  ASSUME TypeInv, Sound, Chains, Callback
  PROVE  Delivery!Next
<1>1. PICK q \in Reqs :
        /\ q = dispatch.req /\ Showing(q) /\ Chain(q)
        /\ status[q] = "open" /\ Len(delivered[q]) < emitted[q]
        /\ Head(dispatch.items).n = Len(delivered[q]) + 1
        /\ Head(dispatch.items).kind # "more" =>
             Len(delivered[q]) + 1 = emitted[q] /\ q \notin running
  BY CallbackIsNext
<1>2. /\ delivered' = [delivered EXCEPT ![q] = Append(delivered[q], Len(delivered[q]) + 1)]
      /\ status' = [status EXCEPT ![q] =
           IF Head(dispatch.items).kind # "more" THEN "over" ELSE status[q]]
  BY <1>1 DEF Callback
<1>3. Len(delivered[q]) < MaxItems[q]
  <2>1. emitted[q] <= MaxItems[q] /\ emitted[q] \in Nat /\ MaxItems[q] \in Nat
    BY BrowseAssumption DEF Sound, WrapperOK, TypeInv
  <2>2. Len(delivered[q]) \in Nat
    BY DEF TypeInv
  <2> QED BY <1>1, <2>1, <2>2
<1>4. status' = status \/ status' = [status EXCEPT ![q] = "over"]
  BY <1>2 DEF TypeInv
<1> QED BY <1>1, <1>2, <1>3, <1>4 DEF Delivery!Next, Delivery!Deliver, Delivery!Becomes

LEMMA OthersDeliverNothing ==
  ASSUME HandleBrowse \/ BrowseReturns \/ BrowseFails \/ HandleCancel \/ CancelReplied
         \/ Dispatch \/ Returned \/ UNCHANGED vars
         \/ \E r \in Reqs : send_browse_res(r) \/ remove_from_hash(r) \/ emit_browse_result(r)
  PROVE  UNCHANGED Delivery!vars
BY DEF HandleBrowse, BrowseReturns, BrowseFails, HandleCancel, CancelReplied, Dispatch, Returned,
   send_browse_res, remove_from_hash, emit_browse_result, vars, app, Delivery!vars

\* What the application sees of a browse is what browsing a source promises: its
\* results one by one, in the order of the source, none lost, none twice, and
\* none after the last one or a cancel (emit_browse_result(), send_browse_res(),
\* mafw_proxy_source_dispatch_message()), for any number of requests and results.
THEOREM DeliversResults == Spec => ImplementsDelivery
<1>1. Init => Delivery!Init
  BY DEF Init, Delivery!Init
<1>2. TypeInv /\ Sound /\ Chains /\ [Next]_vars => [Delivery!Next]_Delivery!vars
  BY CallDelivers, CallbackDelivers, OthersDeliverNothing DEF Next, Wrapper, Proxy
<1> QED BY <1>1, <1>2, ChainsHold, PTL DEF Spec, ImplementsDelivery, Delivery!Spec
=============================================================================
