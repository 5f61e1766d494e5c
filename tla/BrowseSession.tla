----------------------------- MODULE BrowseSession -----------------------------
(***************************************************************************)
(* Browsing a source that lives in another process: the source wrapper     *)
(* (mafw-dbus-wrapper/source-wrapper.c), which collects the results of the *)
(* source into batches, and the proxy source of an application             *)
(* (libmafw-shared/mafw-proxy-source.c), which hands them to callbacks.    *)
(*                                                                         *)
(* The application's calls block it: messages that arrive meanwhile wait.  *)
(* A callback may itself browse and cancel.  A request stands for its      *)
(* browse id, which is unique as long as the source makes it so.           *)
(***************************************************************************)
EXTENDS Naturals, Sequences, FiniteSets, FiniteSetsExt

CONSTANTS
  Reqs,               \* browse requests of the application
  MaxItems,           \* bound: Reqs -> results of each
  INITIAL_MAX_RESULTS,
  MAX_BROWSE_RESULT,
  ErrorEnds           \* a source reports an error with remaining_count 0

ASSUME BrowseAssumption ==
  /\ MaxItems \in [Reqs -> Nat \ {0}]
  /\ {INITIAL_MAX_RESULTS, MAX_BROWSE_RESULT} \subseteq Nat \ {0}
  /\ INITIAL_MAX_RESULTS <= MAX_BROWSE_RESULT
  /\ ErrorEnds \in BOOLEAN

VARIABLES
  \* the source
  running,     \* requests the source works on
  emitted,     \* results it gave for each
  \* the wrapper
  bdata,       \* struct browse_data of each: "none", "live", "freed"
  batch,       \* the results in its message_to_send
  maxresults,  \* when that message is sent at once
  timer,       \* its timeout_id is set
  table,       \* browse_requests
  idle,        \* remove_from_hash() is due
  \* the bus
  call,        \* the call the application waits for
  results,     \* BROWSE_RESULT messages on their way to the application
  \* the proxy
  entry,       \* browse_requests: "none", "waiting", "emitting", "stopping"
  dispatch,    \* the BROWSE_RESULT message being handled
  \* the application
  status,      \* history: what it knows of each request
  delivered    \* history: numbers of the results its callback got

source == <<running, emitted>>
wrapper == <<bdata, batch, maxresults, timer, table, idle>>
bus == <<call, results>>
proxy == <<entry, dispatch>>
app == <<status, delivered>>
vars == <<source, wrapper, bus, proxy, app>>

NoCall == [op |-> "none"]
NoMessage == [items |-> <<>>, inside |-> FALSE]

Init ==
  /\ running = {} /\ emitted = [r \in Reqs |-> 0]
  /\ bdata = [r \in Reqs |-> "none"]
  /\ batch = [r \in Reqs |-> <<>>]
  /\ maxresults = [r \in Reqs |-> INITIAL_MAX_RESULTS]
  /\ timer = [r \in Reqs |-> FALSE]
  /\ table = {} /\ idle = {}
  /\ call = NoCall /\ results = <<>>
  /\ entry = [r \in Reqs |-> "none"]
  /\ dispatch = NoMessage
  /\ status = [r \in Reqs |-> "new"]
  /\ delivered = [r \in Reqs |-> <<>>]

-----------------------------------------------------------------------------
(* The source and its wrapper.  While the source's browse() runs, called   *)
(* with the request, the wrapper's process does nothing else.              *)

Browsing == call.op = "browse" /\ call.at = "source"
Message(r, items) == [req |-> r, items |-> items]

\* free_browse_req(): the batch and the timer go with it.
Freed(rs) ==
  /\ bdata' = [r \in Reqs |-> IF r \in rs THEN "freed" ELSE bdata[r]]
  /\ batch' = [r \in Reqs |-> IF r \in rs THEN <<>> ELSE batch[r]]
  /\ timer' = [r \in Reqs |-> IF r \in rs THEN FALSE ELSE timer[r]]

\* A browse request arrives; the source starts on it.
HandleBrowse ==
  /\ call.op = "browse" /\ call.at = "bus"
  /\ call' = [call EXCEPT !.at = "source"]
  /\ bdata' = [bdata EXCEPT ![call.req] = "live"]
  /\ timer' = [timer EXCEPT ![call.req] = TRUE]
  /\ running' = running \cup {call.req}
  /\ UNCHANGED <<emitted, batch, maxresults, table, idle, results, proxy, app>>

\* The source's browse() returns the id, maybe after it gave results.
BrowseReturns ==
  /\ Browsing
  /\ table' = table \cup {call.req}
  /\ call' = [call EXCEPT !.at = "replied"]
  /\ UNCHANGED <<source, bdata, batch, maxresults, timer, idle, results, proxy, app>>

\* The source refuses: emit_browse_result() with an invalid id.
BrowseFails ==
  /\ Browsing
  /\ call.req \in running /\ emitted[call.req] = 0
  /\ running' = running \ {call.req}
  /\ Freed({call.req})
  /\ call' = [call EXCEPT !.at = "failed"]
  /\ UNCHANGED <<emitted, maxresults, table, idle, results, proxy, app>>

\* What the source may give next, the n-th result of r: one of several, the one
\* with remaining_count 0 (which may carry an error), or, unless ErrorEnds, an
\* error with results remaining.
Items(r) ==
  [n : {emitted[r] + 1},
   kind : {"more", "last"} \cup IF ErrorEnds THEN {} ELSE {"broken"}]

\* Mutant: a full batch restarts no timer.
FullBatch_no_timer(r) ==
  /\ maxresults' = [maxresults EXCEPT ![r] =
                      IF @ = MAX_BROWSE_RESULT THEN @ ELSE Min({3 * @, MAX_BROWSE_RESULT})]
  /\ timer' = [timer EXCEPT ![r] = FALSE]

\* Mutant: the size of a batch has no limit.
FullBatch_unlimited(r) ==
  /\ maxresults' = [maxresults EXCEPT ![r] = 3 * @]
  /\ UNCHANGED timer

\* The next batch may be three times as long, and the timer starts anew.
FullBatch(r) ==
  /\ maxresults' = [maxresults EXCEPT ![r] =
                      IF @ = MAX_BROWSE_RESULT THEN @ ELSE Min({3 * @, MAX_BROWSE_RESULT})]
  /\ UNCHANGED timer

\* Mutant: the entry of a finished request is removed at once.
FinalBatch_at_once(r) ==
  /\ table' = table \ {r}
  /\ bdata' = IF r \in table THEN [bdata EXCEPT ![r] = "freed"] ELSE bdata
  /\ timer' = [timer EXCEPT ![r] = FALSE]
  /\ UNCHANGED <<maxresults, idle>>

\* The last batch stops the timer; the request is removed from the table when
\* the wrapper is idle, for its browse() may not have returned yet.
FinalBatch(r) ==
  /\ idle' = idle \cup {r}
  /\ timer' = [timer EXCEPT ![r] = FALSE]
  /\ UNCHANGED <<maxresults, table, bdata>>

emit_browse_result(r) ==
  /\ r \in running
  /\ Browsing => call.req = r
  /\ \E item \in Items(r) :
       LET full == Append(batch[r], item)
           final == item.kind # "more"
       IN  /\ item.n = MaxItems[r] => final
           /\ emitted' = [emitted EXCEPT ![r] = item.n]
           /\ running' = IF final THEN running \ {r} ELSE running
           /\ IF final \/ Len(full) >= maxresults[r]
              THEN /\ results' = Append(results, Message(r, full))
                   /\ batch' = [batch EXCEPT ![r] = <<>>]
              ELSE /\ batch' = [batch EXCEPT ![r] = full]
                   /\ UNCHANGED results
           /\ \/ final /\ FinalBatch(r)
              \/ ~final /\ Len(full) >= maxresults[r]
                   /\ FullBatch(r) /\ UNCHANGED <<table, idle, bdata>>
              \/ ~final /\ Len(full) < maxresults[r]
                   /\ UNCHANGED <<maxresults, timer, table, idle, bdata>>
  /\ UNCHANGED <<call, proxy, app>>

\* The timer of a batch expires.
send_browse_res(r) ==
  /\ ~Browsing
  /\ timer[r] /\ batch[r] # <<>>
  /\ results' = Append(results, Message(r, batch[r]))
  /\ batch' = [batch EXCEPT ![r] = <<>>]
  /\ UNCHANGED <<source, bdata, maxresults, timer, table, idle, call, proxy, app>>

remove_from_hash(r) ==
  /\ ~Browsing
  /\ r \in idle
  /\ idle' = idle \ {r}
  /\ table' = table \ {r}
  /\ Freed({r} \cap table)
  /\ UNCHANGED <<source, maxresults, bus, proxy, app>>

\* Mutant: the source is not told to stop.
HandleCancel_source_goes_on ==
  /\ call.op = "cancel" /\ call.at = "bus"
  /\ table' = table \ {call.req}
  /\ Freed({call.req} \cap table)
  /\ call' = [call EXCEPT !.at = IF call.req \in running THEN "replied" ELSE "failed"]
  /\ UNCHANGED <<source, maxresults, idle, results, proxy, app>>

\* A cancel arrives: the source stops giving results for the request, or says
\* that it does not work on it.
HandleCancel ==
  /\ call.op = "cancel" /\ call.at = "bus"
  /\ running' = running \ {call.req}
  /\ table' = table \ {call.req}
  /\ Freed({call.req} \cap table)
  /\ call' = [call EXCEPT !.at = IF call.req \in running THEN "replied" ELSE "failed"]
  /\ UNCHANGED <<emitted, maxresults, idle, results, proxy, app>>

-----------------------------------------------------------------------------
(* The proxy and the application.  The application makes calls from its    *)
(* main loop or from within a callback, and one at a time.                 *)

Free == call = NoCall /\ (dispatch = NoMessage \/ dispatch.inside)

\* mafw_proxy_source_browse()
Browse(r) ==
  /\ Free
  /\ status[r] = "new"
  /\ status' = [status EXCEPT ![r] = "asked"]
  /\ call' = [op |-> "browse", req |-> r, at |-> "bus"]
  /\ UNCHANGED <<source, wrapper, results, proxy, delivered>>

\* Its reply: the request is remembered, or the callback gets the error.
BrowseReplied ==
  /\ call.op = "browse" /\ call.at \in {"replied", "failed"}
  /\ LET r == call.req
         ok == call.at = "replied"
     IN  /\ entry' = [entry EXCEPT ![r] = IF ok THEN "waiting" ELSE "none"]
         /\ status' = [status EXCEPT ![r] = IF ok THEN "open" ELSE "failed"]
  /\ call' = NoCall
  /\ UNCHANGED <<source, wrapper, results, dispatch, delivered>>

\* Mutant: a cancel within a callback does not stop the message it is in.
CancelledEntry_goes_on(r) == IF entry[r] = "emitting" THEN "emitting" ELSE "none"

\* What a cancel leaves of an entry: the dispatcher removes one that it uses.
CancelledEntry(r) == IF entry[r] \in {"emitting", "stopping"} THEN "stopping" ELSE "none"

\* mafw_proxy_source_cancel_browse().  A request the proxy does not know (any
\* more) is an error.
Cancel(r) ==
  /\ Free
  /\ entry[r] # "none"
  /\ entry' = [entry EXCEPT ![r] = CancelledEntry(r)]
  /\ status' = [status EXCEPT ![r] = IF @ = "open" THEN "cancelled" ELSE @]
  /\ call' = [op |-> "cancel", req |-> r, at |-> "bus"]
  /\ UNCHANGED <<source, wrapper, results, dispatch, delivered>>

CancelReplied ==
  /\ call.op = "cancel" /\ call.at \in {"replied", "failed"}
  /\ call' = NoCall
  /\ UNCHANGED <<source, wrapper, results, proxy, app>>

\* mafw_proxy_source_dispatch_message(): a message of a request that is not
\* known any more is dropped.
Dispatch ==
  /\ call = NoCall /\ dispatch = NoMessage
  /\ results # <<>>
  /\ results' = Tail(results)
  /\ LET m == Head(results)
     IN  IF entry[m.req] = "none" THEN UNCHANGED proxy
         ELSE /\ dispatch' = [req |-> m.req, items |-> m.items, inside |-> FALSE]
              /\ entry' = [entry EXCEPT ![m.req] = "emitting"]
  /\ UNCHANGED <<source, wrapper, call, app>>

\* Its loop: the callback is called with one result ...
Callback ==
  /\ call = NoCall /\ dispatch # NoMessage /\ ~dispatch.inside
  /\ LET r == dispatch.req
         item == Head(dispatch.items)
     IN  /\ delivered' = [delivered EXCEPT ![r] = Append(@, item.n)]
         /\ status' = [status EXCEPT ![r] = IF item.kind # "more" THEN "over" ELSE @]
  /\ dispatch' = [dispatch EXCEPT !.inside = TRUE]
  /\ UNCHANGED <<source, wrapper, bus, entry>>

\* ... and returns.
Returned ==
  /\ call = NoCall /\ dispatch.inside
  /\ LET r == dispatch.req
         item == Head(dispatch.items)
         rest == Tail(dispatch.items)
     IN  \/ /\ item.kind = "last" \/ entry[r] = "stopping"
            /\ entry' = [entry EXCEPT ![r] = "none"]
            /\ dispatch' = NoMessage
         \/ /\ item.kind # "last" /\ entry[r] # "stopping" /\ rest # <<>>
            /\ dispatch' = [dispatch EXCEPT !.items = rest, !.inside = FALSE]
            /\ UNCHANGED entry
         \/ /\ item.kind # "last" /\ entry[r] # "stopping" /\ rest = <<>>
            /\ dispatch' = NoMessage
            /\ entry' = [entry EXCEPT ![r] = "waiting"]
  /\ UNCHANGED <<source, wrapper, bus, app>>

-----------------------------------------------------------------------------
Wrapper ==
  \/ HandleBrowse \/ BrowseReturns \/ BrowseFails \/ HandleCancel
  \/ \E r \in Reqs : send_browse_res(r) \/ remove_from_hash(r)

Proxy == BrowseReplied \/ CancelReplied \/ Dispatch \/ Callback \/ Returned

Next ==
  \/ Wrapper \/ Proxy
  \/ \E r \in Reqs : emit_browse_result(r) \/ Browse(r) \/ Cancel(r)

Spec == Init /\ [][Next]_vars

\* Both main loops run and callbacks return, whatever calls they make before.
\* Nothing is assumed of the source but that its browse() returns: it may take its
\* time between two results, or never come to the last one.
FairSpec ==
  /\ Spec
  /\ WF_vars(HandleBrowse) /\ WF_vars(BrowseReturns) /\ WF_vars(HandleCancel)
  /\ \A r \in Reqs : WF_vars(send_browse_res(r)) /\ WF_vars(remove_from_hash(r))
  /\ WF_vars(BrowseReplied) /\ WF_vars(CancelReplied)
  /\ WF_vars(Dispatch) /\ WF_vars(Callback) /\ SF_vars(Returned)

-----------------------------------------------------------------------------
(* Properties *)

\* Every variable has its type, and no message is empty or longer than the
\* "maximum number of the results, what a message can contain".
TypeOK ==
  /\ running \subseteq Reqs /\ table \subseteq Reqs /\ idle \subseteq Reqs
  /\ emitted \in [Reqs -> Nat]
  /\ \A r \in Reqs : emitted[r] <= MaxItems[r]
  /\ bdata \in [Reqs -> {"none", "live", "freed"}]
  /\ maxresults \in [Reqs -> INITIAL_MAX_RESULTS .. MAX_BROWSE_RESULT]
  /\ timer \in [Reqs -> BOOLEAN]
  /\ entry \in [Reqs -> {"none", "waiting", "emitting", "stopping"}]
  /\ call.op \in {"none", "browse", "cancel"}
  /\ \A k \in DOMAIN results :
       results[k].req \in Reqs /\ Len(results[k].items) \in 1 .. MAX_BROWSE_RESULT

\* The browse_data a source's callback or a timer gets as user data is live:
\* neither a cancel nor the removal of a finished request pulls it away.
UserDataLive ==
  \A r \in Reqs : r \in running \/ timer[r] \/ r \in table => bdata[r] = "live"

\* Results come one by one, in order, and none after the end or a cancel.
Delivery == INSTANCE BrowseDelivery
ImplementsDelivery == Delivery!Spec

\* A result the source gave is delivered even if the source gives no other,
\* unless the application cancels.
ResultsArrive ==
  \A r \in Reqs : \A n \in 1 .. MaxItems[r] :
    emitted[r] >= n ~> Len(delivered[r]) >= n \/ status[r] = "cancelled"

\* A request the source is done with is forgotten on both sides.
NothingLeaks ==
  \A r \in Reqs :
    bdata[r] = "live" /\ r \notin running ~> bdata[r] = "freed" /\ entry[r] = "none"
=============================================================================
