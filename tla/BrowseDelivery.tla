---------------------------- MODULE BrowseDelivery ----------------------------
(***************************************************************************)
(* What browsing a source of another process promises an application:      *)
(* doc/sources.sgml, "The results of the browse call are returned using    *)
(* the provided callback".  Every browse gets its results one by one, in   *)
(* the order of the source, until the last one, a failure, or the          *)
(* application's own cancel; after that its callback is not called again.  *)
(***************************************************************************)
EXTENDS Naturals, Sequences

CONSTANTS Reqs,      \* browse requests
          MaxItems   \* bound: Reqs -> results of each

VARIABLES status,    \* Reqs -> "new", "asked", "open", "over", "failed", "cancelled"
          delivered  \* Reqs -> the numbers of the results its callback got

vars == <<status, delivered>>

Init ==
  /\ status = [r \in Reqs |-> "new"]
  /\ delivered = [r \in Reqs |-> <<>>]

Becomes(r, s) == status' = [status EXCEPT ![r] = s]

Ask(r) == status[r] = "new" /\ Becomes(r, "asked") /\ UNCHANGED delivered

Answer(r) ==
  /\ status[r] = "asked"
  /\ Becomes(r, "open") \/ Becomes(r, "failed")
  /\ UNCHANGED delivered

Deliver(r) ==
  /\ status[r] = "open"
  /\ Len(delivered[r]) < MaxItems[r]
  /\ delivered' = [delivered EXCEPT ![r] = Append(@, Len(@) + 1)]
  /\ UNCHANGED status \/ Becomes(r, "over")

Cancel(r) == status[r] = "open" /\ Becomes(r, "cancelled") /\ UNCHANGED delivered

Next == \E r \in Reqs : Ask(r) \/ Answer(r) \/ Deliver(r) \/ Cancel(r)

Spec == Init /\ [][Next]_vars
=============================================================================
