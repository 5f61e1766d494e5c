--------------------------- MODULE ExtensionWrapper ---------------------------
(***************************************************************************)
(* The process that puts sources and renderers on the session bus          *)
(* (mafw-dbus-wrapper/wrapper.c) and activates them on behalf of           *)
(* applications (extension-wrapper.c).                                     *)
(*                                                                         *)
(* An application activates an extension by setting its property           *)
(* "activate", a message without a reply, and gives it up in the same way  *)
(* or by leaving the bus.  The wrapper counts the applications that want   *)
(* an extension, and deactivates it for the last of them.  Other           *)
(* properties, names and forwarded signals leave its state alone.          *)
(***************************************************************************)
EXTENDS Integers, Sequences, FiniteSets, SequencesExt

CONSTANTS
  Clients, Extensions,
  Activatable,  \* the extensions that accept the property "activate"
  MaxInbox,     \* bound: messages under way to the wrapper
  Faults        \* subset of {"taken", "readd"}, see add_extension

ASSUME InstanceAssumption ==
  /\ MaxInbox \in Nat \ {0}
  /\ Activatable \subseteq Extensions
  /\ Faults \subseteq {"taken", "readd"}

VARIABLES
  registry,           \* extensions in the registry
  removed,            \* history: extensions that were removed from it
  Exports,            \* the list of that name
  freed,              \* extensions whose entry in Exports is freed memory
  source_activators,  \* client -> the extensions it activated
  watched,            \* clients with a match rule for their NameOwnerChanged
  count,              \* extension -> its "mafw-refcount"
  active,             \* extension -> its property "activate"
  inbox,              \* messages routed to the wrapper
  connected,          \* clients on the bus; a unique name is never used again
  unheard,            \* history: clients that left unwatched with messages under way
  wants               \* client -> extensions it asked to be active and not given up

exportVars == <<registry, removed, Exports, freed>>
activation == <<source_activators, watched, count, active>>
vars == <<exportVars, activation, inbox, connected, unheard, wants>>

Init ==
  /\ registry = {} /\ removed = {}
  /\ Exports = <<>> /\ freed = {}
  /\ source_activators = [c \in Clients |-> {}]
  /\ watched = {}
  /\ count = [e \in Extensions |-> 0]
  /\ active = [e \in Extensions |-> FALSE]
  /\ inbox = <<>>
  /\ connected = Clients /\ unheard = {}
  /\ wants = [c \in Clients |-> {}]

\* The object paths messages are handled for.
OnBus == ToSet(Exports) \ freed

-----------------------------------------------------------------------------
(* Activation *)

increase_mafwcount(e) == count' = [count EXCEPT ![e] = @ + 1]

\* Who gives up the last use of an extension turns it off.
decrease_mafwcount(es) ==
  /\ count' = [e \in Extensions |->
                 IF e \in es /\ count[e] > 0 THEN count[e] - 1 ELSE count[e]]
  /\ active' = [e \in Extensions |-> active[e] /\ ~(e \in es /\ count[e] = 1)]

\* Mutant: a client that asks again is counted again.
register_client_twice(e, c) ==
  /\ source_activators' = [source_activators EXCEPT ![c] = @ \cup {e}]
  /\ watched' = watched \cup {c}
  /\ increase_mafwcount(e)

\* A client's first extension makes the wrapper watch for its exit.
register_client(e, c) ==
  /\ source_activators' = [source_activators EXCEPT ![c] = @ \cup {e}]
  /\ watched' = IF source_activators[c] = {} THEN watched \cup {c} ELSE watched
  /\ IF e \in source_activators[c] THEN UNCHANGED count ELSE increase_mafwcount(e)

\* Mutant: the watch for a client ends with the first extension it gives up.
unregister_client_unwatches(es, c) ==
  /\ source_activators' = [source_activators EXCEPT ![c] = @ \ es]
  /\ watched' = watched \ {c}
  /\ decrease_mafwcount(es)

\* Client c gives up the extensions es of its list; with the last it is not
\* watched any more.
unregister_client(es, c) ==
  /\ source_activators' = [source_activators EXCEPT ![c] = @ \ es]
  /\ watched' = IF source_activators[c] = es THEN watched \ {c} ELSE watched
  /\ decrease_mafwcount(es)

Msg == Head(inbox)
Handle(type) == inbox # <<>> /\ Msg.type = type /\ inbox' = Tail(inbox)

\* A message for a path that is not registered (any more) is not for the wrapper.
handle_set_property ==
  /\ Handle("set_property")
  /\ LET e == Msg.ext  c == Msg.from
     IN  CASE e \in OnBus /\ Msg.value /\ e \in Activatable ->
                register_client(e, c) /\ active' = [active EXCEPT ![e] = TRUE]
           [] e \in OnBus /\ ~Msg.value /\ e \in source_activators[c] ->
                unregister_client({e}, c)
           [] OTHER -> UNCHANGED activation
  /\ UNCHANGED <<exportVars, connected, unheard, wants>>

handle_client_exits ==
  /\ Handle("NameOwnerChanged")
  /\ unregister_client(source_activators[Msg.from], Msg.from)
  /\ UNCHANGED <<exportVars, connected, unheard, wants>>

-----------------------------------------------------------------------------
(* Export *)

\* wrapper_export().  The service name may be "taken" by another process; then
\* nothing is entered in Exports.  An extension that was removed is added again
\* only in a world of "readd".
add_extension(e) ==
  /\ e \notin registry
  /\ e \notin removed \/ "readd" \in Faults
  /\ registry' = registry \cup {e}
  /\ \/ Exports' = <<e>> \o Exports
     \/ "taken" \in Faults /\ UNCHANGED Exports
  /\ UNCHANGED <<removed, freed, activation, inbox, connected, unheard, wants>>

\* Mutant: the lists of the clients keep the extension.
extension_deregister_keeps(e) == UNCHANGED <<source_activators, watched>>

\* The extension leaves the lists of the clients; its count stays as it is.
extension_deregister(e) ==
  /\ source_activators' = [c \in Clients |-> source_activators[c] \ {e}]
  /\ watched' = watched \ {c \in Clients : source_activators[c] = {e}}

\* wrapper_unexport().  The search leaves ecomp at the last entry when it does not
\* find the extension; the entry is then freed but not taken out of the list.
\* What happens when a freed entry is met is undefined and not followed.
remove_extension(e) ==
  /\ e \in registry
  /\ registry' = registry \ {e} /\ removed' = removed \cup {e}
  /\ wants' = [c \in Clients |-> wants[c] \ {e}]
  /\ \/ Exports = <<>> /\ UNCHANGED <<Exports, freed, source_activators, watched>>
     \/ /\ Exports # <<>>
        /\ \/ \E node \in DOMAIN Exports :
                /\ Exports[node] = e /\ e \notin freed
                /\ \A k \in 1 .. node - 1 : Exports[k] # e
                /\ Exports' = RemoveAt(Exports, node) /\ UNCHANGED freed
           \/ /\ e \notin ToSet(Exports) /\ Last(Exports) \notin freed
              /\ freed' = freed \cup {Last(Exports)} /\ UNCHANGED Exports
        /\ extension_deregister(e)
  /\ UNCHANGED <<count, active, inbox, connected, unheard>>

-----------------------------------------------------------------------------
(* Clients *)

\* A client sets "activate" of an extension it sees, whatever it did before.
SetActivate(c, e, value) ==
  /\ c \in connected /\ e \in OnBus
  /\ Len(inbox) < MaxInbox
  /\ inbox' = Append(inbox, [type |-> "set_property", from |-> c, ext |-> e, value |-> value])
  /\ wants' = [wants EXCEPT ![c] = IF value THEN @ \cup {e} ELSE @ \ {e}]
  /\ UNCHANGED <<exportVars, activation, connected, unheard>>

Senders == {inbox[k].from : k \in DOMAIN inbox}

\* A client exits or crashes, whatever of its messages is still under way.
Vanish(c) ==
  /\ c \in connected
  /\ connected' = connected \ {c}
  /\ wants' = [wants EXCEPT ![c] = {}]
  /\ IF c \in watched
     THEN inbox' = Append(inbox, [type |-> "NameOwnerChanged", from |-> c]) /\ UNCHANGED unheard
     ELSE /\ unheard' = unheard \cup (Senders \cap {c})
          /\ UNCHANGED inbox
  /\ UNCHANGED <<exportVars, activation>>

-----------------------------------------------------------------------------
Next ==
  \/ \E e \in Extensions : add_extension(e) \/ remove_extension(e)
  \/ handle_set_property \/ handle_client_exits
  \/ \E c \in Clients :
       Vanish(c) \/ \E e \in Extensions, value \in BOOLEAN : SetActivate(c, e, value)

Spec == Init /\ [][Next]_vars

-----------------------------------------------------------------------------
(* Properties *)

\* Every variable has its type, and no extension is counted for more clients
\* than there are.
TypeOK ==
  /\ registry \subseteq Extensions /\ removed \subseteq Extensions
  /\ Exports \in Seq(Extensions) /\ freed \subseteq Extensions
  /\ source_activators \in [Clients -> SUBSET Extensions]
  /\ watched \subseteq Clients /\ connected \subseteq Clients /\ unheard \subseteq Clients
  /\ count \in [Extensions -> 0 .. Cardinality(Clients)]
  /\ active \in [Extensions -> BOOLEAN]
  /\ wants \in [Clients -> SUBSET Extensions]
  /\ \A k \in DOMAIN inbox : inbox[k].from \in Clients

\* The lists of source_activators point to exported extensions only: the exit of
\* a client turns off nothing that was unreferenced when it was removed.
NoDanglingHolder == \A c \in Clients : source_activators[c] \subseteq OnBus

\* Once the wrapper has handled everything, an extension is active just while an
\* application on the bus wants it, however often and in whatever order the
\* applications asked, gave up and left; except that what a client asked for
\* just before it left, when it was not watched yet, is never given up.
ActiveIsWanted ==
  inbox = <<>> =>
    \A e \in OnBus \cap Activatable :
      active[e] <=> \E c \in Clients :
                      \/ e \in wants[c]
                      \/ c \in unheard /\ e \in source_activators[c]
=============================================================================
