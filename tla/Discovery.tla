------------------------------- MODULE Discovery -------------------------------
(***************************************************************************)
(* How an application finds the extensions on the session bus and keeps    *)
(* its registry in step with them (libmafw-shared/mafw-shared.c and the    *)
(* attachment of proxies in mafw-proxy-extension.c, mafw-proxy-source.c    *)
(* and mafw-proxy-renderer.c).                                             *)
(*                                                                         *)
(* An extension owns a service name and then says hello.  For each name it *)
(* hears or lists the application makes a proxy, asks it for its name and  *)
(* for its properties, and only then enters it in the registry.  A match   *)
(* rule, added behind the making of the proxy, lets it hear of the end of  *)
(* the service.  Names go both ways: a rename on either side is sent to    *)
(* the other.  An extension stands for its service name; no two extensions *)
(* have the same uuid.                                                     *)
(***************************************************************************)
EXTENDS Integers, Sequences, FiniteSets, Functions

CONSTANTS
  Services,
  Names, NoName,  \* what extensions may be called; a proxy that was not told
  MaxLives,       \* bound: times services appear on the bus
  MaxInits,       \* bound: calls of mafw_shared_init()
  MaxRenames      \* bound: renames, by the application or the extension

ASSUME InstanceAssumption ==
  /\ IsFiniteSet(Services) /\ Names # {} /\ NoName \notin Names
  /\ MaxLives \in Nat /\ MaxInits \in Nat /\ MaxRenames \in Nat

VARIABLES
  owned,      \* services on the bus
  announced,  \* those that said hello
  lives,      \* times a service appeared
  name,       \* service -> what its extension is called
  toExt,      \* service -> calls under way to its extension
  inbox,      \* messages under way to the application
  tracking,   \* where mafw_shared_init() is: off, asking, answered, on
  inits,      \* calls of it
  listed,     \* the names ListNames gave
  proxy,      \* service -> none, naming, listing, registered, or kept: out of
              \* the registry, but held by the application
  pname,      \* service -> what its proxy is called
  held,       \* proxies the application has a reference to
  matched,    \* services whose signals the application has a match rule for
  rules,      \* service -> match rules for its NameOwnerChanged
  connrefs,   \* the references taken to the bus connection
  refused,    \* history: proxies whose object path was in use
  outlived,   \* history: proxies that were not told of the end of their service
  blocked,    \* history: services that said hello while their old proxy was kept
  renames

bus == <<owned, announced, lives, name>>
app == <<proxy, pname, held, matched, rules, connrefs, refused, outlived, blocked>>
init == <<tracking, inits, listed>>
vars == <<bus, toExt, inbox, init, app, renames>>

Init ==
  /\ owned = {} /\ announced = {}
  /\ lives = 0
  /\ name = [s \in Services |-> CHOOSE n \in Names : TRUE]
  /\ toExt = [s \in Services |-> <<>>] /\ inbox = <<>>
  /\ tracking = "off" /\ inits = 0 /\ listed = {}
  /\ proxy = [s \in Services |-> "none"]
  /\ pname = [s \in Services |-> NoName]
  /\ held = {} /\ matched = {}
  /\ rules = [s \in Services |-> 0]
  /\ connrefs = 0 /\ refused = 0
  /\ outlived = {} /\ blocked = {} /\ renames = 0

Msg(type, s) == [type |-> type, svc |-> s]
NameMsg(type, s, n) == [type |-> type, svc |-> s, name |-> n]
InHandshake(s) == proxy[s] \in {"naming", "listing"}

-----------------------------------------------------------------------------
(* The bus and the extensions *)

Appear(s) ==
  /\ s \notin owned /\ lives < MaxLives
  /\ owned' = owned \cup {s}
  /\ lives' = lives + 1
  /\ blocked' = blocked \ {s}
  /\ UNCHANGED <<announced, name, toExt, inbox, init, proxy, pname, held, matched, rules,
                 connrefs, refused, outlived, renames>>

\* HELLO goes to who asked for the signals of the registry interface.
Announce(s) ==
  /\ s \in owned \ announced
  /\ announced' = announced \cup {s}
  /\ inbox' = IF inits > 0 THEN Append(inbox, Msg("hello", s)) ELSE inbox
  /\ UNCHANGED <<owned, lives, name, toExt, init, app, renames>>

\* The error that answers a call nobody will answer; set_name wants no answer.
NoAnswer(call, s) == Msg(IF call.type = "get_name" THEN "no_name" ELSE "no_list", s)
WantsAnswer(call) == call.type # "set_name"

\* The calls of q that want an answer, in their order.
Unanswered(q) ==
  LET calls == {k \in DOMAIN q : WantsAnswer(q[k])}
  IN  {order \in Bijection(1 .. Cardinality(calls), calls) :
         \A i, j \in DOMAIN order : i < j => order[i] < order[j]}

\* The bus tells of the end of a service, then answers the calls to it.
Depart(s) ==
  /\ s \in owned
  /\ owned' = owned \ {s} /\ announced' = announced \ {s}
  /\ \E order \in Unanswered(toExt[s]) :
       inbox' = inbox \o (IF rules[s] > 0 THEN <<Msg("gone", s)>> ELSE <<>>)
                      \o [k \in DOMAIN order |-> NoAnswer(toExt[s][order[k]], s)]
  /\ toExt' = [toExt EXCEPT ![s] = <<>>]
  /\ outlived' = IF rules[s] = 0 /\ proxy[s] # "none" THEN outlived \cup {s} ELSE outlived
  /\ UNCHANGED <<lives, name, init, proxy, pname, held, matched, rules, connrefs, refused,
                 blocked, renames>>

NameChanged(s, n) ==
  IF s \in matched THEN Append(inbox, NameMsg("name_changed", s, n)) ELSE inbox

Rename(s, n) ==
  /\ s \in owned /\ n # name[s] /\ renames < MaxRenames
  /\ name' = [name EXCEPT ![s] = n]
  /\ inbox' = NameChanged(s, n)
  /\ renames' = renames + 1
  /\ UNCHANGED <<owned, announced, lives, toExt, init, app>>

HandleCall(s) ==
  /\ toExt[s] # <<>>
  /\ toExt' = [toExt EXCEPT ![s] = Tail(@)]
  /\ LET call == Head(toExt[s])
     IN  \/ /\ call.type = "get_name"
            /\ inbox' = Append(inbox, NameMsg("name", s, name[s]))
            /\ UNCHANGED name
         \/ /\ call.type = "list_properties"
            /\ inbox' = Append(inbox, Msg("list", s))
            /\ UNCHANGED name
         \/ /\ call.type = "set_name"
            /\ name' = [name EXCEPT ![s] = call.name]
            /\ inbox' = NameChanged(s, call.name)
  /\ UNCHANGED <<owned, announced, lives, init, app, renames>>

-----------------------------------------------------------------------------
(* Making proxies *)

\* The services S are called, in any order.  A call to one that is not on the bus
\* is answered by the bus; rest is what else is under way to the application.
Send(S, call, rest) ==
  LET unknown == IF WantsAnswer(call) THEN S \ owned ELSE {}
  IN  /\ toExt' = [s \in Services |->
                     IF s \in S \cap owned THEN Append(toExt[s], call) ELSE toExt[s]]
      /\ \E order \in Bijection(1 .. Cardinality(unknown), unknown) :
           inbox' = rest \o [k \in DOMAIN order |-> NoAnswer(call, order[k])]

\* Mutant: the new proxy of a service takes the object path of the old.
create_proxy_again(S, rest) ==
  LET new == {s \in S : proxy[s] # "registered"}
  IN  /\ Send(new, [type |-> "get_name"], rest)
      /\ proxy' = [s \in Services |-> IF s \in new THEN "naming" ELSE proxy[s]]
      /\ pname' = [s \in Services |-> IF s \in new THEN NoName ELSE pname[s]]
      /\ matched' = matched \cup new
      /\ rules' = [s \in Services |-> IF s \in new THEN rules[s] + 1 ELSE rules[s]]
      /\ connrefs' = connrefs + Cardinality(new)
      /\ refused' = refused
      /\ outlived' = (outlived \ new) \cup (new \ owned)
      /\ blocked' = blocked

\* For what is not in the registry, a proxy is made and then the match rule is
\* added, whether or not there is a proxy: an object path that is in use makes
\* the new proxy fail, and it gives the connection back twice, once on its
\* error path and once when it is disposed of.
\* The question for the name is sent, and the match rule added behind it: an extension
\* that ends in between goes unnoticed, as does one that ends before the handshake has
\* its answers, where NameOwnerChanged finds nothing to remove.  Both are outlived; one
\* step stands for the two calls.
create_proxy(S, rest) ==
  LET wanted == {s \in S : proxy[s] # "registered"}
      new == {s \in wanted : proxy[s] = "none"}
  IN  /\ Send(new, [type |-> "get_name"], rest)
      /\ proxy' = [s \in Services |-> IF s \in new THEN "naming" ELSE proxy[s]]
      /\ pname' = [s \in Services |-> IF s \in new THEN NoName ELSE pname[s]]
      /\ matched' = matched \cup new
      /\ rules' = [s \in Services |-> IF s \in wanted THEN rules[s] + 1 ELSE rules[s]]
      /\ connrefs' = connrefs + Cardinality(new) - Cardinality(wanted \ new)
      /\ refused' = refused + Cardinality(wanted \ new)
      /\ outlived' = (outlived \ new) \cup (new \ owned)
      /\ blocked' = blocked \cup {s \in wanted : proxy[s] = "kept"}

\* The match rule and the filter come first, then the question for the names.
mafw_shared_init ==
  /\ tracking = "off" /\ inits < MaxInits
  /\ tracking' = "asking" /\ inits' = inits + 1
  /\ connrefs' = connrefs + 1
  /\ UNCHANGED <<bus, toExt, inbox, listed, proxy, pname, held, matched, rules, refused,
                 outlived, blocked, renames>>

ListNames ==
  /\ tracking = "asking"
  /\ tracking' = "answered" /\ listed' = owned
  /\ UNCHANGED <<bus, toExt, inbox, inits, app, renames>>

create_proxy_extensions ==
  /\ tracking = "answered"
  /\ create_proxy(listed, inbox)
  /\ tracking' = "on" /\ listed' = {}
  /\ UNCHANGED <<bus, inits, held, renames>>

\* Only the filter goes: match rules and proxies stay.
mafw_shared_deinit ==
  /\ tracking = "on"
  /\ tracking' = "off"
  /\ connrefs' = connrefs - 1
  /\ UNCHANGED <<bus, toExt, inbox, inits, listed, proxy, pname, held, matched, rules, refused,
                 outlived, blocked, renames>>

-----------------------------------------------------------------------------
(* Messages at the application *)

\* The application's main loop takes the next message, unless it waits for
\* ListNames.
Message(type) ==
  /\ tracking \in {"off", "on"}
  /\ inbox # <<>> /\ Head(inbox).type = type

Unheard == UNCHANGED <<app, toExt>> /\ inbox' = Tail(inbox)

Hello ==
  /\ Message("hello")
  /\ IF tracking = "on" THEN create_proxy({Head(inbox).svc}, Tail(inbox)) ELSE Unheard
  /\ UNCHANGED <<bus, init, held, renames>>

\* Mutant: a proxy takes its reference to the connection with it.
Disposed_keeps_connection(S) ==
  /\ proxy' = [s \in Services |-> IF s \in S THEN "none" ELSE proxy[s]]
  /\ connrefs' = connrefs

\* The last reference to the proxies S is given up.
Disposed(S) ==
  /\ proxy' = [s \in Services |-> IF s \in S THEN "none" ELSE proxy[s]]
  /\ connrefs' = connrefs - Cardinality(S)

\* Mutant: the extension stays in the registry.
Removed_not(s) == UNCHANGED <<proxy, connrefs>>

\* mafw_registry_remove_extension()
Removed(s) ==
  IF s \in held
  THEN proxy' = [proxy EXCEPT ![s] = "kept"] /\ UNCHANGED connrefs
  ELSE Disposed({s})

\* The bus ignores the removal of a rule that is not there.
Unmatched(s) == rules' = [rules EXCEPT ![s] = IF @ > 0 THEN @ - 1 ELSE 0]

\* A proxy that is not in the registry yet is not looked for.
NameOwnerChanged ==
  /\ Message("gone")
  /\ inbox' = Tail(inbox)
  /\ LET s == Head(inbox).svc
     IN  \/ /\ tracking = "on" /\ proxy[s] = "registered"
            /\ Removed(s)
            /\ Unmatched(s)
            /\ outlived' = outlived \ {s}
         \/ /\ tracking = "on" /\ proxy[s] # "registered"
            /\ Unmatched(s)
            /\ outlived' = IF InHandshake(s) THEN outlived \cup {s} ELSE outlived
            /\ UNCHANGED <<proxy, connrefs>>
         \/ /\ tracking = "off"
            /\ outlived' = IF proxy[s] = "none" THEN outlived ELSE outlived \cup {s}
            /\ UNCHANGED <<proxy, rules, connrefs>>
  /\ UNCHANGED <<bus, toExt, init, pname, held, matched, refused, blocked, renames>>

\* With or without a name, the properties are asked for.
got_name ==
  /\ Message("name") \/ Message("no_name")
  /\ LET m == Head(inbox)
     IN  /\ pname' = IF m.type = "name" THEN [pname EXCEPT ![m.svc] = m.name] ELSE pname
         /\ proxy' = [proxy EXCEPT ![m.svc] = "listing"]
         /\ Send({m.svc}, [type |-> "list_properties"], Tail(inbox))
  /\ UNCHANGED <<bus, init, held, matched, rules, connrefs, refused, outlived, blocked, renames>>

\* Mutant: a proxy without properties is not registered.
got_prop_lists_needed ==
  /\ Message("list") \/ Message("no_list")
  /\ inbox' = Tail(inbox)
  /\ proxy' = IF Head(inbox).type = "list"
              THEN [proxy EXCEPT ![Head(inbox).svc] = "registered"] ELSE proxy
  /\ UNCHANGED <<bus, toExt, init, pname, held, matched, rules, connrefs, refused, outlived,
                 blocked, renames>>

\* With or without properties, the proxy goes into the registry.
got_prop_lists ==
  /\ Message("list") \/ Message("no_list")
  /\ inbox' = Tail(inbox)
  /\ proxy' = [proxy EXCEPT ![Head(inbox).svc] = "registered"]
  /\ UNCHANGED <<bus, toExt, init, pname, held, matched, rules, connrefs, refused, outlived,
                 blocked, renames>>

\* Mutant: a proxy listens from its registration on.
Listening_registered(s) == proxy[s] \in {"registered", "kept"}

\* A proxy hears the signals of its object path as long as it lives.
Listening(s) == proxy[s] # "none"

\* The handler that sends renames on is blocked while this one is taken over.
handle_extension_name_changed ==
  /\ Message("name_changed")
  /\ inbox' = Tail(inbox)
  /\ LET m == Head(inbox)
     IN  pname' = IF Listening(m.svc) THEN [pname EXCEPT ![m.svc] = m.name] ELSE pname
  /\ UNCHANGED <<bus, toExt, init, proxy, held, matched, rules, connrefs, refused, outlived,
                 blocked, renames>>

-----------------------------------------------------------------------------
(* What the application does with proxies it found *)

extension_name_set(s, n) ==
  /\ proxy[s] \in {"registered", "kept"} /\ n # pname[s] /\ renames < MaxRenames
  /\ pname' = [pname EXCEPT ![s] = n]
  /\ Send({s}, [type |-> "set_name", name |-> n], inbox)
  /\ renames' = renames + 1
  /\ UNCHANGED <<bus, init, proxy, held, matched, rules, connrefs, refused, outlived, blocked>>

Hold(s) ==
  /\ proxy[s] = "registered" /\ s \notin held
  /\ held' = held \cup {s}
  /\ UNCHANGED <<bus, toExt, inbox, init, proxy, pname, matched, rules, connrefs, refused,
                 outlived, blocked, renames>>

Release(s) ==
  /\ s \in held
  /\ held' = held \ {s}
  /\ IF proxy[s] = "kept" THEN Disposed({s}) ELSE UNCHANGED <<proxy, connrefs>>
  /\ UNCHANGED <<bus, toExt, inbox, init, pname, matched, rules, refused, outlived, blocked,
                 renames>>

-----------------------------------------------------------------------------

Dispatch ==
  \/ Hello \/ NameOwnerChanged \/ got_name \/ got_prop_lists
  \/ handle_extension_name_changed

Next ==
  \/ mafw_shared_init \/ ListNames \/ create_proxy_extensions \/ mafw_shared_deinit
  \/ Dispatch
  \/ \E s \in Services :
       \/ Appear(s) \/ Announce(s) \/ Depart(s) \/ HandleCall(s)
       \/ Hold(s) \/ Release(s)
       \/ \E n \in Names : Rename(s, n) \/ extension_name_set(s, n)

\* An extension that owns its name says hello, the wrapper and the application
\* serve their main loops, and the bus daemon answers.
Fairness ==
  /\ WF_vars(Dispatch) /\ WF_vars(ListNames) /\ WF_vars(create_proxy_extensions)
  /\ \A s \in Services : WF_vars(Announce(s)) /\ WF_vars(HandleCall(s))

Spec == Init /\ [][Next]_vars /\ Fairness

-----------------------------------------------------------------------------
(* Properties *)

Outstanding(s, calls, answers) ==
  Cardinality({k \in DOMAIN toExt[s] : toExt[s][k].type \in calls})
    + Cardinality({k \in DOMAIN inbox : inbox[k].svc = s /\ inbox[k].type \in answers})

\* The types, and the handshake: a proxy waits for just the one answer that its
\* stage needs, so that got_name() and got_prop_lists() run once for each proxy.
TypeOK ==
  /\ announced \subseteq owned /\ owned \subseteq Services
  /\ held \subseteq {s \in Services : proxy[s] \in {"registered", "kept"}}
  /\ tracking \in {"off", "asking", "answered", "on"}
  /\ \A s \in Services :
       /\ proxy[s] \in {"none", "naming", "listing", "registered", "kept"}
       /\ rules[s] >= 0 /\ name[s] \in Names /\ pname[s] \in Names \cup {NoName}
       /\ Outstanding(s, {"get_name"}, {"name", "no_name"}) = IF proxy[s] = "naming" THEN 1 ELSE 0
       /\ Outstanding(s, {"list_properties"}, {"list", "no_list"})
            = IF proxy[s] = "listing" THEN 1 ELSE 0

Quiet(s) == toExt[s] = <<>> /\ \A k \in DOMAIN inbox : inbox[k].svc # s

\* mafw_shared_init() "Tracks renderers and sources exported in session bus":
\* once all messages of a service are handled, one that said hello is in the
\* registry, unless its path was blocked by the proxy of an earlier life that the
\* application keeps; and one that is not on the bus is not in the registry, unless
\* it ended before its proxy was registered or its end was not listened for.
RegistryFollowsBus ==
  tracking = "on" =>
    \A s \in Services :
      Quiet(s) => /\ s \in announced => proxy[s] = "registered" \/ s \in blocked
                  /\ proxy[s] = "registered" /\ s \notin owned => s \in outlived

\* The references that proxies and the tracking have to the shared bus connection
\* are those that were taken, less one for every proxy that was refused its path.
ConnectionAccounted ==
  connrefs + refused =
    Cardinality({s \in Services : proxy[s] # "none"}) + (IF tracking = "off" THEN 0 ELSE 1)

\* Renames cross on the bus, also with the handshake; when they have settled, both
\* sides call the extension by one name.
NameSettles ==
  \A s \in owned :
    Quiet(s) /\ proxy[s] = "registered" /\ s \notin outlived => pname[s] = name[s]

\* An extension that says hello gets into the registry, whatever became of the
\* answers to its handshake, unless it or the tracking ends first, or its path is
\* blocked.
EventuallyRegistered ==
  \A s \in Services :
    (s \in announced /\ tracking = "on") ~>
      (proxy[s] = "registered" \/ s \notin owned \/ tracking = "off" \/ s \in blocked)
=============================================================================
