------------------------------- MODULE Renderer --------------------------------
(***************************************************************************)
(* A renderer on the session bus: the application's proxy                  *)
(* (libmafw-shared/mafw-proxy-renderer.c), the wrapper that drives the     *)
(* renderer for it (mafw-dbus-wrapper/renderer-wrapper.c), and the         *)
(* messages between them, built and taken apart as Marshal has it.         *)
(*                                                                         *)
(* A call is sent and waits, with a reference to its proxy, for one        *)
(* answer: the wrapper passes it to the renderer and replies when the      *)
(* renderer calls back, or the D-Bus library answers because the wrapper   *)
(* is gone or late.  assign_playlist() alone waits for its answer on the   *)
(* spot.  The renderer's signals are forwarded, reports of buffering at    *)
(* most once in an interval.                                               *)
(***************************************************************************)
EXTENDS Marshal, FiniteSets

CONSTANTS
  Calls,      \* bound: the calls, numbered in the order they are made
  Ops,        \* call -> the operations it may be of
  Playlists,  \* ids of playlists
  GValues,    \* values of properties and metadata
  Full,       \* a report that buffering is complete; the others are below it
  MaxEvents,  \* bound: reports and signals while no call was made
  MaxMixed,   \* bound: calls, reports and signals taken together
  Null,       \* NULL
  Text,       \* an object id, a URI, a name or a message
  Empty,      \* the string without characters
  Frozen,     \* metadata as bytes
  Domain,     \* of the renderer's errors
  Faults      \* subset of {"empty array"}: signals metadata without values

Playback == {"play", "play_object", "play_uri", "stop", "pause", "resume", "next", "previous",
             "goto_index"}
AllOps == Playback \cup {"get_status", "assign_playlist", "set_position", "get_position",
                         "get_current_metadata", "get_extension_property"}

\* 0 is MAFW_PROXY_PLAYLIST_INVALID_ID; a buffering report is a positive number.
ASSUME InstanceAssumption ==
  /\ IsFiniteSet(Calls) /\ Calls = 1 .. Cardinality(Calls) /\ Ops \in [Calls -> SUBSET AllOps]
  /\ Playlists \subseteq 1 .. UintMod - 1 /\ Full \in Nat \ {0}
  /\ {MaxEvents, MaxMixed} \subseteq Nat /\ Faults \subseteq {"empty array"}
  /\ Null \notin Calls \cup 1 .. Full /\ Text # Empty

\* The values are of types that can be sent, and a character is a signed one.
ASSUME GValuesAssumption ==
  /\ IsFiniteSet(GValues) /\ GValues # {}
  /\ \A g \in GValues :
       /\ g = [gtype |-> g.gtype, val |-> g.val] /\ Sendable(g)
       /\ g.gtype = "CHAR" => g.val \in -(CharMod \div 2) .. (CharMod \div 2) - 1

VARIABLES
  service,   \* exported, unexported, or gone with its process
  working,   \* calls the renderer works on
  done,      \* history: call -> the outcome the renderer gave it
  timer,     \* the interval after a report of buffering has not passed
  last_state,
  reported,  \* history: the renderer's last report since its state changed
  gone,      \* playlists that were destroyed
  toWrapper, \* calls under way
  toApp,     \* answers and signals under way
  request,   \* call -> its operation and arguments
  pending,   \* calls that wait for an answer
  blocked,   \* the call the application waits for on the spot
  lost,      \* history: calls that the D-Bus library answered
  told,      \* call -> what its caller was told
  held,      \* the application has a reference to the proxy
  refs,      \* references to the proxy
  misused,   \* history: calls told through a proxy that was disposed of
  unasked,   \* history: calls told of a playlist the daemon could not be asked about
  shown,     \* history: the last report seen since the state was seen to change
  events     \* calls, reports and signals so far

wrapper == <<service, working, done, timer, last_state, reported>>
proxy == <<request, pending, blocked, lost, told, held, refs, misused, unasked,
           shown>>
vars == <<wrapper, gone, toWrapper, toApp, proxy, events>>

Init ==
  /\ service = "exported" /\ working = {}
  /\ done = [c \in Calls |-> Null]
  /\ timer = FALSE /\ last_state = 0 /\ reported = Null
  /\ gone = {}
  /\ toWrapper = <<>> /\ toApp = <<>>
  /\ request = [c \in Calls |-> Null]
  /\ pending = {} /\ blocked = Null /\ lost = {}
  /\ told = [c \in Calls |-> Null]
  /\ held = TRUE /\ refs = 1 /\ misused = {} /\ unasked = {}
  /\ shown = Null /\ events = 0

-----------------------------------------------------------------------------
(* What the messages hold *)

NullToEmpty(s) == IF s = Null THEN Empty ELSE s
EmptyToNull(s) == IF s = Empty THEN Null ELSE s

Want(type) == [arg |-> "basic", type |-> type]

\* Mutant: the wrapper reads an index as a signed number.
RequestWants_int(op) ==
  CASE op \in {"play_object", "play_uri", "get_extension_property"} -> <<Want("s")>>
    [] op \in {"goto_index", "set_position"} -> <<Want("i")>>
    [] op = "assign_playlist" -> <<Want("u")>>
    [] OTHER -> <<>>

\* What the wrapper parses.
RequestWants(op) ==
  CASE op \in {"play_object", "play_uri", "get_extension_property"} -> <<Want("s")>>
    [] op \in {"goto_index", "assign_playlist"} -> <<Want("u")>>
    [] op = "set_position" -> <<Want("i"), Want("i")>>
    [] OTHER -> <<>>

\* The values a renderer may answer with; status is playlist, index, state, object.
Results(op) ==
  CASE op = "get_status" ->
         {<<p, 0, 1, o>> : p \in Playlists \cup {0}, o \in {Null, Text}}
    [] op \in {"set_position", "get_position"} -> {<<-1>>}
    [] op = "get_current_metadata" -> {<<o, Frozen>> : o \in {Null, Text}}
    [] op = "get_extension_property" -> {<<Text, g>> : g \in GValues}
    [] OTHER -> {<<>>}

\* What the wrapper replies.
ReplyArgs(op, vals) ==
  CASE op = "get_status" ->
         <<Basic("u", vals[1]), Basic("u", vals[2]), Basic("i", vals[3]),
           Basic("s", NullToEmpty(vals[4]))>>
    [] op \in {"set_position", "get_position"} -> <<Basic("u", vals[1])>>
    [] op = "get_current_metadata" -> <<Basic("s", NullToEmpty(vals[1])), Array("y", vals[2])>>
    [] op = "get_extension_property" -> <<Basic("s", vals[1]), GValue(vals[2])>>
    [] OTHER -> <<>>

\* What the proxy parses of each reply.
StatusWants == <<Want("u"), Want("u"), Want("i"), Want("s")>>
PositionWants == <<Want("u")>>
MetadataWants == <<Want("s"), [arg |-> "array", type |-> "y"]>>
PropertyWants == <<Want("s"), [arg |-> "gvalue"]>>

ReplyWants(op) ==
  CASE op = "get_status" -> StatusWants
    [] op \in {"set_position", "get_position"} -> PositionWants
    [] op = "get_current_metadata" -> MetadataWants
    [] op = "get_extension_property" -> PropertyWants
    [] OTHER -> <<>>

\* Mutant: a position stays the unsigned number it was sent as.
Callback_unsigned(op, vals, playlist) ==
  CASE op = "get_status" -> <<playlist, vals[2], vals[3], EmptyToNull(vals[4])>>
    [] op = "get_current_metadata" -> <<EmptyToNull(vals[1]), vals[2]>>
    [] OTHER -> vals

\* What the proxy hands to the caller's function; of a status, the playlist is the
\* one that was found for its id.
Callback(op, vals, playlist) ==
  CASE op = "get_status" -> <<playlist, vals[2], vals[3], EmptyToNull(vals[4])>>
    [] op \in {"set_position", "get_position"} -> <<Signed(vals[1], UintMod)>>
    [] op = "get_current_metadata" -> <<EmptyToNull(vals[1]), vals[2]>>
    [] OTHER -> vals

\* A renderer's error; its code is an int, and its text may hold a colon.
Failure == [domain |-> Domain, code |-> -1, message |-> <<Word("at"), Colon, Word("0")>>]
Success(vals) == [error |-> Null, vals |-> vals]
Failed(error) == [error |-> error, vals |-> <<>>]

Lookup(playlist, error) == [playlist |-> playlist, error |-> error]

\* What the playlist manager may find for an id: its object, which it may keep for a
\* while after the playlist was destroyed; none, if the daemon knows none; and none,
\* with an error, if the daemon cannot be asked.
get_playlist(id) ==
  IF id = 0 THEN {Lookup(0, Null)}
  ELSE {Lookup(id, Null), Lookup(0, Failure)} \cup
       (IF id \in gone THEN {Lookup(0, Null)} ELSE {})

-----------------------------------------------------------------------------
(* Messages *)

Call(c, op, args) == [call |-> c, op |-> op, args |-> args,
                      items |-> clever_append_valist(args).items]

mafw_dbus_reply(c, op, vals) ==
  [type |-> "reply", call |-> c, args |-> ReplyArgs(op, vals),
   items |-> clever_append_valist(ReplyArgs(op, vals)).items]

mafw_dbus_gerror(c, error) == [type |-> "error", call |-> c, error |-> mafw_dbus_error(error)]

Answer(c, op, outcome) ==
  IF outcome.error = Null THEN mafw_dbus_reply(c, op, outcome.vals)
  ELSE mafw_dbus_gerror(c, outcome.error)

\* The D-Bus library's answer to a call.
NoReply(c) == [type |-> "error", call |-> c, error |-> DBusError]

mafw_dbus_signal(member, args) ==
  [type |-> "signal", member |-> member, args |-> args,
   items |-> clever_append_valist(args).items]

Answers(m, c) == m.type # "signal" /\ m.call = c
Answered(c) == \E k \in DOMAIN toApp : Answers(toApp[k], c)

-----------------------------------------------------------------------------
(* Calls of the application *)

\* assign_playlist() and get_extension_property() take no reference to the proxy.
Referenced(op) == op \notin {"assign_playlist", "get_extension_property"}

\* The bus answers a call to a name nobody owns.
CallRenderer(c, op, args) ==
  /\ op \in Ops[c] /\ blocked = Null /\ held /\ events < MaxMixed
  /\ events' = events + 1
  /\ request[c] = Null /\ \A d \in 1 .. c - 1 : request[d] # Null
  /\ request' = [request EXCEPT ![c] = [op |-> op, args |-> args]]
  /\ pending' = pending \cup {c}
  /\ blocked' = IF op = "assign_playlist" THEN c ELSE Null
  /\ refs' = IF Referenced(op) THEN refs + 1 ELSE refs
  /\ IF service = "exported"
     THEN toWrapper' = Append(toWrapper, Call(c, op, args)) /\ UNCHANGED <<toApp, lost>>
     ELSE toApp' = Append(toApp, NoReply(c)) /\ lost' = lost \cup {c} /\ UNCHANGED toWrapper
  /\ UNCHANGED <<wrapper, gone, told, held, misused, unasked, shown>>

play(c) == CallRenderer(c, "play", <<>>)
play_object(c) == CallRenderer(c, "play_object", <<Basic("s", Text)>>)
play_uri(c) == CallRenderer(c, "play_uri", <<Basic("s", Text)>>)
stop(c) == CallRenderer(c, "stop", <<>>)
pause(c) == CallRenderer(c, "pause", <<>>)
resume(c) == CallRenderer(c, "resume", <<>>)
get_status(c) == CallRenderer(c, "get_status", <<>>)
assign_playlist(c) ==
  \E p \in Playlists \cup {0} : CallRenderer(c, "assign_playlist", <<Basic("u", p)>>)
next(c) == CallRenderer(c, "next", <<>>)
previous(c) == CallRenderer(c, "previous", <<>>)
goto_index(c) == CallRenderer(c, "goto_index", <<Basic("u", UintMod - 1)>>)
set_position(c) == CallRenderer(c, "set_position", <<Basic("i", 0), Basic("i", -1)>>)
get_position(c) == CallRenderer(c, "get_position", <<>>)
get_current_metadata(c) == CallRenderer(c, "get_current_metadata", <<>>)
get_extension_property(c) == CallRenderer(c, "get_extension_property", <<Basic("s", Text)>>)

\* The application or its registry gives up the proxy.
Release ==
  /\ blocked = Null /\ held
  /\ held' = FALSE /\ refs' = refs - 1
  /\ UNCHANGED <<wrapper, gone, toWrapper, toApp, request, pending, blocked, lost, told,
                 misused, unasked, shown, events>>

\* The D-Bus library gives up waiting.
Timeout(c) ==
  /\ c \in pending /\ ~Answered(c) /\ blocked \in {Null, c}
  /\ toApp' = Append(toApp, NoReply(c))
  /\ lost' = lost \cup {c}
  /\ UNCHANGED <<wrapper, gone, toWrapper, request, pending, blocked, told, held, refs, misused,
                 unasked, shown, events>>

-----------------------------------------------------------------------------
(* Answers at the application *)

\* What the proxy reads in a reply.
ReplyVals(op, m) == clever_parse_valist(ReplyWants(op), m.items).vals

\* What an answer to an operation says.
Outcome(op, m, playlist) ==
  IF m.type = "error" THEN Failed(mafw_dbus_error_to_gerror(Domain, m.error))
  ELSE Success(Callback(op, ReplyVals(op, m), playlist))

\* The playlist manager is asked for the playlist of a status.
Lookups(op, m) ==
  IF op = "get_status" /\ m.type = "reply" THEN get_playlist(ReplyVals(op, m)[1])
  ELSE {Lookup(0, Null)}

\* Mutant: the parameters of a call that failed are not freed.
Freed_on_success(c, m) == IF Referenced(request[c].op) /\ m.type = "reply" THEN 1 ELSE 0

\* The reference that is given back with the parameters of a call.
Freed(c, m) == IF Referenced(request[c].op) THEN 1 ELSE 0

\* The error of the lookup is dropped: the caller is told no playlist, and no error.
Told(c, m) ==
  /\ \E found \in Lookups(request[c].op, m) :
       /\ told' = [told EXCEPT ![c] = Outcome(request[c].op, m, found.playlist)]
       /\ unasked' = IF found.error = Null THEN unasked ELSE unasked \cup {c}
  /\ pending' = pending \ {c}
  /\ refs' = refs - Freed(c, m)
  /\ misused' = IF refs = 0 THEN misused \cup {c} ELSE misused

\* Mutant: answers for a proxy that is gone are dropped.
DispatchAnswer_held ==
  /\ blocked = Null
  /\ toApp # <<>> /\ Head(toApp).type # "signal"
  /\ toApp' = Tail(toApp)
  /\ LET m == Head(toApp)
     IN  IF m.call \in pending /\ refs > 0 THEN Told(m.call, m)
         ELSE UNCHANGED <<told, pending, refs, misused, unasked>>
  /\ UNCHANGED <<wrapper, gone, toWrapper, request, blocked, lost, held, shown, events>>

\* Answers that come too late are dropped.
DispatchAnswer ==
  /\ blocked = Null
  /\ toApp # <<>> /\ Head(toApp).type # "signal"
  /\ toApp' = Tail(toApp)
  /\ LET m == Head(toApp)
     IN  IF m.call \in pending THEN Told(m.call, m)
         ELSE UNCHANGED <<told, pending, refs, misused, unasked>>
  /\ UNCHANGED <<wrapper, gone, toWrapper, request, blocked, lost, held, shown, events>>

\* assign_playlist() takes its answer from among what waits to be dispatched.
AssignReturns ==
  /\ blocked # Null /\ Answered(blocked)
  /\ LET IsAnswer(m) == Answers(m, blocked)
         k == SelectInSeq(toApp, IsAnswer)
     IN  Told(blocked, toApp[k]) /\ toApp' = RemoveAt(toApp, k)
  /\ blocked' = Null
  /\ UNCHANGED <<wrapper, gone, toWrapper, request, lost, held, shown, events>>

\* What the proxy parses of a signal.
SignalWants(member) ==
  CASE member = "state_changed" -> <<Want("i")>>
    [] member = "playlist_changed" -> <<Want("u")>>
    [] member = "media_changed" -> <<Want("i"), Want("s")>>
    [] member = "buffering_info" -> <<Want("d")>>
    [] member = "metadata_changed" -> <<Want("s"), [arg |-> "gvaluearray"]>>
    [] member = "property_changed" -> <<Want("s"), [arg |-> "gvalue"]>>
    [] member = "error" -> <<Want("s"), Want("i"), Want("s")>>

\* Signals are passed on while the proxy's object path is registered.
DispatchSignal ==
  /\ blocked = Null
  /\ toApp # <<>> /\ Head(toApp).type = "signal"
  /\ toApp' = Tail(toApp)
  /\ LET m == Head(toApp)
     IN  shown' = CASE refs > 0 /\ m.member = "state_changed" -> Null
                    [] refs > 0 /\ m.member = "buffering_info" ->
                         clever_parse_valist(SignalWants(m.member), m.items).vals[1]
                    [] OTHER -> shown
  /\ UNCHANGED <<wrapper, gone, toWrapper, request, pending, blocked, lost, told, held, refs,
                 misused, unasked, events>>

-----------------------------------------------------------------------------
(* The wrapper *)

\* The renderer works on a call until it calls back.
StartWork ==
  /\ service = "exported" /\ toWrapper # <<>> /\ Head(toWrapper).op # "assign_playlist"
  /\ working' = working \cup {Head(toWrapper).call}
  /\ toWrapper' = Tail(toWrapper)
  /\ UNCHANGED <<service, done, timer, last_state, reported, gone, toApp, proxy, events>>

\* What becomes of an assignment.  A playlist that does not exist is no error: the
\* renderer is then given none.  It may refuse what it is given.
Assignments(id) ==
  {Success(<<found.playlist>>) : found \in {l \in get_playlist(id) : l.error = Null}}
    \cup {Failed(Failure)}

AssignPlaylist ==
  /\ service = "exported" /\ toWrapper # <<>> /\ Head(toWrapper).op = "assign_playlist"
  /\ toWrapper' = Tail(toWrapper)
  /\ LET c == Head(toWrapper).call
         id == clever_parse_valist(RequestWants("assign_playlist"), Head(toWrapper).items).vals[1]
     IN  \E outcome \in Assignments(id) :
           /\ done' = [done EXCEPT ![c] = outcome]
           /\ toApp' = Append(toApp, Answer(c, "assign_playlist", outcome))
  /\ UNCHANGED <<service, working, timer, last_state, reported, gone, proxy, events>>

\* No object path is left that handles the call.
UnknownMethod ==
  /\ service = "unexported" /\ toWrapper # <<>>
  /\ toWrapper' = Tail(toWrapper)
  /\ LET c == Head(toWrapper).call
     IN  /\ toApp' = Append(toApp, NoReply(c))
         /\ lost' = IF c \in pending THEN lost \cup {c} ELSE lost
  /\ UNCHANGED <<wrapper, gone, request, pending, blocked, told, held, refs, misused,
                 unasked, shown, events>>

\* The renderer calls back, and its answer is sent.
Complete(c) ==
  /\ c \in working
  /\ working' = working \ {c}
  /\ \E outcome \in {Success(vals) : vals \in Results(request[c].op)} \cup {Failed(Failure)} :
       /\ done' = [done EXCEPT ![c] = outcome]
       /\ toApp' = Append(toApp, Answer(c, request[c].op, outcome))
  /\ UNCHANGED <<service, timer, last_state, reported, gone, toWrapper, proxy, events>>

Bounded == events < IF request[1] = Null THEN MaxEvents ELSE MaxMixed

Emit(member, args) == toApp' = Append(toApp, mafw_dbus_signal(member, args))
emit_buffering_info(status) == Emit("buffering_info", <<Basic("d", status)>>)

\* Mutant: reports within the interval are not remembered.
buffering_info_forgets(status) ==
  /\ service = "exported" /\ Bounded
  /\ events' = events + 1
  /\ reported' = status
  /\ IF ~timer THEN timer' = TRUE /\ emit_buffering_info(status) /\ last_state' = status
     ELSE IF status = Full
     THEN timer' = FALSE /\ emit_buffering_info(status) /\ last_state' = status
     ELSE UNCHANGED <<timer, toApp, last_state>>
  /\ UNCHANGED <<service, working, done, gone, toWrapper, proxy>>

\* A report within the interval is only remembered, but for the last one.  (The code's
\* test that a report is not 100.0 is always true: no report is above Full, which is 1.0.)
buffering_info(status) ==
  /\ service = "exported" /\ Bounded
  /\ events' = events + 1
  /\ reported' = status /\ last_state' = status
  /\ IF ~timer THEN timer' = TRUE /\ emit_buffering_info(status)
     ELSE IF status = Full THEN timer' = FALSE /\ emit_buffering_info(status)
     ELSE UNCHANGED <<timer, toApp>>
  /\ UNCHANGED <<service, working, done, gone, toWrapper, proxy>>

emit_buffering_info_tout ==
  /\ timer
  /\ timer' = FALSE
  /\ emit_buffering_info(last_state)
  /\ UNCHANGED <<service, working, done, last_state, reported, gone, toWrapper, proxy, events>>

\* Mutant: the timer is left running.
remove_buffering_tout_not == UNCHANGED <<timer, last_state>>

remove_buffering_tout ==
  /\ timer' = FALSE
  /\ last_state' = IF timer THEN 0 ELSE last_state

state_changed ==
  /\ service = "exported" /\ Bounded
  /\ events' = events + 1
  /\ remove_buffering_tout
  /\ reported' = Null
  /\ Emit("state_changed", <<Basic("i", 2)>>)
  /\ UNCHANGED <<service, working, done, gone, toWrapper, proxy>>

\* A signal that is forwarded as it is; bound: when nothing else is under way, which
\* what it holds does not depend on.
Forward(member, args) ==
  /\ service = "exported" /\ Bounded /\ toApp = <<>>
  /\ events' = events + 1
  /\ Emit(member, args)
  /\ UNCHANGED <<wrapper, gone, toWrapper, proxy>>

playlist_changed ==
  \E p \in Playlists \cup {0} : Forward("playlist_changed", <<Basic("u", p)>>)

media_changed ==
  \E o \in {Null, Text} : Forward("media_changed", <<Basic("i", -1), Basic("s", NullToEmpty(o))>>)

metadata_changed ==
  \E gs \in {SetToSeq(GValues)} \cup (IF "empty array" \in Faults THEN {<<>>} ELSE {}) :
    Forward("metadata_changed", <<Basic("s", Text), GValueArray(gs)>>)

property_changed ==
  \E g \in GValues : Forward("property_changed", <<Basic("s", Text), GValue(g)>>)

error == Forward("error", <<Basic("s", Domain), Basic("i", -1), Basic("s", Text)>>)

\* The renderer leaves the wrapper's registry; it may still call back.
Unexport ==
  /\ service = "exported"
  /\ service' = "unexported"
  /\ remove_buffering_tout
  /\ UNCHANGED <<working, done, reported, gone, toWrapper, toApp, proxy, events>>

\* The wrapper ends, and the bus answers what it has not answered.
Crash ==
  /\ service # "gone"
  /\ service' = "gone" /\ working' = {} /\ timer' = FALSE /\ toWrapper' = <<>>
  /\ LET unanswered == {c \in pending : ~Answered(c)}
     IN  /\ toApp' = toApp \o [k \in 1 .. Cardinality(unanswered) |-> NoReply(SetToSeq(unanswered)[k])]
         /\ lost' = lost \cup unanswered
  /\ UNCHANGED <<done, last_state, reported, gone, request, pending, blocked, told, held, refs,
                 misused, unasked, shown, events>>

Destroy(p) ==
  /\ p \notin gone
  /\ gone' = gone \cup {p}
  /\ UNCHANGED <<wrapper, toWrapper, toApp, proxy, events>>

-----------------------------------------------------------------------------

Request(c) ==
  \/ play(c) \/ play_object(c) \/ play_uri(c) \/ stop(c) \/ pause(c) \/ resume(c)
  \/ get_status(c) \/ assign_playlist(c) \/ next(c) \/ previous(c) \/ goto_index(c)
  \/ set_position(c) \/ get_position(c) \/ get_current_metadata(c)
  \/ get_extension_property(c)

Next ==
  \/ \E c \in Calls : Request(c) \/ Timeout(c) \/ Complete(c)
  \/ Release \/ DispatchAnswer \/ AssignReturns \/ DispatchSignal
  \/ StartWork \/ AssignPlaylist \/ UnknownMethod
  \/ \E status \in 1 .. Full : buffering_info(status)
  \/ emit_buffering_info_tout \/ state_changed
  \/ playlist_changed \/ media_changed \/ metadata_changed \/ property_changed \/ error
  \/ Unexport \/ Crash
  \/ \E p \in Playlists : Destroy(p)

\* The application's main loop runs, and calls time out; nothing is expected of
\* the wrapper and the renderer.
Fairness ==
  /\ WF_vars(DispatchAnswer \/ DispatchSignal \/ AssignReturns)
  /\ WF_vars(\E c \in Calls : Timeout(c))

Spec == Init /\ [][Next]_vars /\ Fairness

-----------------------------------------------------------------------------
(* Properties *)

\* The types; the timer runs only for an exported renderer, whose export it uses,
\* and what the renderer works on was asked for.
TypeOK ==
  /\ service \in {"exported", "unexported", "gone"}
  /\ timer => service = "exported"
  /\ last_state \in 0 .. Full /\ {reported, shown} \subseteq (1 .. Full) \cup {Null}
  /\ working \subseteq {c \in Calls : request[c] # Null /\ done[c] = Null}
  /\ pending = {c \in Calls : request[c] # Null /\ told[c] = Null}
  /\ blocked \in pending \cup {Null}
  /\ lost \subseteq {c \in Calls : request[c] # Null}
  /\ refs \in Nat /\ gone \subseteq Playlists
  /\ unasked \subseteq {c \in Calls : told[c] # Null /\ request[c].op = "get_status"}

\* How C takes a value that is sent.
Received(a) ==
  CASE a.arg = "gvaluearray" -> a.vals
    [] a.arg = "basic" /\ a.type = "u" -> Unsigned(a.val, UintMod)
    [] OTHER -> a.val

Carries(m, wants) ==
  LET parsed == clever_parse_valist(wants, m.items)
  IN  ~parsed.dies /\ parsed.vals = [k \in DOMAIN m.args |-> Received(m.args[k])]

\* Whoever parses a message finds in it what the sender put there: what the two
\* sides say of each call, reply and signal agrees, or a process would abort.
MessagesParse ==
  /\ \A k \in DOMAIN toWrapper : Carries(toWrapper[k], RequestWants(toWrapper[k].op))
  /\ \A k \in DOMAIN toApp :
       LET m == toApp[k]
       IN  /\ m.type = "reply" => Carries(m, ReplyWants(request[m.call].op))
           /\ m.type = "signal" => Carries(m, SignalWants(m.member))

\* The proxy lives as long as somebody has it or a call waits for its answer, and no
\* longer; only get_extension_property() may call back with one that is gone.
RefsAreHolders ==
  /\ refs = (IF held THEN 1 ELSE 0) + Cardinality({c \in pending : Referenced(request[c].op)})
  /\ \A c \in misused : request[c].op = "get_extension_property"

\* The outcome, as a caller may be told it: a status without its playlist, if that was
\* destroyed in between or nobody could be asked about it.
MayBeTold(op, outcome, noneAsked) ==
  {outcome} \cup
    (IF /\ op = "get_status" /\ outcome.error = Null
        /\ noneAsked \/ outcome.vals[1] \in gone
     THEN {Success([outcome.vals EXCEPT ![1] = 0])} ELSE {})

\* A caller is told what the renderer made of its very call, negative positions and
\* codes and texts with colons included, or that the renderer cannot be reached if
\* the D-Bus library said so, and no late answer changes that.  A status is told with
\* its playlist, but for one that is gone and for a call whose lookup of the playlist
\* failed: there the code tells of no playlist and of no error.
OutcomeIsTrue ==
  \A c \in Calls : told[c] # Null =>
    IF c \in lost THEN told[c].error # Null /\ told[c].error.code = NotAvailable
    ELSE /\ done[c] # Null
         /\ IF request[c].op = "assign_playlist"
            THEN /\ told[c].error = done[c].error
                 /\ told[c].error = Null =>
                      done[c].vals[1] \in {request[c].args[1].val} \cup
                                           (IF request[c].args[1].val \in gone THEN {0} ELSE {})
            ELSE told[c] \in MayBeTold(request[c].op, done[c], c \in unasked)

\* What the application will have seen of the buffering when all signals under way
\* are dispatched.
View ==
  LET Matters(m) == m.type = "signal" /\ m.member \in {"buffering_info", "state_changed"}
      k == SelectLastInSeq(toApp, Matters)
  IN  IF k = 0 THEN shown
      ELSE IF toApp[k].member = "state_changed" THEN Null
      ELSE toApp[k].args[1].val

\* The throttle loses no last word: outside an interval the application's view is
\* the renderer's last report, the completion gets through within it too, and a
\* report from before a change of state never follows the change.
ShownIsReported ==
  service = "exported" /\ refs > 0 =>
    /\ ~timer \/ reported = Full => View = reported
    /\ reported = Null => View = Null

\* Every caller is told something in the end, whatever becomes of the wrapper and
\* the renderer, and of the proxy.
CallsAnswered ==
  \A c \in Calls : request[c] # Null ~> told[c] # Null
=============================================================================
