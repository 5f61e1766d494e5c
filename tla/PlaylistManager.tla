---------------------------- MODULE PlaylistManager ----------------------------
(***************************************************************************)
(* The playlist manager of each application                                *)
(* (libmafw-shared/mafw-playlist-manager.c), which keeps one object for    *)
(* every playlist it has met, against the playlist daemon                  *)
(* (mafw-playlist-daemon/playlist-manager-wrapper.c) that owns them.       *)
(*                                                                         *)
(* Calls block the application: what the daemon signals meanwhile waits in *)
(* the connection, so a reply overtakes the signals sent before it.        *)
(* Names are left out: a name a call gives is new or that of some playlist.*)
(***************************************************************************)
EXTENDS Integers, Sequences, FiniteSets, FiniteSetsExt, SequencesExt

CONSTANTS
  Apps,       \* applications, each with its manager
  MaxId,      \* bound: playlists
  MaxRefs,    \* bound: references of an application to an object
  MaxQueue,   \* bound: signals and requests under way
  MaxRestarts \* bound: restarts of the daemon

ASSUME ManagerAssumption ==
  /\ MaxId \in Nat /\ MaxRefs \in Nat /\ MaxQueue \in Nat /\ MaxRestarts \in Nat

Ids == 1 .. MaxId

VARIABLES
  \* the daemon
  live,      \* Playlists: the ids there are
  Last_id,   \* the last id given
  restarts,
  \* the bus
  requests,  \* what each application has sent and the daemon not handled
  reply,     \* the reply an application has not seen yet
  signals,   \* signals for each application
  \* the applications and their managers
  call,      \* the call each application waits for
  playlists, \* ids of the objects in .playlists
  refs,      \* references an application has to them
  old,       \* ids of objects it has though .playlists lost them
  \* history
  made,      \* ids of playlists created
  announced, \* how often each application got playlist_created of an id
  gone       \* ids that left .playlists

daemon == <<live, Last_id, restarts>>
bus == <<requests, reply, signals>>
manager == <<call, playlists, refs, old>>
history == <<made, announced, gone>>
vars == <<daemon, bus, manager, history>>

NoCall == [op |-> "none"]
NoReply == [ok |-> FALSE, ids |-> <<>>, at |-> "none"]

\* The daemon may have playlists when the applications start.
Init ==
  /\ Last_id \in 0 .. MaxId
  /\ live \in SUBSET (1 .. Last_id)
  /\ restarts = 0
  /\ requests = [a \in Apps |-> <<>>]
  /\ reply = [a \in Apps |-> NoReply]
  /\ signals = [a \in Apps |-> <<>>]
  /\ call = [a \in Apps |-> NoCall]
  /\ playlists = [a \in Apps |-> <<>>]
  /\ refs = [a \in Apps |-> [i \in Ids |-> 0]]
  /\ old = [a \in Apps |-> {}]
  /\ made = {}
  /\ announced = [a \in Apps |-> [i \in Ids |-> 0]]
  /\ gone = [a \in Apps |-> {}]

Known(a) == ToSet(playlists[a])

\* The elements of a set of numbers in ascending order: the one such sequence.
InOrder(S) ==
  {s \in [1 .. Cardinality(S) -> S] : \A i, j \in DOMAIN s : i < j => s[i] < s[j]}

-----------------------------------------------------------------------------
(* The daemon: request().  It handles the requests of one sender in order. *)

Broadcast(signal, id) ==
  signals' = [a \in Apps |-> Append(signals[a], [type |-> signal, id |-> id])]

\* Every request makes at most one signal.
Room ==
  \A a \in Apps : Len(signals[a]) + MapThenSumSet(LAMBDA b : Len(requests[b]), Apps) < MaxQueue

Answer(a, ok, ids) == reply' = [reply EXCEPT ![a] = [ok |-> ok, ids |-> ids, at |-> "app"]]

\* A playlist is made and announced ...
Made ==
  /\ Last_id < MaxId
  /\ Last_id' = Last_id + 1
  /\ live' = live \cup {Last_id'}
  /\ made' = made \cup {Last_id'}
  /\ Broadcast("playlist_created", Last_id')

\* ... and only then the call answered.
Make(a) == Made /\ Answer(a, TRUE, <<Last_id'>>)

\* Mutant: a playlist that exists is announced again.
Handle_create_announces(a) ==
  \/ Make(a)
  \/ \E id \in live :
       /\ Answer(a, TRUE, <<id>>)
       /\ Broadcast("playlist_created", id)
       /\ UNCHANGED <<live, Last_id, made>>

\* create_playlist: a playlist that has the name is returned.  An empty name is
\* an error.
Handle_create(a) ==
  \/ Make(a)
  \/ \E id \in live :
       Answer(a, TRUE, <<id>>) /\ UNCHANGED <<live, Last_id, made, signals>>
  \/ Answer(a, FALSE, <<>>) /\ UNCHANGED <<live, Last_id, made, signals>>

\* dup_playlist: an error if the playlist is gone or the name taken.
Handle_dup(a, id) ==
  \/ id \in live /\ Make(a)
  \/ Answer(a, FALSE, <<>>) /\ UNCHANGED <<live, Last_id, made, signals>>

\* list_playlists, of all or of one: the tree is walked in the order of ids.
Listed(ids) == InOrder(ids \cap live)

Handle_list(a, ids) ==
  /\ \E list \in Listed(ids) : Answer(a, TRUE, list)
  /\ UNCHANGED <<live, Last_id, made, signals>>

\* Mutant: the destruction is not announced.
Handle_destroy_silent(id) ==
  /\ live' = live \ {id}
  /\ UNCHANGED signals

\* destroy_playlist, which has no reply: a playlist in use stays.
Handle_destroy(id) ==
  \/ id \in live /\ live' = live \ {id} /\ Broadcast("playlist_destroyed", id)
  \/ id \in live /\ Broadcast("playlist_destruction_failed", id) /\ UNCHANGED live
  \/ id \notin live /\ UNCHANGED <<live, signals>>

Handle(a) ==
  /\ requests[a] # <<>>
  /\ requests' = [requests EXCEPT ![a] = Tail(@)]
  /\ LET r == Head(requests[a])
     IN  \/ r.op = "create" /\ Handle_create(a)
         \/ r.op = "dup" /\ Handle_dup(a, r.id)
         \/ r.op = "get" /\ Handle_list(a, {r.id})
         \/ r.op \in {"list", "refetch"} /\ Handle_list(a, Ids)
         \/ r.op = "destroy" /\ Handle_destroy(r.id)
              /\ UNCHANGED <<reply, Last_id, made>>
  /\ UNCHANGED <<restarts, manager, announced, gone>>

\* Applications that are not followed here make and destroy playlists, too.
Others ==
  /\ Room
  /\ \/ Made
     \/ \E id \in live : Handle_destroy(id) /\ UNCHANGED <<Last_id, made>>
  /\ UNCHANGED <<restarts, requests, reply, manager, announced, gone>>

\* The daemon ends and is started again: playlists it had not saved are lost,
\* calls it had not answered fail, and the bus tells the managers.
Restart ==
  /\ restarts < MaxRestarts /\ Room
  /\ restarts' = restarts + 1
  /\ \E kept \in SUBSET live :
       /\ live' = kept
       /\ Last_id' = Max(kept \cup {0})
  /\ requests' = [a \in Apps |-> <<>>]
  /\ reply' = [a \in Apps |->
                 IF call[a] # NoCall /\ reply[a] = NoReply
                 THEN [ok |-> FALSE, ids |-> <<>>, at |-> "app"] ELSE reply[a]]
  /\ Broadcast("NameOwnerChanged", 0)
  /\ UNCHANGED <<manager, history>>

-----------------------------------------------------------------------------
(* The manager's functions.                                                *)

Free(a) == call[a] = NoCall
Sent(a, op, id) == requests' = [requests EXCEPT ![a] = Append(@, [op |-> op, id |-> id])]
Call(a, op, id) ==
  /\ call' = [call EXCEPT ![a] = [op |-> op, id |-> id]]
  /\ Sent(a, op, id)

create_playlist(a) ==
  /\ Free(a) /\ Room /\ Call(a, "create", 0)
  /\ UNCHANGED <<daemon, reply, signals, playlists, refs, old, history>>

dup_playlist(a, id) ==
  /\ Free(a) /\ (refs[a][id] > 0 \/ id \in old[a])
  /\ Room /\ Call(a, "dup", id)
  /\ UNCHANGED <<daemon, reply, signals, playlists, refs, old, history>>

\* The object is in .playlists, or the daemon is asked.
get_playlist(a, id) ==
  /\ Free(a)
  /\ \/ /\ id \in Known(a)
        /\ refs[a][id] < MaxRefs
        /\ refs' = [refs EXCEPT ![a][id] = @ + 1]
        /\ UNCHANGED <<call, requests>>
     \/ id \notin Known(a) /\ Room /\ Call(a, "get", id) /\ UNCHANGED refs
  /\ UNCHANGED <<daemon, reply, signals, playlists, old, history>>

get_playlists(a) ==
  /\ Free(a) /\ Room /\ Call(a, "list", 0)
  /\ UNCHANGED <<daemon, reply, signals, playlists, refs, old, history>>

\* The application gives up a reference.
Dropped(a, id) ==
  \/ refs[a][id] > 0 /\ refs' = [refs EXCEPT ![a][id] = @ - 1] /\ UNCHANGED old
  \/ id \in old[a] /\ old' = [old EXCEPT ![a] = @ \ {id}] /\ UNCHANGED refs

\* It sends the request and takes the caller's reference.
destroy_playlist(a, id) ==
  /\ Free(a) /\ Dropped(a, id)
  /\ Room /\ Sent(a, "destroy", id)
  /\ UNCHANGED <<daemon, reply, signals, call, playlists, history>>

Unref(a, id) ==
  /\ Free(a) /\ Dropped(a, id)
  /\ UNCHANGED <<daemon, bus, call, playlists, history>>

\* register_playlist(): one object for an id.
Registered(pls, id) == IF id \in ToSet(pls) THEN pls ELSE Append(pls, id)

\* Mutant: the object is made whether or not the daemon has the playlist.
Found_always(a) == <<call[a].id>>

\* What the reply to get_playlist() tells: the id, if the daemon listed it.
Found(a) == reply[a].ids

\* The reply of create_playlist(), dup_playlist() or get_playlist() arrives, with
\* a reference.  An application with MaxRefs of them gives it back at once.
GotPlaylist(a) ==
  /\ reply[a] # NoReply /\ call[a].op \in {"create", "dup", "get"}
  /\ LET ids == IF call[a].op = "get" /\ reply[a].ok THEN Found(a) ELSE reply[a].ids
     IN  IF ids = <<>> THEN UNCHANGED <<playlists, refs>>
         ELSE /\ playlists' = [playlists EXCEPT ![a] = Registered(@, ids[1])]
              /\ refs' = [refs EXCEPT ![a][ids[1]] = Min({@ + 1, MaxRefs})]
  /\ reply' = [reply EXCEPT ![a] = NoReply]
  /\ call' = [call EXCEPT ![a] = NoCall]
  /\ UNCHANGED <<daemon, requests, signals, old, history>>

\* The reply of get_playlists(): every playlist is registered, in the order of the
\* reply, which is that of the ids.
GotPlaylists(a) ==
  /\ reply[a] # NoReply /\ call[a].op = "list"
  /\ \E new \in InOrder(ToSet(reply[a].ids) \ Known(a)) :
       playlists' = [playlists EXCEPT ![a] = @ \o new]
  /\ reply' = [reply EXCEPT ![a] = NoReply]
  /\ call' = [call EXCEPT ![a] = NoCall]
  /\ UNCHANGED <<daemon, requests, signals, refs, old, history>>

-----------------------------------------------------------------------------
(* dbus_handler(): signals, in the application's main loop.                *)

Arrives(a, type) == Free(a) /\ signals[a] # <<>> /\ Head(signals[a]).type = type
Taken(a) == signals' = [signals EXCEPT ![a] = Tail(@)]

\* Objects leave .playlists; those the application refers to live on.
Removed(a, ids) ==
  /\ \E stays \in InOrder({k \in DOMAIN playlists[a] : playlists[a][k] \notin ids}) :
       playlists' = [playlists EXCEPT ![a] = [k \in DOMAIN stays |-> @[stays[k]]]]
  /\ refs' = [refs EXCEPT ![a] = [i \in Ids |-> IF i \in ids THEN 0 ELSE @[i]]]
  /\ old' = [old EXCEPT ![a] = @ \cup {i \in ids : refs[a][i] > 0}]

playlist_created(a) ==
  /\ Arrives(a, "playlist_created") /\ Taken(a)
  /\ LET id == Head(signals[a]).id
     IN  /\ playlists' = [playlists EXCEPT ![a] = Registered(@, id)]
         /\ announced' = [announced EXCEPT ![a][id] = @ + 1]
  /\ UNCHANGED <<daemon, requests, reply, call, refs, old, made, gone>>

playlist_destroyed(a) ==
  /\ Arrives(a, "playlist_destroyed") /\ Taken(a)
  /\ LET id == Head(signals[a]).id
     IN  Removed(a, {id}) /\ gone' = [gone EXCEPT ![a] = @ \cup {id}]
  /\ UNCHANGED <<daemon, requests, reply, call, made, announced>>

\* It is passed on to the application.
playlist_destruction_failed(a) ==
  /\ Arrives(a, "playlist_destruction_failed") /\ Taken(a)
  /\ UNCHANGED <<daemon, requests, reply, manager, history>>

\* The daemon was restarted: its playlists are asked for first ...
NameOwnerChanged(a) ==
  /\ Arrives(a, "NameOwnerChanged") /\ Taken(a)
  /\ Call(a, "refetch", 0)
  /\ UNCHANGED <<daemon, reply, playlists, refs, old, history>>

\* ... and then the loop goes over .playlists.  It compares the object at index
\* i with the i-th id it got; behind their end it reads anything (luck).  An
\* object that is removed lets the next one slip past.
Swept(pls, ids, luck) ==
  LET Stays(i, id) == IF i <= Len(ids) THEN ids[i] = id ELSE ids # <<>> /\ id \in luck
      removed[i \in 1 .. Len(pls) + 1] ==  \* objects removed before index i
        IF i = 1 THEN 0
        ELSE LET n == removed[i - 1]
                 at == i - 1 + n
             IN  n + IF at <= Len(pls) /\ ~Stays(i - 1, pls[at]) THEN 1 ELSE 0
  IN  {pls[i + removed[i]] : i \in {j \in 1 .. Len(pls) :
         j + removed[j] <= Len(pls) /\ ~Stays(j, pls[j + removed[j]])}}

Refetched(a) ==
  /\ reply[a] # NoReply /\ call[a].op = "refetch"
  /\ \/ /\ ~reply[a].ok
        /\ UNCHANGED <<playlists, refs, old, gone>>
     \/ /\ reply[a].ok
        /\ \E luck \in SUBSET Known(a) :
             LET swept == Swept(playlists[a], reply[a].ids, luck)
             IN  Removed(a, swept) /\ gone' = [gone EXCEPT ![a] = @ \cup swept]
  /\ reply' = [reply EXCEPT ![a] = NoReply]
  /\ call' = [call EXCEPT ![a] = NoCall]
  /\ UNCHANGED <<daemon, requests, signals, made, announced>>

-----------------------------------------------------------------------------
Functions(a) ==
  \/ create_playlist(a) \/ get_playlists(a)
  \/ \E id \in Ids : dup_playlist(a, id) \/ get_playlist(a, id)
                     \/ destroy_playlist(a, id) \/ Unref(a, id)

dbus_handler(a) ==
  \/ playlist_created(a) \/ playlist_destroyed(a)
  \/ playlist_destruction_failed(a) \/ NameOwnerChanged(a)

Returns(a) == GotPlaylist(a) \/ GotPlaylists(a) \/ Refetched(a)

Next ==
  \/ Restart \/ Others
  \/ \E a \in Apps : Handle(a) \/ Functions(a) \/ dbus_handler(a) \/ Returns(a)

Spec == Init /\ [][Next]_vars

-----------------------------------------------------------------------------
(* Properties *)

\* "nonexisting ones should not remain here for long times".  Until the daemon
\* is restarted, a playlist the manager still has although it is destroyed is one
\* whose destruction is on its way, whatever replies overtook it.
StaleIsOnItsWay ==
  restarts = 0 =>
    \A a \in Apps : \A id \in Known(a) \ live :
      [type |-> "playlist_destroyed", id |-> id] \in ToSet(signals[a])

\* "it is guaranteed that a playlist with a given ID is always represented by
\* the same object": until the daemon is restarted, one that left .playlists does
\* not come back, however late a reply or signal names it.
SameObject == restarts = 0 => \A a \in Apps : gone[a] \cap Known(a) = {}

\* "care is taken to inform every application exactly once about the change":
\* also those that made the playlist themselves, or met it in a reply before.
\* (After a restart an id may stand for another playlist.)
ToldOnce ==
  restarts = 0 =>
    \A a \in Apps, id \in Ids :
      announced[a][id] = IF id \in made /\ [type |-> "playlist_created", id |-> id]
                                            \notin ToSet(signals[a]) THEN 1 ELSE 0

\* "Remove each playlist (and emit a signal) from the old list which don't exist
\* in the new", after a restart of the daemon.
RemovesWhatIsGone ==
  [][\A a \in Apps : call[a].op = "refetch" /\ reply[a].ok /\ call'[a] = NoCall =>
       ToSet(playlists'[a]) = Known(a) \cap ToSet(reply[a].ids)]_vars
=============================================================================
