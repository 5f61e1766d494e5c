---------------------------- MODULE PlaylistDaemon ----------------------------
(***************************************************************************)
(* The playlists of the playlist daemon as its clients share them: the     *)
(* trees Playlists and Playlists_by_name and the requests on them          *)
(* (mafw-playlist-daemon/playlist-manager-wrapper.c), the use counts and   *)
(* who holds them (playlist-wrapper.c), and the names and ids on disk      *)
(* across restarts of the daemon.                                          *)
(*                                                                         *)
(* Clients are applications on the session bus.  What they send, and the   *)
(* bus's NameOwnerChanged when one of them goes away, is handled by the    *)
(* daemon in the order the bus routed it.  Saves may fail, and the process *)
(* may end with playlists unsaved or in .tmp files.  The contents of the   *)
(* playlists and files cut short by a kill are left to the modules         *)
(* APlaylist and PlaylistFile.                                             *)
(***************************************************************************)
EXTENDS Integers, Sequences, FiniteSets, FiniteSetsExt, Functions

CONSTANTS
  Clients, Names,
  MaxId,     \* bound: highest id handed out
  MaxUse,    \* bound: uses of a playlist one client has at a time
  MaxInbox,  \* bound: requests under way to the daemon
  UintMod,   \* a guint has the values 0 .. UintMod - 1
  Calls,     \* the requests clients make
  Faults     \* subset of AllFaults, see below

\* Endings of the daemon, saves that fail, and a daemon started elsewhere than in its
\* playlist directory; clients that end in a call or give back what is not theirs.
AllFaults == {"exit", "kill", "save", "elsewhere", "busy", "stranger"}

ASSUME InstanceAssumption ==
  /\ {MaxId, MaxUse, MaxInbox, UintMod} \subseteq Nat \ {0}
  /\ Calls \subseteq {"create", "destroy", "dup", "set_name", "increment", "decrement"}
  /\ Faults \subseteq AllFaults

VARIABLES
  up,          \* the daemon runs
  Playlists,   \* its playlists: id -> name and use_count
  by_name,     \* Playlists_by_name: name -> id
  Last_id,     \* the next id to give out
  holders,     \* _usecount_holders: client -> id -> entries in its list
  saved,       \* the names in the files of the playlist directory: id -> name
  tmp,         \* the names in its .tmp files, all of them complete: id -> name
  unsaved,     \* playlists whose dirty_timer is running
  inbox,       \* messages routed to the daemon
  connected,   \* clients on the bus; a unique name is never used again
  had,         \* history: the names of the daemon's playlists when it ended
  lost,        \* history: an ending or a start that may lose or bring back names
  mine         \* client -> id -> uses it was acknowledged and did not give back

trees == <<Playlists, by_name, Last_id>>
disk == <<saved, tmp, unsaved>>
history == <<had, lost>>
vars == <<up, trees, holders, disk, inbox, connected, history, mine>>

Ids == 1 .. MaxId
NoUse == [id \in Ids |-> 0]
Nothing == [x \in {} |-> 0]

Init ==
  /\ up = TRUE
  /\ Playlists = Nothing /\ by_name = Nothing /\ Last_id = 1
  /\ holders = [c \in Clients |-> NoUse]
  /\ saved = Nothing /\ tmp = Nothing /\ unsaved = {}
  /\ inbox = <<>>
  /\ connected = Clients
  /\ had = Nothing /\ lost = FALSE
  /\ mine = [c \in Clients |-> NoUse]

-----------------------------------------------------------------------------
(* Clients *)

Waiting(c) ==
  \E k \in DOMAIN inbox :
    inbox[k].from = c /\ inbox[k].op \in {"create", "dup", "increment", "decrement"}

\* Within the bound there is an id for one more new playlist.
Room ==
  up /\ Last_id + Cardinality({k \in DOMAIN inbox : inbox[k].op \in {"create", "dup"}}) <= MaxId

Requests(c) ==
  [op : {"create"}, from : {c}, name : Names]
    \cup [op : {"dup", "set_name"}, from : {c}, id : Ids, name : Names]
    \cup [op : {"destroy", "increment", "decrement"}, from : {c}, id : Ids]

\* A client sends a request; the calls that have a reply block it.  Unless a
\* "stranger" to the convention, it gives back only uses it has.  The bus starts
\* a daemon that does not run.
Send(c) ==
  /\ c \in connected /\ ~Waiting(c)
  /\ Len(inbox) < MaxInbox
  /\ \E m \in Requests(c) :
       /\ m.op \in Calls
       /\ m.op \in {"create", "dup"} => Room
       /\ m.op = "increment" => mine[c][m.id] < MaxUse
       /\ m.op = "decrement" => mine[c][m.id] > 0 \/ "stranger" \in Faults
       /\ inbox' = Append(inbox, m)
  /\ UNCHANGED <<up, trees, holders, disk, connected, history, mine>>

\* A client exits or crashes, in a "busy" world while a call of it is under
\* way.  The daemon hears of it if it has a match rule for that client, which
\* it has just while the client is in _usecount_holders.
Vanish(c) ==
  /\ c \in connected
  /\ ~Waiting(c) \/ "busy" \in Faults
  /\ connected' = connected \ {c}
  /\ mine' = [mine EXCEPT ![c] = NoUse]
  /\ inbox' = IF holders[c] = NoUse THEN inbox
              ELSE Append(inbox, [op |-> "NameOwnerChanged", from |-> c])
  /\ UNCHANGED <<up, trees, holders, disk, history>>

-----------------------------------------------------------------------------
(* Requests *)

Msg == Head(inbox)
Handle(op) == up /\ inbox # <<>> /\ Msg.op = op /\ inbox' = Tail(inbox)
Known(id) == id \in DOMAIN Playlists
Wrap(n) == n % UintMod

\* pls_new(Last_id++, name) and its entries in the two trees.
Added(name) ==
  LET new == [name |-> name, use_count |-> 0]
  IN  /\ Playlists' = [id \in DOMAIN Playlists \cup {Last_id} |->
                         IF id = Last_id THEN new ELSE Playlists[id]]
      /\ by_name' = [n \in DOMAIN by_name \cup {name} |->
                       IF n = name THEN Last_id ELSE by_name[n]]
      /\ Last_id' = Last_id + 1
      /\ unsaved' = unsaved \cup {Last_id}
      /\ UNCHANGED <<saved, tmp>>

\* The name of an existing playlist gives that playlist.
create ==
  /\ Handle("create")
  /\ IF Msg.name \in DOMAIN by_name THEN UNCHANGED <<trees, disk>> ELSE Added(Msg.name)
  /\ UNCHANGED <<up, holders, connected, history, mine>>

dup ==
  /\ Handle("dup")
  /\ IF Msg.name \in DOMAIN by_name \/ ~Known(Msg.id) THEN UNCHANGED <<trees, disk>>
     ELSE Added(Msg.name)
  /\ UNCHANGED <<up, holders, connected, history, mine>>

\* Mutant: a playlist in use is destroyed all the same.
destroy_used ==
  /\ Handle("destroy")
  /\ IF Known(Msg.id)
     THEN /\ saved' = Restrict(saved, DOMAIN saved \ {Msg.id})
          /\ unsaved' = unsaved \ {Msg.id}
          /\ by_name' = Restrict(by_name, DOMAIN by_name \ {Playlists[Msg.id].name})
          /\ Playlists' = Restrict(Playlists, DOMAIN Playlists \ {Msg.id})
     ELSE UNCHANGED <<Playlists, by_name, saved, unsaved>>
  /\ UNCHANGED <<up, Last_id, holders, tmp, connected, history, mine>>

\* Mutant: the file of a destroyed playlist is not unlinked.
destroy_keeps_file ==
  /\ Handle("destroy")
  /\ IF Known(Msg.id) /\ Playlists[Msg.id].use_count = 0
     THEN /\ unsaved' = unsaved \ {Msg.id}
          /\ by_name' = Restrict(by_name, DOMAIN by_name \ {Playlists[Msg.id].name})
          /\ Playlists' = Restrict(Playlists, DOMAIN Playlists \ {Msg.id})
     ELSE UNCHANGED <<Playlists, by_name, unsaved>>
  /\ UNCHANGED <<up, Last_id, holders, saved, tmp, connected, history, mine>>

\* A playlist in use is not destroyed (destruction_failed).  Its file is unlinked,
\* a .tmp file of it is not.
destroy ==
  /\ Handle("destroy")
  /\ IF Known(Msg.id) /\ Playlists[Msg.id].use_count = 0
     THEN /\ saved' = Restrict(saved, DOMAIN saved \ {Msg.id})
          /\ unsaved' = unsaved \ {Msg.id}
          /\ by_name' = Restrict(by_name, DOMAIN by_name \ {Playlists[Msg.id].name})
          /\ Playlists' = Restrict(Playlists, DOMAIN Playlists \ {Msg.id})
     ELSE UNCHANGED <<Playlists, by_name, saved, unsaved>>
  /\ UNCHANGED <<up, Last_id, holders, tmp, connected, history, mine>>

\* Mutant: the tree by names keeps the old name.
set_name_keeps_old ==
  /\ Handle("set_name")
  /\ IF ~Known(Msg.id) \/ Msg.name \in DOMAIN by_name
     THEN UNCHANGED <<Playlists, by_name, unsaved>>
     ELSE /\ by_name' = [n \in DOMAIN by_name \cup {Msg.name} |->
                           IF n = Msg.name THEN Msg.id ELSE by_name[n]]
          /\ Playlists' = [Playlists EXCEPT ![Msg.id].name = Msg.name]
          /\ unsaved' = unsaved \cup {Msg.id}
  /\ UNCHANGED <<up, Last_id, holders, saved, tmp, connected, history, mine>>

\* A name that is taken is refused, without a word.
set_name ==
  /\ Handle("set_name")
  /\ IF ~Known(Msg.id) \/ Msg.name \in DOMAIN by_name
     THEN UNCHANGED <<Playlists, by_name, unsaved>>
     ELSE LET others == DOMAIN by_name \ {Playlists[Msg.id].name}
          IN  /\ by_name' = [n \in others \cup {Msg.name} |->
                               IF n = Msg.name THEN Msg.id ELSE by_name[n]]
              /\ Playlists' = [Playlists EXCEPT ![Msg.id].name = Msg.name]
              /\ unsaved' = unsaved \cup {Msg.id}
  /\ UNCHANGED <<up, Last_id, holders, saved, tmp, connected, history, mine>>

-----------------------------------------------------------------------------
(* Use counts *)

\* The acknowledgement reaches a client that is still there.
Acknowledged(c, id, n) ==
  mine' = IF c \in connected THEN [mine EXCEPT ![c][id] = @ + n] ELSE mine

\* "No such playlist": the client gets an error.
no_such_playlist ==
  /\ \E op \in {"increment", "decrement"} : Handle(op)
  /\ ~Known(Msg.id)
  /\ UNCHANGED <<up, trees, holders, disk, connected, history, mine>>

increment_use_count ==
  /\ Handle("increment") /\ Known(Msg.id)
  /\ Playlists' = [Playlists EXCEPT ![Msg.id].use_count = Wrap(@ + 1)]
  /\ holders' = [holders EXCEPT ![Msg.from][Msg.id] = @ + 1]
  /\ unsaved' = unsaved \cup {Msg.id}
  /\ Acknowledged(Msg.from, Msg.id, 1)
  /\ UNCHANGED <<up, by_name, Last_id, saved, tmp, connected, history>>

\* The count goes down whether or not the caller is a holder.
decrement_use_count ==
  /\ Handle("decrement") /\ Known(Msg.id)
  /\ Playlists' = [Playlists EXCEPT ![Msg.id].use_count = Wrap(@ - 1)]
  /\ holders' = [holders EXCEPT ![Msg.from][Msg.id] = IF @ > 0 THEN @ - 1 ELSE 0]
  /\ unsaved' = unsaved \cup {Msg.id}
  /\ Acknowledged(Msg.from, Msg.id, IF mine[Msg.from][Msg.id] > 0 THEN -1 ELSE 0)
  /\ UNCHANGED <<up, by_name, Last_id, saved, tmp, connected, history>>

\* Mutant: a vanished holder is forgotten with its uses still counted.
NameOwnerChanged_keeps_count ==
  /\ Handle("NameOwnerChanged")
  /\ holders' = [holders EXCEPT ![Msg.from] = NoUse]
  /\ UNCHANGED <<up, trees, disk, connected, history, mine>>

\* Mutant: the signal is taken for that of a name that gets its first owner.
NameOwnerChanged_ignored ==
  /\ Handle("NameOwnerChanged")
  /\ UNCHANGED <<up, trees, holders, disk, connected, history, mine>>

\* Every entry of the vanished client gives back one use.  (An entry of a
\* destroyed playlist would be a freed one: see UseCountIsHolders.)
NameOwnerChanged ==
  LET gone == holders[Msg.from]
  IN  /\ Handle("NameOwnerChanged")
      /\ Playlists' = [id \in DOMAIN Playlists |->
                         [Playlists[id] EXCEPT !.use_count = Wrap(@ - gone[id])]]
      /\ holders' = [holders EXCEPT ![Msg.from] = NoUse]
      /\ unsaved' = unsaved \cup {id \in DOMAIN Playlists : gone[id] > 0}
      /\ UNCHANGED <<up, by_name, Last_id, saved, tmp, connected, history, mine>>

Request ==
  \/ create \/ dup \/ destroy \/ set_name
  \/ increment_use_count \/ decrement_use_count \/ no_such_playlist
  \/ NameOwnerChanged

-----------------------------------------------------------------------------
(* Saving and restarting *)

AllNames == [id \in DOMAIN Playlists |-> Playlists[id].name]

\* "open": the .tmp file cannot be opened, and an older one stays; "write": it cannot be
\* written and is unlinked; "rename": it is complete, but cannot be renamed.
Outcomes == IF "save" \in Faults THEN {"ok", "open", "write", "rename"} ELSE {"ok"}

\* Mutant: the .tmp file is unlinked whenever a save fails.
pls_save_unlinks(outcome) ==
  LET renamed == {id \in DOMAIN outcome : outcome[id] = "ok"}
      removed == {id \in DOMAIN outcome : outcome[id] # "open"}
  IN  /\ saved' = [id \in DOMAIN saved \cup renamed |->
                     IF id \in renamed THEN Playlists[id].name ELSE saved[id]]
      /\ tmp' = [id \in DOMAIN tmp \ removed |-> tmp[id]]

\* Saves with an outcome each: <id>.tmp is written, and renamed to <id>.
pls_save(outcome) ==
  LET renamed == {id \in DOMAIN outcome : outcome[id] = "ok"}
      written == {id \in DOMAIN outcome : outcome[id] = "rename"}
      removed == {id \in DOMAIN outcome : outcome[id] \in {"ok", "write"}}
  IN  /\ saved' = [id \in DOMAIN saved \cup renamed |->
                     IF id \in renamed THEN Playlists[id].name ELSE saved[id]]
      /\ tmp' = [id \in (DOMAIN tmp \ removed) \cup written |->
                   IF id \in written THEN Playlists[id].name ELSE tmp[id]]

\* The dirty_timer of a playlist expires, and is set again if the save fails.
save_me(id) ==
  /\ up /\ id \in unsaved
  /\ \E outcome \in Outcomes :
       /\ pls_save([i \in {id} |-> outcome])
       /\ unsaved' = IF outcome = "ok" THEN unsaved \ {id} ELSE unsaved
  /\ UNCHANGED <<up, trees, holders, inbox, connected, history, mine>>

\* .tmp files of playlists that were destroyed.
LeftOver == DOMAIN tmp \ DOMAIN Playlists

\* The process ends; requests it did not handle are lost, their callers get an
\* error.  Names may be lost with the changes that were not written.
Ended(unwritten) ==
  /\ up' = FALSE
  /\ Playlists' = Nothing /\ by_name' = Nothing /\ Last_id' = 1
  /\ holders' = [c \in Clients |-> NoUse]
  /\ unsaved' = {}
  /\ inbox' = <<>>
  /\ had' = AllNames
  /\ lost' = (lost \/ unwritten # {} \/ LeftOver # {})
  /\ UNCHANGED <<connected, mine>>

\* SIGTERM or SIGINT: save_all_playlists(), each once.
Exit ==
  /\ up /\ "exit" \in Faults
  /\ \E outcome \in [DOMAIN Playlists -> Outcomes] :
       /\ pls_save(outcome)
       /\ Ended({id \in unsaved : outcome[id] \in {"open", "write"}})

Kill == up /\ "kill" \in Faults /\ Ended(unsaved) /\ UNCHANGED <<saved, tmp>>

\* The .tmp files are first renamed to the files they were for, but by their bare names,
\* which are those of files in the playlist directory only for a daemon that runs there.
Recovered(inDir) ==
  IF inDir
  THEN /\ saved' = [id \in DOMAIN saved \cup DOMAIN tmp |->
                      IF id \in DOMAIN tmp THEN tmp[id] ELSE saved[id]]
       /\ tmp' = Nothing
  ELSE UNCHANGED <<saved, tmp>>

\* Every file is read, in no particular order: of two for one playlist either is the one
\* that Playlists ends up with, and of two with one name either is the one by_name ends
\* up with.  Use counts start over.
load_playlists(files) ==
  LET ids == {f[1] : f \in files}
      names == {f[2] : f \in files}
  IN  /\ \E name \in [ids -> names] :
           /\ \A id \in ids : <<id, name[id]>> \in files
           /\ Playlists' = [id \in ids |-> [name |-> name[id], use_count |-> 0]]
      /\ \E last \in [names -> ids] :
           /\ \A n \in names : <<last[n], n>> \in files
           /\ by_name' = last
      /\ Last_id' = IF ids = {} THEN 1 ELSE Max(ids) + 1

Files(names) == {<<id, names[id]>> : id \in DOMAIN names}

Start ==
  /\ ~up
  /\ up' = TRUE
  /\ \E inDir \in BOOLEAN :
       /\ inDir \/ "elsewhere" \in Faults
       /\ Recovered(inDir)
       /\ lost' = (lost \/ (~inDir /\ DOMAIN tmp # {}))
  /\ load_playlists(Files(saved') \cup Files(tmp'))
  /\ had' = Nothing
  /\ UNCHANGED <<holders, unsaved, inbox, connected, mine>>

-----------------------------------------------------------------------------
Next ==
  \/ \E c \in Clients : Send(c) \/ Vanish(c)
  \/ Request
  \/ \E id \in Ids : save_me(id)
  \/ Exit \/ Kill \/ Start

Spec == Init /\ [][Next]_vars

\* The daemon's main loop serves its connection, and the bus starts the daemon.
FairSpec == Spec /\ WF_vars(Request) /\ WF_vars(Start)

-----------------------------------------------------------------------------
(* Properties *)

\* The entries the clients have in _usecount_holders for a playlist.
Entries(id) == UNION {{c} \X (1 .. holders[c][id]) : c \in Clients}

\* The count that decides whether a playlist may be destroyed is the number of
\* entries the clients have in _usecount_holders; these point to live playlists
\* only, so that the exit of a client makes the daemon touch nothing it has freed.
UseCountIsHolders ==
  /\ \A id \in DOMAIN Playlists :
       Playlists[id].use_count = Wrap(Cardinality(Entries(id)))
  /\ \A c \in Clients, id \in Ids : holders[c][id] > 0 => Known(id)

\* "When an application tries to remove a playlist which reference count is
\* greater than zero, the operation will fail": what a client was acknowledged
\* to use is there until it gives it back.
UsedIsKept ==
  up => \A c \in connected, id \in Ids : mine[c][id] > 0 => Known(id)

\* The two trees hold the same playlists, and a name stands for one playlist.
\* (destroy and set_name assert that they find the name.)
TreesAgree ==
  /\ \A id \in DOMAIN Playlists :
       Playlists[id].name \in DOMAIN by_name /\ by_name[Playlists[id].name] = id
  /\ \A n \in DOMAIN by_name : Known(by_name[n]) /\ Playlists[by_name[n]].name = n

\* As long as no daemon ended with a change of its unwritten, beside a .tmp file of a
\* destroyed playlist, or read .tmp files beside the files they were for: after a kill
\* between the saves of a playlist and of one that took its old name, both files have
\* the name, and TreesAgree fails.
TreesAgreeUnlessLost == ~lost => TreesAgree

\* "We cannot issue lower playlist id:s than any existing": a new playlist never
\* takes over a file of another, and no .tmp file of a destroyed one.
IdsFresh == \A id \in DOMAIN saved \cup DOMAIN tmp \cup DOMAIN Playlists : id < Last_id

\* The playlists not waiting for their timer are on disk under the name they
\* have, with no .tmp file that the next start would prefer; destroyed ones are not,
\* but for a .tmp file, and new ones will not take over a file.  (Read from another
\* directory, a playlist may have its name from the .tmp file.)
FilesMatch ==
  up => /\ \A id \in DOMAIN Playlists \ unsaved :
             /\ <<id, Playlists[id].name>> \in Files(saved) \cup Files(tmp)
             /\ ~lost => id \notin DOMAIN tmp
        /\ DOMAIN saved \subseteq DOMAIN Playlists
        /\ IdsFresh

\* "Handle the case where the final rename() of a previously written playlist failed":
\* the playlists a daemon had when it ended, all of them and no others, are what the
\* next one has, ids and names unchanged, whichever saves failed; provided that what
\* each save at exit was to bring to disk was written, renamed or not, that a killed
\* daemon had nothing to save, and that no .tmp file is left of a destroyed playlist or
\* read beside the playlist's own file.
RestartKeepsPlaylists ==
  [][~up /\ up' /\ ~lost' => [id \in DOMAIN Playlists' |-> Playlists'[id].name] = had]_vars

\* The uses of a client that goes away are given back in the end.
GoneEventuallyReleased ==
  \A c \in Clients : c \notin connected ~> holders[c] = NoUse
=============================================================================
