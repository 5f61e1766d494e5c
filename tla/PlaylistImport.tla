---------------------------- MODULE PlaylistImport ----------------------------
(***************************************************************************)
(* Importing playlists: an application's playlist manager                  *)
(* (libmafw-shared/mafw-playlist-manager.c) asks the playlist daemon       *)
(* (mafw-playlist-daemon/playlist-manager-wrapper.c), which asks a source  *)
(* for the metadata of what is imported and browses it if it is a          *)
(* container, and then tells the application.                              *)
(*                                                                         *)
(* The daemon sees the source through a proxy: what it relies on is the    *)
(* module BrowseDelivery.  An import stands for its import id.             *)
(***************************************************************************)
EXTENDS Naturals, Sequences, FiniteSets

CONSTANTS
  Imports,    \* imports of the application
  MaxItems    \* bound: items of a container

ASSUME ImportAssumption == MaxItems \in Nat

VARIABLES
  \* the application and its manager
  call,       \* the call the application waits for
  requests,   \* import_requests of the manager
  callback,   \* imports whose callback runs
  status,     \* history: what the application knows of each import
  answers,    \* history: how often the callback of each was called
  \* the bus
  imported,   \* playlist_imported messages on their way to the application
  \* the daemon
  pl_dat,     \* struct plparse_data of each: "none", "live", "freed"
  table,      \* import_requests of the daemon
  waits,      \* what each import waits for: "nothing", "metadata", "browse"
  cancelled,  \* its .cancel
  urilist,    \* items it has
  playlist,   \* imports a playlist was made of, with its number of items
  \* the source
  size        \* items of each container

client == <<call, requests, callback, status, answers>>
daemon == <<pl_dat, table, waits, cancelled, urilist, playlist>>
vars == <<client, imported, daemon, size>>

NoCall == [op |-> "none"]
NoPlaylist == MaxItems + 1

Init ==
  /\ call = NoCall /\ requests = {} /\ callback = {}
  /\ status = [i \in Imports |-> "new"]
  /\ answers = [i \in Imports |-> 0]
  /\ imported = <<>>
  /\ pl_dat = [i \in Imports |-> "none"]
  /\ table = {}
  /\ waits = [i \in Imports |-> "nothing"]
  /\ cancelled = [i \in Imports |-> FALSE]
  /\ urilist = [i \in Imports |-> 0]
  /\ playlist = [i \in Imports |-> NoPlaylist]
  /\ size \in [Imports -> 0 .. MaxItems]

-----------------------------------------------------------------------------
(* The daemon.                                                             *)

Freed(i) == pl_dat' = [pl_dat EXCEPT ![i] = "freed"]
Waits(i, what) == waits' = [waits EXCEPT ![i] = what]

\* Mutant: the application hears only of success.
Told_success(i, ok) ==
  imported' = IF ok THEN Append(imported, [import |-> i, ok |-> ok]) ELSE imported

\* playlist_imported, with an error or the new playlist.
Told(i, ok) == imported' = Append(imported, [import |-> i, ok |-> ok])

\* import_done(): the playlist is made of the items there are, unless there was
\* an error, and the application is told.
import_done(i, items, ok) ==
  /\ Told(i, ok)
  /\ playlist' = IF ok THEN [playlist EXCEPT ![i] = items] ELSE playlist
  /\ table' = table \ {i}
  /\ Freed(i) /\ Waits(i, "nothing")

Replied(ok) == call' = [call EXCEPT !.at = IF ok THEN "replied" ELSE "failed"]

\* import_playlist() of a file, which is parsed at once.
ImportFile(i) ==
  \/ import_done(i, size[i], TRUE) /\ Replied(TRUE) /\ UNCHANGED cancelled
  \/ /\ Freed(i) /\ Replied(FALSE)
     /\ UNCHANGED <<imported, table, waits, cancelled, playlist>>

\* import_playlist() of an object id: its metadata is asked for, if there is the
\* source.
ImportObject(i) ==
  \/ /\ pl_dat' = [pl_dat EXCEPT ![i] = "live"]
     /\ table' = table \cup {i}
     /\ Waits(i, "metadata") /\ Replied(TRUE)
     /\ UNCHANGED <<imported, cancelled, playlist>>
  \/ /\ Freed(i) /\ Replied(FALSE)
     /\ UNCHANGED <<imported, table, waits, cancelled, playlist>>

HandleImport ==
  /\ call.op = "import" /\ call.at = "bus"
  /\ ImportFile(call.import) \/ ImportObject(call.import)
  /\ UNCHANGED <<requests, callback, status, answers, urilist, size>>

\* Mutant: a cancelled import is taken from the table only.
Dropped_leaks(i) ==
  /\ table' = table \ {i}
  /\ Waits(i, "nothing")
  /\ UNCHANGED <<imported, pl_dat, playlist>>

\* What becomes of a cancelled import.
Dropped(i) ==
  /\ table' = table \ {i}
  /\ Freed(i) /\ Waits(i, "nothing")
  /\ UNCHANGED <<imported, playlist>>

\* The metadata arrives, or an error: a cancelled import is forgotten, a
\* container is browsed, a file is parsed.  A browse that the source refuses ends
\* as an error does.
mdata_res_cb(i) ==
  /\ waits[i] = "metadata"
  /\ \/ cancelled[i] /\ Dropped(i)
     \/ ~cancelled[i] /\ import_done(i, 0, FALSE)
     \/ ~cancelled[i] /\ import_done(i, size[i], TRUE)
     \/ /\ ~cancelled[i] /\ Waits(i, "browse")
        /\ UNCHANGED <<imported, pl_dat, table, playlist>>
  /\ UNCHANGED <<client, cancelled, urilist, size>>

\* The source sends an item, and with the last one (or with none, if it is
\* empty) remaining_count 0; or an error.
browse_res_cb(i) ==
  /\ waits[i] = "browse"
  /\ \/ /\ urilist[i] + 1 < size[i]
        /\ urilist' = [urilist EXCEPT ![i] = @ + 1]
        /\ UNCHANGED <<imported, pl_dat, table, waits, playlist>>
     \/ /\ urilist[i] + 1 >= size[i]
        /\ urilist' = [urilist EXCEPT ![i] = size[i]]
        /\ import_done(i, size[i], TRUE)
     \/ import_done(i, urilist[i], FALSE) /\ UNCHANGED urilist
  /\ UNCHANGED <<client, cancelled, size>>

\* Mutant: the metadata that comes is not expected to be of a cancelled import.
HandleCancel_no_flag ==
  /\ call.op = "cancel" /\ call.at = "bus"
  /\ Replied(call.import \in table)
  /\ waits' = [waits EXCEPT ![call.import] = IF @ = "browse" THEN "nothing" ELSE @]
  /\ UNCHANGED <<requests, callback, status, answers, imported, pl_dat, table,
                 cancelled, urilist, playlist, size>>

\* cancel_import: a browse is cancelled at the source and gives no more results;
\* metadata will come and is waited for.
HandleCancel ==
  /\ call.op = "cancel" /\ call.at = "bus"
  /\ LET i == call.import
     IN  /\ Replied(i \in table)
         /\ waits' = [waits EXCEPT ![i] = IF @ = "browse" THEN "nothing" ELSE @]
         /\ cancelled' = [cancelled EXCEPT ![i] = waits[i] = "metadata"]
  /\ UNCHANGED <<requests, callback, status, answers, imported, pl_dat, table,
                 urilist, playlist, size>>

-----------------------------------------------------------------------------
(* The manager and its application, which calls from its main loop or from *)
(* within a callback.                                                      *)

Free == call = NoCall
Becomes(i, s) == status' = [status EXCEPT ![i] = s]

import(i) ==
  /\ Free
  /\ status[i] = "new" /\ Becomes(i, "asked")
  /\ call' = [op |-> "import", import |-> i, at |-> "bus"]
  /\ UNCHANGED <<requests, callback, answers, imported, daemon, size>>

\* Its reply: the import is remembered.
ImportReplied ==
  /\ call.op = "import" /\ call.at \in {"replied", "failed"}
  /\ LET ok == call.at = "replied"
     IN  /\ requests' = IF ok THEN requests \cup {call.import} ELSE requests
         /\ Becomes(call.import, IF ok THEN "open" ELSE "refused")
  /\ call' = NoCall
  /\ UNCHANGED <<callback, answers, imported, daemon, size>>

\* Mutant: the import is forgotten only when the daemon has answered.
cancel_import_later(i) ==
  /\ Free
  /\ i \in requests
  /\ call' = [op |-> "cancel", import |-> i, at |-> "bus"]
  /\ UNCHANGED <<requests, callback, status, answers, imported, daemon, size>>

\* It is forgotten before the daemon is asked.
cancel_import(i) ==
  /\ Free
  /\ i \in requests
  /\ requests' = requests \ {i}
  /\ call' = [op |-> "cancel", import |-> i, at |-> "bus"]
  /\ UNCHANGED <<callback, status, answers, imported, daemon, size>>

\* What cancel_import() returns.  Within the import's own callback, and if the
\* answer is on its way, the daemon does not know it any more.
CancelReplied ==
  /\ call.op = "cancel" /\ call.at \in {"replied", "failed"}
  /\ Becomes(call.import, IF call.at = "replied" THEN "cancelled" ELSE "too late")
  /\ call' = NoCall
  /\ UNCHANGED <<requests, callback, answers, imported, daemon, size>>

\* dbus_handler(): the callback of a known import is called ...
playlist_imported ==
  /\ Free /\ callback = {}
  /\ imported # <<>>
  /\ imported' = Tail(imported)
  /\ LET m == Head(imported)
     IN  IF m.import \in requests
         THEN /\ callback' = {m.import}
              /\ answers' = [answers EXCEPT ![m.import] = @ + 1]
              /\ Becomes(m.import, IF m.ok THEN "done" ELSE "error")
         ELSE UNCHANGED <<callback, answers, status>>
  /\ UNCHANGED <<call, requests, daemon, size>>

\* ... and the import forgotten when it returns.
CallbackReturns ==
  /\ Free
  /\ callback # {}
  /\ requests' = requests \ callback
  /\ callback' = {}
  /\ UNCHANGED <<call, status, answers, imported, daemon, size>>

-----------------------------------------------------------------------------
Daemon ==
  \/ HandleImport \/ HandleCancel
  \/ \E i \in Imports : mdata_res_cb(i) \/ browse_res_cb(i)

Manager == ImportReplied \/ CancelReplied \/ playlist_imported \/ CallbackReturns

Next == Daemon \/ Manager \/ \E i \in Imports : import(i) \/ cancel_import(i)

Spec == Init /\ [][Next]_vars

\* Both main loops run, callbacks return whatever calls they make, and a source
\* answers get_metadata(), or the bus does for it, and ends every browse.
FairSpec ==
  /\ Spec
  /\ WF_vars(HandleImport) /\ WF_vars(HandleCancel)
  /\ \A i \in Imports : WF_vars(mdata_res_cb(i)) /\ WF_vars(browse_res_cb(i))
  /\ WF_vars(ImportReplied) /\ WF_vars(CancelReplied)
  /\ WF_vars(playlist_imported) /\ SF_vars(CallbackReturns)

-----------------------------------------------------------------------------
(* Properties *)

Cancelling(i) == call.op = "cancel" /\ call.import = i

\* "cb: callback to be called, when it finished with the import, or error
\* occured": once, and not after the application has cancelled the import.
AnsweredOnce ==
  [][\A i \in Imports : answers'[i] # answers[i] =>
       answers[i] = 0 /\ status[i] = "open"]_vars

\* An import whose cancel succeeded makes no playlist, whatever was on its way;
\* any other makes one with all its items or none, and the application is told of
\* success just if there is one.
CancelHolds ==
  \A i \in Imports :
    /\ playlist[i] \in {size[i], NoPlaylist}
    /\ status[i] \in {"cancelled", "error"} => playlist[i] = NoPlaylist
    /\ status[i] = "done" => playlist[i] = size[i]

\* The data of an import lives just as long as the daemon waits for something,
\* but for an import that was cancelled during its browse.
DataLivesWithWork ==
  \A i \in Imports :
    /\ waits[i] # "nothing" => pl_dat[i] = "live" /\ i \in table
    /\ pl_dat[i] = "live" /\ waits[i] = "nothing" =>
         ~cancelled[i] /\ (status[i] = "cancelled" \/ Cancelling(i))

\* Every import comes to an end that its application learns of.
EventuallyAnswered ==
  \A i \in Imports : status[i] = "open" ~> status[i] # "open"
=============================================================================
