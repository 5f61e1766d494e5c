----------------------------- MODULE PlaylistFile -----------------------------
(***************************************************************************)
(* The playlist of module APlaylist and the file the daemon keeps it in:   *)
(* pls_save(), pls_load() (aplaylist.c), save_me(), load_playlists()       *)
(* (playlist-manager-wrapper.c) and the life of the daemon's process       *)
(* (mafw-playlist-daemon.c).                                               *)
(*                                                                         *)
(* Saving writes <id>.tmp and renames it to <id>; both may fail, and the   *)
(* process may be killed at any time, in the middle of a save included.    *)
(* At startup the daemon first renames a left over .tmp file, but under a  *)
(* name relative to its current directory, and then loads every file of    *)
(* the playlist directory, in no particular order.                         *)
(***************************************************************************)
EXTENDS APlaylist

CONSTANTS
  Cut,     \* Cut[o]: what sscanf("%ms") reads of the id o, up to its first white space
  Prefix,  \* Prefix[o]: the ids a truncated line may leave of o
  Faults,  \* what may go wrong with a save: subset of {"write", "rename", "kill"}
  Cwds     \* is the current directory the playlist directory?  subset of BOOLEAN

ASSUME ConversionAssumption ==
  Cut \in [OIDs -> OIDs] /\ Prefix \in [OIDs -> SUBSET OIDs]
ASSUME FaultAssumption ==
  Faults \subseteq {"write", "rename", "kill"} /\ Cwds \subseteq BOOLEAN

VARIABLES up,      \* the daemon runs
          present, \* it has the playlist in memory
          file,    \* <playlist dir>/<id>
          tmp,     \* <playlist dir>/<id>.tmp
          kept     \* history: what a restart may bring back; {}: nothing promised,
                   \* {NoFile}: nothing, the playlist was destroyed

disk == <<file, tmp>>
fvars == <<vars, up, present, disk, kept>>

NoFile == [kind |-> "none"]
EmptyFile == [kind |-> "empty"]
Junk == [kind |-> "junk"]     \* cut off before its last line

-----------------------------------------------------------------------------
(* The file format *)

\* What pls_save() writes.
Image ==
  [kind |-> "image", repeat |-> repeat, shuffled |-> shuffled, len |-> len,
   poolst |-> poolst, pidx |-> IF shuffled THEN pidx ELSE [k \in Idx |-> k],
   oids |-> vidx]

\* The same with the last line cut off in the middle of its object id.
CutOff(f) ==
  IF f.len = 0 THEN {}
  ELSE {[f EXCEPT !.oids[f.len - 1] = o] : o \in Prefix[f.oids[f.len - 1]]}

\* Mutant: the pool start is not taken over.
Loaded_no_pool(f) ==
  /\ len' = f.len /\ repeat' = f.repeat /\ shuffled' = f.shuffled /\ poolst' = 0
  /\ vidx' = [i \in 0 .. f.len - 1 |-> Cut[f.oids[i]]]
  /\ pidx' = IF f.shuffled THEN f.pidx ELSE NoArray
  /\ iidx' = IF f.shuffled THEN Reindexed(f.pidx, f.len, f.pidx) ELSE NoArray
  /\ dirty' = TRUE /\ timer' = FALSE /\ reply' = NoReply

\* pls_load() of a whole file; the playlist is dirty, but as it is made while
\* "initialize" is set nothing starts its timer.
Loaded(f) ==
  /\ len' = f.len
  /\ repeat' = f.repeat
  /\ shuffled' = f.shuffled
  /\ poolst' = f.poolst
  /\ vidx' = [i \in 0 .. f.len - 1 |-> Cut[f.oids[i]]]
  /\ pidx' = IF f.shuffled THEN f.pidx ELSE NoArray
  /\ iidx' = IF f.shuffled THEN Reindexed(f.pidx, f.len, f.pidx) ELSE NoArray
  /\ dirty' = TRUE /\ timer' = FALSE
  /\ reply' = NoReply

\* No playlist in memory.
Forgotten ==
  /\ len' = 0 /\ poolst' = 0
  /\ vidx' = NoArray /\ pidx' = NoArray /\ iidx' = NoArray
  /\ repeat' = FALSE /\ shuffled' = FALSE
  /\ dirty' = FALSE /\ timer' = FALSE
  /\ reply' = NoReply

-----------------------------------------------------------------------------
(* Saving *)

\* pls_save() and what it leaves on disk.  "write": the .tmp file could not be
\* opened, or not be written to the end and is unlinked, and with it what an
\* earlier save left there; "rename": it is complete, but not renamed.
pls_save(outcome) ==
  \/ /\ outcome = "ok"
     /\ file' = Image /\ tmp' = NoFile
     /\ kept' = {Image}
  \/ /\ outcome = "write" /\ outcome \in Faults
     /\ \/ UNCHANGED <<tmp, kept>>
        \/ tmp' = NoFile /\ kept' = {file} \ {NoFile}
     /\ UNCHANGED file
  \/ /\ outcome = "rename" /\ outcome \in Faults
     /\ tmp' = Image
     /\ kept' = {Image}
     /\ UNCHANGED file

Outcomes == {"ok", "write", "rename"}

\* The timer expires: save_me().
SettleAndSave(outcome) ==
  /\ up /\ present
  /\ ops_settled(outcome = "ok")
  /\ pls_save(outcome)
  /\ UNCHANGED <<up, present>>

\* SIGTERM or SIGINT ends the main loop: save_all_playlists() and exit.
Exit(outcome) ==
  /\ up
  /\ up' = FALSE /\ present' = FALSE
  /\ IF present THEN pls_save(outcome) ELSE UNCHANGED <<disk, kept>>
  /\ Forgotten

\* A request destroys the playlist, which nobody uses: <id> is unlinked,
\* <id>.tmp is not.  pls_free() stops the timer.
destroy_playlist ==
  /\ up /\ present
  /\ present' = FALSE
  /\ file' = NoFile
  /\ kept' = {NoFile}
  /\ Forgotten
  /\ UNCHANGED <<up, tmp>>

\* The process is killed between two events ...
Killed ==
  /\ up
  /\ up' = FALSE /\ present' = FALSE
  /\ Forgotten
  /\ UNCHANGED <<disk, kept>>

\* ... or while it saves, at the timer or at exit: the .tmp file is complete or not.
KilledSaving ==
  /\ "kill" \in Faults
  /\ up /\ present
  /\ up' = FALSE /\ present' = FALSE
  /\ tmp' \in {EmptyFile, Junk, Image} \cup CutOff(Image)
  /\ kept' = IF file = NoFile THEN {} ELSE {file, Image}
  /\ Forgotten
  /\ UNCHANGED file

-----------------------------------------------------------------------------
(* Starting *)

\* First pass of load_playlists().  Only from within the playlist directory
\* stat() and rename() find the file: an empty .tmp is unlinked, any other
\* replaces the playlist's file.
Recovered(inDir) ==
  IF ~inDir \/ tmp = NoFile THEN disk
  ELSE IF tmp = EmptyFile THEN <<file, NoFile>> ELSE <<tmp, NoFile>>

\* Second pass: g_tree_insert() replaces what an earlier file of the same id
\* brought, so the one read last stays.
Start ==
  /\ ~up
  /\ up' = TRUE
  /\ \E inDir \in Cwds :
       LET files == Recovered(inDir)
           whole == {files[k] : k \in {j \in {1, 2} : files[j].kind = "image"}}
       IN  /\ file' = files[1] /\ tmp' = files[2]
           /\ present' = (whole # {})
           /\ IF whole = {} THEN Forgotten /\ kept' = kept \cap {NoFile}
              ELSE \E f \in whole : Loaded(f) /\ kept' = {f}

-----------------------------------------------------------------------------
InMemory(A) == up /\ present /\ A /\ UNCHANGED <<up, present, disk, kept>>

\* A playlist that was just created and is not saved yet.
FInit ==
  /\ Init /\ timer
  /\ up = TRUE /\ present = TRUE
  /\ file = NoFile /\ tmp = NoFile
  /\ kept = {}

FNext ==
  \/ InMemory(Walk)
  \/ InMemory(SafeEdits)
  \/ \E outcome \in Outcomes : SettleAndSave(outcome) \/ Exit(outcome)
  \/ destroy_playlist
  \/ Killed \/ KilledSaving
  \/ Start

FSpec == FInit /\ [][FNext]_fvars

\* The timer is served by the main loop, an installed daemon is started again
\* (D-Bus activation), and a save that is tried over and over succeeds.
FairFSpec ==
  /\ FSpec
  /\ WF_fvars(SettleAndSave("ok"))
  /\ WF_fvars(Start)

-----------------------------------------------------------------------------
(* Properties *)

\* What a user edited: everything but the play order of a shuffled list.
Edited(f) == <<f.repeat, f.shuffled, f.len, f.oids>>

\* The .tmp file is not one that a kill cut short.
TmpWhole == tmp \in {NoFile, EmptyFile} \cup kept

\* "Saving a playlist is atomic": a restart brings back, whole, what the last save
\* that was completed, renamed or not, wrote, whatever saves failed and wherever
\* the process ended.  The code keeps this only while no .tmp file is cut short: one
\* that is takes the place of the good file.  And a playlist that was destroyed
\* does not come back, unless a save of it was cut off and left a .tmp file.
SavedComesBack ==
  [][~up /\ up' =>
       /\ kept \ {NoFile} # {} /\ TmpWhole => present' /\ Image' \in kept
       /\ kept = {NoFile} /\ tmp = NoFile => ~present']_fvars

\* No edit is forgotten: a playlist whose timer is not running is on disk as
\* the user left it.
NoEditForgotten ==
  up /\ present /\ ~timer =>
    /\ file.kind = "image"
    /\ Edited(file) = Edited(Image)

\* A step that ends or undoes the wait for quiet: an edit, or the end of the
\* process.
Disturbed == SafeEdits \/ up # up'

\* Once editing stops and the daemon stays up, the edits get to disk, whatever
\* failed before.
EventuallySaved ==
  <>[][~Disturbed]_fvars =>
    <>[](up /\ present => file.kind = "image" /\ Edited(file) = Edited(Image))
=============================================================================
