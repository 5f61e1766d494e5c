--------------------------- MODULE MCPlaylistDaemon ---------------------------
EXTENDS PlaylistDaemon, TLC

CONSTANTS c1, c2, n1, n2

\* Requests that decide which playlists there are.
Listing == {"create", "destroy", "dup", "set_name"}

\* Requests that use playlists, with what they are used against.
Using == {"create", "destroy", "increment", "decrement"}

\* Names are only compared with each other.
NamesAlike == Permutations(Names)
=============================================================================
