---------------------------- MODULE MCPlaylistFile ----------------------------
EXTENDS PlaylistFile

CONSTANTS a, b

\* Ids without white space: read back as they were written.
WholeIds == [o \in OIDs |-> o]

\* b is an id with a white space in it, a the part before it.
SpacedIds == [o \in OIDs |-> a]

\* a is a prefix of b.
Prefixes == [o \in OIDs |-> IF o = b THEN {a} ELSE {}]
=============================================================================
