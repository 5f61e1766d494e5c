--------------------------- MODULE MCPlaylistImport ---------------------------
EXTENDS PlaylistImport

CONSTANTS i1, i2
=============================================================================
