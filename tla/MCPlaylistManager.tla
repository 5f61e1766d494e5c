--------------------------- MODULE MCPlaylistManager ---------------------------
EXTENDS PlaylistManager

\* One application is followed; Others stands for the rest.
CONSTANT a1
=============================================================================
