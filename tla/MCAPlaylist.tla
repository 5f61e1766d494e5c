----------------------------- MODULE MCAPlaylist -----------------------------
EXTENDS APlaylist
=============================================================================
