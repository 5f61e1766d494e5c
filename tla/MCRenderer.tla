------------------------------ MODULE MCRenderer ------------------------------
\* Instance of Renderer for TLC.
EXTENDS Renderer

\* A number beyond the signed range, and a negative character.
MCGValues == {[gtype |-> "UINT", val |-> UintMod - 1], [gtype |-> "CHAR", val |-> -1]}

\* Each operation beside one that waits on the spot and one that holds the proxy.
MCOps == <<AllOps, {"play", "assign_playlist"}>>
=============================================================================
