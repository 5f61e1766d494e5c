----------------------------- MODULE MCDiscovery ------------------------------
\* Instance of Discovery for TLC.
EXTENDS Discovery

CONSTANTS s1, n1, n2
=============================================================================
