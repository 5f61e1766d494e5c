-------------------------- MODULE MCExtensionWrapper --------------------------
EXTENDS ExtensionWrapper

CONSTANTS c1, c2, e1, e2
=============================================================================
