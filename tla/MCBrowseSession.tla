---------------------------- MODULE MCBrowseSession ----------------------------
EXTENDS BrowseSession, TLC

CONSTANTS r1, r2

\* A browse long enough to fill a batch of the greatest size, with results
\* after it, beside a short one.
Lengths == r1 :> 4 @@ r2 :> 2
=============================================================================
