----------------------------- MODULE MCBulkScans -----------------------------
EXTENDS BulkScans, TLC

\* Nothing tells the repositories of a request apart.
Alike == Permutations(Repos)
=============================================================================
