--------------------------- MODULE MCRepoRegistry ---------------------------
(***************************************************************************)
(* Connection ids are interchangeable; requests are too.                   *)
(***************************************************************************)
EXTENDS RepoRegistry, TLC

Interchangeable == Permutations(Ids) \union Permutations(Requests)
=============================================================================
