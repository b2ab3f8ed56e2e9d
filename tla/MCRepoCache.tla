---------------------------- MODULE MCRepoCache ----------------------------
(***************************************************************************)
(* RepoCache for TLC.  Readers are interchangeable, and so are editors; no *)
(* symmetry is declared in the run that checks liveness.                   *)
(***************************************************************************)
EXTENDS RepoCache, TLC

Symmetry == Permutations(Readers) \union Permutations(Editors)
=============================================================================
