-------------------------- MODULE MCCollaboration --------------------------
(***************************************************************************)
(* Accounts and repository identifiers are interchangeable.                *)
(***************************************************************************)
EXTENDS Collaboration, TLC

Symmetric == Permutations(Users) \cup Permutations(Repos) \cup Permutations(Slugs)
=============================================================================
