----------------------------- MODULE MCAccounts -----------------------------
(***************************************************************************)
(* The tickets that are still free, and the jobs, are interchangeable.     *)
(* The first account is recovered once, the others are not.                *)
(***************************************************************************)
EXTENDS Accounts, TLC

MCRecoveries == [a \in Accounts |-> IF a = First THEN 1 ELSE 0]
Symmetric == Permutations(Tickets \ {FirstLogin}) \cup Permutations(Jobs)
=============================================================================
