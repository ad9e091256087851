----------------------------- MODULE AtomicCopy -----------------------------
(***************************************************************************)
(* What backup and restore promise: a copy is the whole source as it was   *)
(* at one moment, and what is installed elsewhere is one of the copies, in *)
(* one step.                                                               *)
(***************************************************************************)
CONSTANT Nothing
VARIABLES source, taken, installed

vars == <<source, taken, installed>>

Init ==
  /\ taken = {}
  /\ installed = Nothing

Change == UNCHANGED <<taken, installed>>

Take ==
  /\ taken' = taken \cup {source}
  /\ UNCHANGED <<source, installed>>

Install ==
  /\ installed = Nothing
  /\ installed' \in taken
  /\ UNCHANGED <<source, taken>>

Remove ==
  /\ installed' = Nothing
  /\ UNCHANGED <<source, taken>>

Next == Change \/ Take \/ Install \/ Remove

Spec == Init /\ [][Next]_vars
=============================================================================
