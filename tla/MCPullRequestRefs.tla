-------------------------- MODULE MCPullRequestRefs --------------------------
(* Small instances of PullRequestRefs for TLC. *)
EXTENDS PullRequestRefs

CONSTANTS r1, r2, r3, a, b

MCThreeRequests == {r1, r2, r3}
MCTwoRequests == {r1, r2}
MCOids == {a, b}
MCAllKinds == {"open", "revise", "merge", "read"}
MCRefKinds == {"open", "revise", "read"}
=============================================================================
