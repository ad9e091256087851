--------------------------- MODULE MCDefaultBranch ---------------------------
(* Small instances of DefaultBranch for TLC. *)
EXTENDS DefaultBranch

CONSTANTS main, dev, side, c1, c2, c3, p1

MCBranches == {main, dev, side}
MCExisting == {main, dev}
MCChanges == {c1, c2, c3}
MCPushes == {p1}
=============================================================================
