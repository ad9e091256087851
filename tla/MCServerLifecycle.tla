-------------------------- MODULE MCServerLifecycle --------------------------
(* Small instances of ServerLifecycle for TLC. *)
EXTENDS ServerLifecycle

CONSTANTS s1, s2, p1, p2, o1, b1, b2

MCTwoServers == {s1, s2}
MCOneFaulty == {s1}
MCPushes == {p1, p2}
MCOneWebOp == {o1}
MCBackups == {b1, b2}
=============================================================================
