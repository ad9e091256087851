--------------------------- MODULE MCSshSessions ---------------------------
(***************************************************************************)
(* Two connections from two addresses; the first opens two channels, the   *)
(* other one only authenticates.  One key, one user, one repository and a  *)
(* free name.                                                              *)
(***************************************************************************)
EXTENDS SshSessions, TLC

CONSTANTS c1, c2, a1, a2, k1, alice, r1, n1, n2

MCChans == {<<c1, 1>>, <<c1, 2>>}
MCAsks == {<< <<c1, 1>>, "receive", n1>>, << <<c1, 2>>, "receive", n1>>,
           << <<c1, 2>>, "upload", n1>>, << <<c1, 2>>, "input", n1>>}
MCClientOf == (c1 :> a1) @@ (c2 :> a2)
MCIdentity == (k1 :> alice)
MCNames == (n1 :> r1) @@ (n2 :> Nobody)
MCRole == (r1 :> (alice :> "writer"))
\* The first client has a commit of its own on top of the first one.
MCStore == (c1 :> {1, 9}) @@ (c2 :> {})
MCLocal == {9}
=============================================================================
