--------------------------- MODULE MCWebRequests ---------------------------
(***************************************************************************)
(* Two web requests: one of any shape of handler, and a feed that competes *)
(* for the single place in the guard and the single permit of the pool.    *)
(***************************************************************************)
EXTENDS WebRequests, TLC

CONSTANTS q1, q2

\* A handler of each kind, and between them every operation: a stream, a name that
\* is looked up again, a second job, a form to confirm, a second look after the
\* commit, an intent, an account change with its reload.
Shapes ==
  { Archive, FeedResponse, PullRequestList, Unarchive, MergePullRequest, OpenPullRequest,
    UpdateDefaultBranch, Activity, TokenFeed, CreateRepository, UpdateProfile }

MCOffered == q1 :> Shapes @@ q2 :> {TokenFeed}

\* Every handler, beside an archive that is streamed: about twice the states.
AllOffered == q1 :> Handlers @@ q2 :> {Archive}

MCSymmetry == Permutations(Repos)
=============================================================================
