--------------------------- MODULE AttemptLimiter ---------------------------
(***************************************************************************)
(* The sliding-window limiter that the SSH server (by client address) and  *)
(* the web server (by client address) ask before an attempt: at most       *)
(* Maximum attempts of one key in a window, and at most MaxKeys keys in    *)
(* the table.                                                              *)
(*                                                                         *)
(* Source: src/rate_limit.rs.                                              *)
(*                                                                         *)
(* Attempts that were allowed are numbered, `when` is their instant.  The  *)
(* deque of a key is the set of its numbers: it is in the order of time,   *)
(* so popping its front while that is old removes what is old.             *)
(***************************************************************************)
EXTENDS Integers, Sequences, FiniteSets

CONSTANTS Clients, Maximum, Window, MaxKeys

ASSUME LimitAssumption ==
  /\ IsFiniteSet(Clients)
  /\ {Maximum, Window, MaxKeys} \subseteq Nat \ {0}

VARIABLES
  now,       \* the clock
  when,      \* the instants of the attempts that were allowed, in order
  attempts,  \* the table: the attempts kept of each client
  accepted   \* history: all attempts of each client that were allowed

limiterVars == <<now, when, attempts, accepted>>

LimiterInit ==
  /\ now = 0
  /\ when = <<>>
  /\ attempts = [k \in Clients |-> {}]
  /\ accepted = [k \in Clients |-> {}]

Recent(n) == now - when[n] < Window

KeptOfAsked(k) == [j \in Clients |-> IF j = k THEN {n \in attempts[j] : Recent(n)} ELSE attempts[j]]

\* state.attempts.retain: what every client still has in the table
Kept(k) == [j \in Clients |-> {n \in attempts[j] : Recent(n)}]
Tracked(k) == {j \in Clients : Kept(k)[j] # {}}

Allows(k) ==
  /\ k \in Tracked(k) \/ Cardinality(Tracked(k)) < MaxKeys
  /\ Cardinality(Kept(k)[k]) < Maximum

\* allow() answers true
Allow(k) ==
  /\ Allows(k)
  /\ LET n == Len(when) + 1 IN
     /\ when' = Append(when, now)
     /\ attempts' = [Kept(k) EXCEPT ![k] = @ \cup {n}]
     /\ accepted' = [accepted EXCEPT ![k] = @ \cup {n}]
  /\ UNCHANGED now

\* allow() answers false: the table was cleaned all the same
Refuse(k) ==
  /\ ~Allows(k)
  /\ attempts' = Kept(k)
  /\ UNCHANGED <<now, when, accepted>>

Tick ==
  /\ now' = now + 1
  /\ UNCHANGED <<when, attempts, accepted>>

LimiterNext == Tick \/ \E k \in Clients : Allow(k) \/ Refuse(k)
LimiterSpec == LimiterInit /\ [][LimiterNext]_limiterVars

-----------------------------------------------------------------------------
Instants == Seq(Nat)
LimiterTypeOK ==
  /\ now \in Nat
  /\ when \in Instants
  /\ attempts \in [Clients -> SUBSET (1..Len(when))]
  /\ accepted \in [Clients -> SUBSET (1..Len(when))]

\* The attempts of a client in the window that ends now
InWindow(k) == {n \in accepted[k] : Recent(n)}

\* At no moment have more than Maximum attempts of one client been allowed in
\* the window that ends then, however the table was cleaned in between.
RateBound == \A k \in Clients : Cardinality(InWindow(k)) <= Maximum

\* A client is refused only when it has used up its own attempts of the last
\* window, or when MaxKeys clients made one in that window: a place in the table
\* is free again as soon as the window of its client has passed.
RefusedOnlyWhenFull ==
  \A k \in Clients : ~Allows(k) =>
    \/ Cardinality(InWindow(k)) >= Maximum
    \/ Cardinality({j \in Clients : InWindow(j) # {}}) >= MaxKeys

\* The inductive invariant: the table holds everything of the window and nothing
\* that was not allowed.
TableTells ==
  \A k \in Clients :
    /\ InWindow(k) \subseteq attempts[k]
    /\ attempts[k] \subseteq accepted[k]
    /\ Cardinality(attempts[k]) <= Maximum
LimiterInv == LimiterTypeOK /\ TableTells
=============================================================================
