------------------------- MODULE SshSessionsProofs -------------------------
(***************************************************************************)
(* The SSH sessions for any connections, channels, keys, users and         *)
(* repositories: they use the limiter as it is meant to be used, a fetch   *)
(* keeps clones closed, and a write is checked against the keys, roles and *)
(* names of its moment.                                                    *)
(***************************************************************************)
EXTENDS SshSessions, FiniteSetTheorems, TLAPS

-----------------------------------------------------------------------------
(***************************************************************************)
(* The limiter keeps its promises for any clients, limits and window, and  *)
(* however long it runs.                                                   *)
(***************************************************************************)

\* Sets of attempts are finite, and a part of one is not larger.
LEMMA AttemptsFinite ==
  ASSUME LimiterTypeOK, NEW S \in SUBSET (1..Len(when)), NEW T \in SUBSET S
  PROVE  /\ IsFiniteSet(S) /\ Cardinality(S) \in Nat
         /\ IsFiniteSet(T) /\ Cardinality(T) \in Nat
         /\ Cardinality(T) <= Cardinality(S)
<1>1. Len(when) \in Nat
  BY DEF LimiterTypeOK, Instants
<1>2. IsFiniteSet(1..Len(when))
  BY <1>1, FS_Interval
<1>3. IsFiniteSet(S)
  BY <1>2, FS_Subset
<1>4. IsFiniteSet(T) /\ Cardinality(T) <= Cardinality(S)
  BY <1>3, FS_Subset
<1> QED
  BY <1>3, <1>4, FS_CardinalityType

\* What the cleaning keeps of a client is what it was allowed in the window.
LEMMA KeptIsWindow ==
  ASSUME LimiterInv, NEW k \in Clients, NEW j \in Clients
  PROVE  Kept(k)[j] = InWindow(j)
  BY DEF LimiterInv, LimiterTypeOK, TableTells, Kept, InWindow

LEMMA LimiterInitInv == LimiterInit => LimiterInv
<1> SUFFICES ASSUME LimiterInit PROVE LimiterInv
  OBVIOUS
<1>1. LimiterTypeOK
  BY DEF LimiterInit, LimiterTypeOK, Instants
<1>2. TableTells
  <2> SUFFICES ASSUME NEW k \in Clients
               PROVE  /\ InWindow(k) \subseteq attempts[k]
                      /\ attempts[k] \subseteq accepted[k]
                      /\ Cardinality(attempts[k]) <= Maximum
    BY DEF TableTells
  <2>1. accepted[k] = {} /\ attempts[k] = {}
    BY DEF LimiterInit
  <2>2. Cardinality({}) = 0
    BY FS_EmptySet
  <2> QED
    BY <2>1, <2>2, LimitAssumption DEF InWindow
<1> QED
  BY <1>1, <1>2 DEF LimiterInv

\* Every step keeps the table telling the truth: cleaning drops only what has left
\* the window, time only moves attempts out of it, and an attempt is added where
\* fewer than Maximum were kept.
LEMMA LimiterStepInv == LimiterInv /\ [LimiterNext]_limiterVars => LimiterInv'
<1> SUFFICES ASSUME LimiterInv, [LimiterNext]_limiterVars PROVE LimiterInv'
  OBVIOUS
<1>0. LimiterTypeOK /\ TableTells
  BY DEF LimiterInv
<1>t. /\ now \in Nat /\ when \in Seq(Nat) /\ Len(when) \in Nat
      /\ Maximum \in Nat /\ Window \in Nat
  BY <1>0, LimitAssumption DEF LimiterTypeOK, Instants
<1>1. ASSUME Tick PROVE LimiterInv'
  <2>1. LimiterTypeOK'
    BY <1>0, <1>1 DEF Tick, LimiterTypeOK, Instants
  <2>2. ASSUME NEW k \in Clients PROVE InWindow(k)' \subseteq InWindow(k)
    <3> SUFFICES ASSUME NEW n \in accepted[k], now' - when[n] < Window PROVE now - when[n] < Window
      BY <1>1 DEF InWindow, Recent, Tick
    <3>1. n \in 1..Len(when)
      BY <1>0 DEF LimiterTypeOK
    <3>2. when[n] \in Nat
      BY <3>1, <1>t
    <3> QED
      BY <3>2, <1>t, <1>1 DEF Tick
  <2>3. TableTells'
    BY <2>2, <1>0, <1>1 DEF Tick, TableTells
  <2> QED
    BY <2>1, <2>3 DEF LimiterInv
<1>2. ASSUME NEW k \in Clients, Refuse(k) PROVE LimiterInv'
  <2>1. /\ now' = now /\ when' = when /\ accepted' = accepted
        /\ \A j \in Clients : attempts'[j] = InWindow(j)
        /\ DOMAIN attempts' = Clients /\ attempts' = [j \in Clients |-> attempts'[j]]
    BY <1>2, KeptIsWindow DEF Refuse, Kept
  <2>2. LimiterTypeOK'
    BY <2>1, <1>0 DEF LimiterTypeOK, Instants, InWindow
  <2>3. ASSUME NEW j \in Clients
        PROVE  /\ InWindow(j)' = InWindow(j)
               /\ InWindow(j) \subseteq attempts[j]
               /\ InWindow(j) \subseteq accepted[j]
               /\ attempts[j] \in SUBSET (1..Len(when))
               /\ Cardinality(attempts[j]) <= Maximum
    BY <2>1, <1>0 DEF LimiterTypeOK, TableTells, InWindow, Recent
  <2>4. ASSUME NEW j \in Clients PROVE Cardinality(InWindow(j)) <= Maximum
    BY <2>3, <1>0, <1>t, AttemptsFinite
  <2>5. TableTells'
    BY <2>1, <2>3, <2>4 DEF TableTells
  <2> QED
    BY <2>2, <2>5 DEF LimiterInv
<1>3. ASSUME NEW k \in Clients, Allow(k) PROVE LimiterInv'
  <2> DEFINE m == Len(when) + 1
  <2>1. /\ now' = now /\ when' = Append(when, now)
        /\ accepted' = [accepted EXCEPT ![k] = @ \cup {m}]
        /\ attempts' = [Kept(k) EXCEPT ![k] = @ \cup {m}]
        /\ Allows(k)
    BY <1>3 DEF Allow
  <2>2. /\ when' \in Seq(Nat) /\ Len(when') = m
        /\ \A n \in 1..Len(when) : when'[n] = when[n]
        /\ when'[m] = now
    BY <2>1, <1>t
  <2>3. \A j \in Clients : attempts'[j] = IF j = k THEN InWindow(k) \cup {m} ELSE InWindow(j)
    BY <2>1, KeptIsWindow DEF Kept
  <2>4. \A j \in Clients : accepted'[j] = IF j = k THEN accepted[k] \cup {m} ELSE accepted[j]
    BY <2>1, <1>0 DEF LimiterTypeOK
  <2>5. \A j \in Clients : /\ accepted[j] \in SUBSET (1..Len(when))
                           /\ attempts[j] \in SUBSET (1..Len(when))
                           /\ InWindow(j) \in SUBSET attempts[j]
                           /\ InWindow(j) \subseteq accepted[j]
                           /\ Cardinality(attempts[j]) <= Maximum
    BY <1>0 DEF LimiterTypeOK, TableTells, InWindow
  <2>6. LimiterTypeOK'
    <3>1. 1..Len(when) \subseteq 1..Len(when') /\ m \in 1..Len(when')
      BY <2>2, <1>t
    <3>2. attempts' \in [Clients -> SUBSET (1..Len(when'))]
      BY <3>1, <2>1, <2>3, <2>5 DEF Kept
    <3>3. accepted' \in [Clients -> SUBSET (1..Len(when'))]
      BY <3>1, <2>1, <2>4, <2>5, <1>0 DEF LimiterTypeOK
    <3> QED
      BY <3>2, <3>3, <2>1, <2>2, <1>t DEF LimiterTypeOK, Instants
  <2>7. ASSUME NEW j \in Clients
        PROVE  InWindow(j)' \subseteq attempts'[j] /\ attempts'[j] \subseteq accepted'[j]
    <3>1. ASSUME NEW n \in accepted[j], Recent(n)' PROVE n \in InWindow(j)
      BY <3>1, <2>1, <2>2, <2>5 DEF Recent, InWindow
    <3> QED
      BY <3>1, <2>3, <2>4, <2>5 DEF InWindow
  <2>8. ASSUME NEW j \in Clients PROVE Cardinality(attempts'[j]) <= Maximum
    <3>1. /\ IsFiniteSet(InWindow(j)) /\ Cardinality(InWindow(j)) \in Nat
          /\ Cardinality(InWindow(j)) <= Maximum
      BY <2>5, <1>0, <1>t, AttemptsFinite
    <3>2. CASE j = k
      <4>1. Cardinality(InWindow(k)) < Maximum
        BY <2>1, KeptIsWindow DEF Allows
      <4>2. m \notin InWindow(k)
        BY <2>5, <1>t
      <4>3. Cardinality(InWindow(k) \cup {m}) = Cardinality(InWindow(k)) + 1
        BY <3>1, <3>2, <4>2, FS_AddElement
      <4> QED
        BY <2>3, <3>1, <3>2, <4>1, <4>3, <1>t
    <3>3. CASE j # k
      BY <2>3, <3>1, <3>3
    <3> QED
      BY <3>2, <3>3
  <2> QED
    BY <2>6, <2>7, <2>8 DEF LimiterInv, TableTells
<1>4. CASE UNCHANGED limiterVars
  BY <1>0, <1>4 DEF limiterVars, LimiterInv, LimiterTypeOK, TableTells, InWindow, Recent
<1> QED
  BY <1>1, <1>2, <1>3, <1>4 DEF LimiterNext

\* What the invariant says about refusals and rates.
LEMMA InvImplies == LimiterInv => RateBound /\ RefusedOnlyWhenFull
<1> SUFFICES ASSUME LimiterInv PROVE RateBound /\ RefusedOnlyWhenFull
  OBVIOUS
<1>0. LimiterTypeOK /\ TableTells /\ Maximum \in Nat /\ MaxKeys \in Nat
  BY LimitAssumption DEF LimiterInv
<1>1. ASSUME NEW k \in Clients
      PROVE  Cardinality(InWindow(k)) \in Nat /\ Cardinality(InWindow(k)) <= Maximum
  <2>1. /\ attempts[k] \in SUBSET (1..Len(when)) /\ InWindow(k) \in SUBSET attempts[k]
        /\ Cardinality(attempts[k]) <= Maximum
    BY <1>0 DEF LimiterTypeOK, TableTells
  <2> QED
    BY <2>1, <1>0, AttemptsFinite
<1>2. RateBound
  BY <1>1 DEF RateBound
<1>3. ASSUME NEW k \in Clients, ~Allows(k),
             ~(Cardinality({j \in Clients : InWindow(j) # {}}) >= MaxKeys)
      PROVE  Cardinality(InWindow(k)) >= Maximum
  <2>1. Tracked(k) = {j \in Clients : InWindow(j) # {}}
    BY KeptIsWindow DEF Tracked
  <2>2. Cardinality(Tracked(k)) \in Nat
    BY <2>1, LimitAssumption, FS_Subset, FS_CardinalityType
  <2>3. Cardinality(Tracked(k)) < MaxKeys
    BY <1>3, <2>1, <2>2, <1>0
  <2>4. ~(Cardinality(InWindow(k)) < Maximum)
    BY <1>3, <2>3, KeptIsWindow DEF Allows
  <2> QED
    BY <2>4, <1>1, <1>0
<1> QED
  BY <1>2, <1>3 DEF RefusedOnlyWhenFull

-----------------------------------------------------------------------------
(***************************************************************************)
(* The table of allow() holds, of every client, all attempts of the window *)
(* and only attempts that were allowed.                                    *)
(***************************************************************************)
THEOREM TableTrue == LimiterSpec => []LimiterInv
  BY LimiterInitInv, LimiterStepInv, PTL DEF LimiterSpec

(***************************************************************************)
(* No window holds more than Maximum allowed attempts of one client.       *)
(***************************************************************************)
THEOREM RateBounded == LimiterSpec => []RateBound
  BY TableTrue, InvImplies, PTL

(***************************************************************************)
(* allow() refuses a client only when it used its attempts up, or when     *)
(* MaxKeys clients are in their window: the table never stays full.        *)
(***************************************************************************)
THEOREM RefusedWhenFull == LimiterSpec => []RefusedOnlyWhenFull
  BY TableTrue, InvImplies, PTL

-----------------------------------------------------------------------------
(***************************************************************************)
(* The sessions                                                            *)
(***************************************************************************)

\* A channel belongs to a connection; Nobody is none of the things it stands for.
LEMMA ChanConn ==
  /\ \A ch \in Chans : ch[1] \in Conns
  /\ \A c \in Conns : ChansOf(c) \subseteq Chans
  BY SessionAssumption DEF ChansOf

\* The rows that steps write.
LEMMA Shapes ==
  /\ \A kind \in {"none", "upload", "receive", "input"}, name \in Names \cup {Nobody}, repo \in Repos \cup {Nobody},
       key \in Keys \cup {Nobody}, who \in Users \cup {Nobody}, p \in Protocols :
         Entry(kind, name, repo, key, who, p) \in ChanRow
  /\ Closed \in ChanRow /\ Closed.kind = "none"
  /\ \A stage \in Stages, ch \in Chans \cup {Nobody}, row \in ChanRow :
       Handling(stage, ch, row) \in HandlerRow
  /\ Idle \in HandlerRow /\ Idle.stage = "idle"
  /\ NoConn \in ConnRow /\ NoConn.who = Nobody
<1>1. \A kind \in {"none", "upload", "receive", "input"}, name \in Names \cup {Nobody}, repo \in Repos \cup {Nobody},
       key \in Keys \cup {Nobody}, who \in Users \cup {Nobody}, p \in Protocols :
         Entry(kind, name, repo, key, who, p) \in ChanRow
  BY CommitAssumption DEF Entry, ChanRow
<1>2. Closed \in ChanRow /\ Closed.kind = "none"
  BY CommitAssumption DEF Closed, Entry, ChanRow, Protocols
<1>3. \A stage \in Stages, ch \in Chans \cup {Nobody}, row \in ChanRow :
       Handling(stage, ch, row) \in HandlerRow
  BY DEF Handling, HandlerRow
<1>4. Idle \in HandlerRow /\ Idle.stage = "idle"
  BY <1>2, <1>3 DEF Idle, Handling, HandlerRow, Stages
<1>5. NoConn \in ConnRow /\ NoConn.who = Nobody
  BY DEF NoConn, ConnRow, Protocols
<1> QED
  BY <1>1, <1>2, <1>3, <1>4, <1>5

\* Updates of an entry and of a handler keep their shape and the other fields.
LEMMA SeenRow ==
  ASSUME NEW r \in ChanRow, NEW n \in 0..MaxCommit
  PROVE  LET q == [r EXCEPT !.seen = n] IN
         q \in ChanRow /\ q.kind = r.kind /\ q.repo = r.repo /\ q.key = r.key /\ q.who = r.who /\ q.name = r.name
  BY DEF ChanRow

LEMMA LateRow ==
  ASSUME NEW r \in ChanRow
  PROVE  LET q == [r EXCEPT !.late = TRUE] IN
         q \in ChanRow /\ q.kind = r.kind /\ q.repo = r.repo /\ q.key = r.key /\ q.who = r.who /\ q.name = r.name
  BY DEF ChanRow

LEMMA StageRow ==
  ASSUME NEW r \in HandlerRow, NEW stage \in Stages
  PROVE  LET q == [r EXCEPT !.stage = stage] IN
         q \in HandlerRow /\ q.stage = stage /\ q.chan = r.chan /\ q.row = r.row /\ q.granted = r.granted
  BY DEF HandlerRow

LEMMA GrantRow ==
  ASSUME NEW r \in HandlerRow, NEW b \in BOOLEAN
  PROVE  LET q == [r EXCEPT !.granted = b] IN
         q \in HandlerRow /\ q.stage = r.stage /\ q.chan = r.chan /\ q.row = r.row /\ q.granted = b
  BY DEF HandlerRow

LEMMA WriteRow ==
  ASSUME NEW r \in HandlerRow, NEW b \in BOOLEAN
  PROVE  LET q == [r EXCEPT !.stage = "write", !.granted = b] IN
         q \in HandlerRow /\ q.stage = "write" /\ q.chan = r.chan /\ q.row = r.row /\ q.granted = b
  BY DEF HandlerRow, Stages

-----------------------------------------------------------------------------
(***************************************************************************)
(* The limiter in the sessions                                             *)
(***************************************************************************)

\* Every step of the sessions is a step of the limiter, or leaves it alone.
LEMMA LimiterSteps == [Next]_vars => [LimiterNext]_limiterVars
<1> SUFFICES ASSUME [Next]_vars PROVE LimiterNext \/ UNCHANGED limiterVars
  OBVIOUS
<1> USE DEF Keep, Elsewhere
<1>1. ASSUME NEW c \in Conns, Session(c) PROVE LimiterNext \/ UNCHANGED limiterVars
  <2>1. ASSUME NEW k \in Keys, AuthPublicKey(c, k) PROVE LimiterNext
    BY <2>1, SessionAssumption DEF AuthPublicKey, LimiterNext
  <2> QED
    BY <1>1, <2>1 DEF Session, NewClient, Disconnect, EnvRequest
<1>2. ASSUME NEW c \in Conns, HandlerStep(c) PROVE UNCHANGED limiterVars
  BY <1>2 DEF HandlerStep, MutationPermit, Advertise, RespondListing, RespondFetch, PushCheck, PushWrite, RunEnds
<1>3. ASSUME NEW ch \in Chans, Message(ch) PROVE UNCHANGED limiterVars
  BY <1>3 DEF Message, OpenGitService, OpenInput, RunCommand, UploadData, FinishReceive, RunInput, ChannelClose
<1>4. ASSUME NEW ch \in Chans, Age(ch) PROVE UNCHANGED limiterVars
  BY <1>4 DEF Age
<1>5. ASSUME World PROVE LimiterNext \/ UNCHANGED limiterVars
  BY <1>5 DEF World, ReloadKeys, SetRole, RenameRepository, BackupQueues, BackupHolds, BackupReleases,
              Clock, LimiterNext
<1>6. CASE UNCHANGED vars
  BY <1>6 DEF vars
<1> QED
  BY <1>1, <1>2, <1>3, <1>4, <1>5, <1>6 DEF Next

(***************************************************************************)
(* The sessions implement the limiter's specification: auth_publickey asks *)
(* it as allow() is meant to be asked, and nothing else touches its table. *)
(***************************************************************************)
THEOREM SessionsUseLimiter == Spec => LimiterSpec
<1>1. Init => LimiterInit
  BY DEF Init
<1> QED
  BY <1>1, LimiterSteps, PTL DEF Spec, LimiterSpec

(***************************************************************************)
(* In a server, a client address is refused an attempt only when it used   *)
(* its own up or when the table is full of clients of this window.         *)
(***************************************************************************)
THEOREM ServerRefusesWhenFull == Spec => []RefusedOnlyWhenFull
  BY SessionsUseLimiter, RefusedWhenFull, PTL
-----------------------------------------------------------------------------
(***************************************************************************)
(* Types, and what handlers work on                                        *)
(***************************************************************************)

LEMMA SessionsInit == Init => SessionsInv
<1> SUFFICES ASSUME Init PROVE SessionsInv
  OBVIOUS
<1>1. TypeOK
  BY Shapes, SessionAssumption, CommitAssumption, CloneAssumption DEF Init, TypeOK
<1>2. HandlersTell
  BY Shapes, ChanConn DEF Init, HandlersTell, HandlerTells, EntryTells, IsGit, Opening
<1>3. ChangesAreAuthorized
  BY Shapes DEF Init, ChangesAreAuthorized
<1>4. FetchIsClosed
  BY CloneAssumption DEF Init, FetchIsClosed
<1> QED
  BY <1>1, <1>2, <1>3, <1>4 DEF SessionsInv

\* Every step keeps the types.
LEMMA SessionsTyped == TypeOK /\ HandlersTell /\ [Next]_vars => TypeOK'
<1> SUFFICES ASSUME TypeOK, HandlersTell, [Next]_vars PROVE TypeOK'
  OBVIOUS
<1> USE ChanConn DEF TypeOK, Keep, Elsewhere, End, Start, Done
<1>1. ASSUME NEW c \in Conns, Session(c) PROVE TypeOK'
  <2>1. CASE NewClient(c)
    <3> DEFINE b == Cardinality({d \in Conns : conn[d].permit}) < MaxConnections
    <3>1. [NoConn EXCEPT !.up = TRUE, !.permit = b] \in ConnRow
      <4>1. b \in BOOLEAN
        OBVIOUS
      <4> HIDE DEF b
      <4> QED
        BY <4>1 DEF NoConn, ConnRow, Protocols
    <3> QED
      BY <2>1, <3>1 DEF NewClient, world
  <2>2. CASE Disconnect(c)
    BY <2>2, Shapes DEF Disconnect, world
  <2>3. ASSUME NEW k \in Keys, AuthPublicKey(c, k) PROVE TypeOK'
    <3>1. identity[k] # Nobody => [conn[c] EXCEPT !.key = k, !.who = identity[k]] \in ConnRow
      BY ZenonT(40) DEF ConnRow
    <3>2. \/ conn' = conn
          \/ identity[k] # Nobody /\ conn' = [conn EXCEPT ![c] = [conn[c] EXCEPT !.key = k, !.who = identity[k]]]
      BY <2>3 DEF AuthPublicKey
    <3>3. conn' \in [Conns -> ConnRow]
      BY <3>1, <3>2
    <3> QED
      BY <2>3, <3>3 DEF AuthPublicKey, world
  <2>4. ASSUME NEW p \in AskedProtocols, EnvRequest(c, p) PROVE TypeOK'
    <3>1. p \in Protocols
      BY SessionAssumption DEF Protocols
    <3>2. [conn[c] EXCEPT !.protocol = p] \in ConnRow
      BY <3>1 DEF ConnRow
    <3> QED
      BY <2>4, <3>2 DEF EnvRequest, world
  <2> QED
    BY <1>1, <2>1, <2>2, <2>3, <2>4 DEF Session
<1>2. ASSUME NEW c \in Conns, HandlerStep(c) PROVE TypeOK'
  <2>1. CASE MutationPermit(c)
    <3>1. [handler[c] EXCEPT !.stage = "advertise"] \in HandlerRow
      BY StageRow DEF Stages
    <3> QED
      BY <2>1, <3>1 DEF MutationPermit, world
  <2>2. CASE Advertise(c)
    <3>1. handler[c].row \in ChanRow /\ handler[c].chan \in Chans /\ handler[c].row.repo \in Repos
      BY <2>2 DEF Advertise, HandlersTell, HandlerTells, Opening, HandlerRow
    <3>2. ASSUME NEW n \in {0, tip[handler[c].row.repo]}
          PROVE  [handler[c].row EXCEPT !.seen = n] \in ChanRow
      <4>1. n \in 0..MaxCommit
        BY <3>1, CommitAssumption
      <4> QED
        BY <3>1, <4>1, SeenRow
    <3> QED
      BY ZenonT(40), <2>2, <3>1, <3>2, Shapes DEF Advertise, world
  <2>3. CASE RespondListing(c)
    <3>1. handler[c].chan \in Chans /\ chan[handler[c].chan].repo \in Repos
      BY <2>3 DEF RespondListing, HandlersTell, HandlerTells, EntryTells, IsGit
    <3>2. tip[chan[handler[c].chan].repo] \in 0..MaxCommit
      BY <3>1, CommitAssumption
    <3>3. [chan[handler[c].chan] EXCEPT !.seen = tip[chan[handler[c].chan].repo]] \in ChanRow
      BY <3>1, <3>2, SeenRow
    <3>4. chan' \in [Chans -> ChanRow]
      BY <2>3, <3>1, <3>3, Shapes DEF RespondListing
    <3> QED
      BY <2>3, <3>4, Shapes DEF RespondListing, world
  <2>4. CASE RespondFetch(c)
    <3>1. handler[c].chan \in Chans
      BY <2>4 DEF RespondFetch, HandlersTell, HandlerTells
    <3>2. \A n \in Nat : Reach(n) \subseteq Nat
      BY CommitAssumption DEF Reach
    <3>3. chan[handler[c].chan].seen \in Nat
      BY <3>1, CommitAssumption DEF ChanRow
    <3>4. store' \in [Conns -> SUBSET Nat]
      BY <2>4, <3>2, <3>3 DEF RespondFetch
    <3> QED
      BY <2>4, <3>1, <3>4, Shapes DEF RespondFetch, world
  <2>5. CASE PushCheck(c)
    <3> DEFINE row == chan[handler[c].chan]
               b == /\ identity[row.key] = row.who
                    /\ role[row.repo][row.who] = "writer" \/ repoAt[row.name] # row.repo
    <3>1. handler[c].chan \in Chans
      BY <2>5 DEF PushCheck, HandlersTell, HandlerTells
    <3>2. [handler[c] EXCEPT !.stage = "write", !.granted = b] \in HandlerRow
      <4>1. b \in BOOLEAN
        OBVIOUS
      <4> HIDE DEF b
      <4> QED
        BY <4>1, WriteRow
    <3> QED
      BY <2>5, <3>1, <3>2, Shapes DEF PushCheck, world
  <2>6. CASE PushWrite(c)
    <3>1. handler[c].chan \in Chans /\ chan[handler[c].chan].repo \in Repos
      BY <2>6 DEF PushWrite, HandlersTell, HandlerTells, EntryTells, IsGit
    <3>2. ASSUME NEW r \in Repos, NEW n \in tip[r]..MaxCommit PROVE n \in 1..MaxCommit
      BY CommitAssumption
    <3> QED
      BY <2>6, <3>1, <3>2, Shapes DEF PushWrite, world
  <2>7. CASE RunEnds(c)
    BY <2>7, Shapes DEF RunEnds, world
  <2> QED
    BY <1>2, <2>1, <2>2, <2>3, <2>4, <2>5, <2>6, <2>7 DEF HandlerStep
<1>3. ASSUME NEW ch \in Chans, Message(ch) PROVE TypeOK'
  <2>0. conn[ch[1]] \in ConnRow /\ ch[1] \in Conns
    OBVIOUS
  <2>1. ASSUME NEW kind \in {"upload", "receive"}, NEW name \in Names, OpenGitService(ch, kind, name)
        PROVE  TypeOK'
    <3> DEFINE c == ch[1]
               p == IF kind = "upload" THEN conn[c].protocol ELSE "v0"
               stage == IF kind = "receive" THEN "lease" ELSE "advertise"
               row == Entry(kind, name, repoAt[name], conn[c].key, conn[c].who, p)
    <3>1. p \in Protocols /\ stage \in Stages /\ conn[c].key \in Keys \cup {Nobody}
          /\ conn[c].who \in Users \cup {Nobody}
      BY <2>0 DEF ConnRow, Protocols, Stages
    <3>2. row \in ChanRow
      BY ZenonT(40), <3>1, Shapes
    <3>3. Handling(stage, ch, row) \in HandlerRow
      <4> HIDE DEF row, stage
      <4> QED
        BY <3>1, <3>2, Shapes
    <3> QED
      BY <2>0, <2>1, <3>3 DEF OpenGitService, world
  <2>2. ASSUME NEW name \in Names, OpenInput(ch, name) PROVE TypeOK'
    <3>1. Entry("input", name, Nobody, Nobody, conn[ch[1]].who, "v0") \in ChanRow
      BY <2>0, Shapes DEF ConnRow, Protocols
    <3> QED
      BY <2>2, <3>1 DEF OpenInput, world
  <2>3. CASE RunCommand(ch[1])
    BY <2>0, <2>3, Shapes DEF RunCommand, Stages, world
  <2>4. ASSUME NEW request \in {"ls-refs", "fetch"}, UploadData(ch, request) PROVE TypeOK'
    BY <2>0, <2>4, Shapes DEF UploadData, Stages, world
  <2>5. CASE FinishReceive(ch)
    <3>1. Handling("push", ch, Closed) \in HandlerRow
      BY Shapes DEF Stages
    <3> QED
      BY <2>0, <2>5, <3>1, Shapes DEF FinishReceive, world
  <2>6. CASE RunInput(ch)
    <3> DEFINE b == identity[conn[ch[1]].key] = chan[ch].who
    <3>1. [Handling("run", Nobody, Closed) EXCEPT !.granted = b] \in HandlerRow
      <4>1. b \in BOOLEAN
        OBVIOUS
      <4>2. Handling("run", Nobody, Closed) \in HandlerRow
        BY Shapes DEF Stages
      <4> HIDE DEF b
      <4> QED
        BY <4>1, <4>2, GrantRow
    <3> QED
      BY <2>0, <2>6, <3>1, Shapes DEF RunInput, world
  <2>7. CASE ChannelClose(ch)
    BY <2>7, Shapes DEF ChannelClose, world
  <2> QED
    BY <1>3, <2>1, <2>2, <2>3, <2>4, <2>5, <2>6, <2>7 DEF Message
<1>4. ASSUME NEW ch \in Chans, Age(ch) PROVE TypeOK'
  <2>1. [chan[ch] EXCEPT !.late = TRUE] \in ChanRow
    BY LateRow
  <2> QED
    BY <1>4, <2>1 DEF Age, world
<1>5. ASSUME World PROVE TypeOK'
  <2>1. ASSUME NEW k \in Keys, NEW u \in Users \cup {Nobody}, ReloadKeys(k, u) PROVE TypeOK'
    BY <2>1 DEF ReloadKeys, Change, sshVars
  <2>2. ASSUME NEW r \in Repos, NEW u \in Users, NEW new \in NewRoles, SetRole(r, u, new) PROVE TypeOK'
    BY <2>2, SessionAssumption DEF SetRole, Change, sshVars
  <2>3. ASSUME NEW old \in Names, NEW new \in Names, RenameRepository(old, new) PROVE TypeOK'
    BY SMTT(30), <2>3 DEF RenameRepository, Change, sshVars
  <2>4. CASE BackupQueues \/ BackupHolds \/ BackupReleases \/ Clock
    BY <2>4 DEF BackupQueues, BackupHolds, BackupReleases, Clock, sshVars, world
  <2> QED
    BY <1>5, <2>1, <2>2, <2>3, <2>4 DEF World
<1>6. CASE UNCHANGED vars
  BY <1>6 DEF vars, sshVars, world
<1> QED
  BY <1>1, <1>2, <1>3, <1>4, <1>5, <1>6 DEF Next

\* A step of one connection touches the entries of its own channels only: it is
\* enough to look at those and at its handler.
LEMMA OwnChannels ==
  ASSUME HandlersTell, NEW c \in Conns,
         \A d \in Conns : conn'[d].who # Nobody => conn'[d].key \in Keys,
         \A d \in Conns \ {c} : handler'[d] = handler[d],
         \A ch \in Chans \ ChansOf(c) : chan'[ch] = chan[ch],
         \A ch \in ChansOf(c) : EntryTells(ch)',
         HandlerTells(c)'
  PROVE  HandlersTell'
<1>1. ASSUME NEW ch \in Chans PROVE EntryTells(ch)'
  BY DEF HandlersTell, EntryTells, IsGit
<1>2. ASSUME NEW d \in Conns, d # c PROVE HandlerTells(d)'
  <2>1. handler'[d] = handler[d] /\ \A ch \in ChansOf(d) : chan'[ch] = chan[ch]
    BY <1>2 DEF ChansOf
  <2>2. ChansOf(d)' = ChansOf(d)
    BY DEF ChansOf
  <2> QED
    BY <1>2, <2>1, <2>2 DEF HandlersTell, HandlerTells, Opening
<1> QED
  BY <1>1, <1>2 DEF HandlersTell

\* An entry stays as it is, is taken out, or only becomes late or learns of refs.
LEMMA EntryKept ==
  ASSUME NEW ch \in Chans, EntryTells(ch),
         \/ chan'[ch].kind \in {"none", "input"}
         \/ /\ chan'[ch].kind = chan[ch].kind /\ chan'[ch].repo = chan[ch].repo
            /\ chan'[ch].key = chan[ch].key /\ chan'[ch].who = chan[ch].who
            /\ chan'[ch].name = chan[ch].name
  PROVE  EntryTells(ch)'
  BY DEF EntryTells, IsGit

\* A handler that ends, or that runs a command, needs no entry.
LEMMA HandlerEnds ==
  ASSUME NEW c \in Conns, handler'[c].stage \in {"idle", "run"}
  PROVE  HandlerTells(c)'
  BY DEF HandlerTells, Opening

\* A handler keeps the entry it works on until it ends: every other step touches
\* other connections, needs a free connection, or only makes the entry late.
LEMMA SessionsTell == TypeOK /\ HandlersTell /\ [Next]_vars => HandlersTell'
<1> SUFFICES ASSUME TypeOK, HandlersTell, [Next]_vars PROVE HandlersTell'
  OBVIOUS
<1>0. /\ \A c \in Conns : conn[c].who # Nobody => conn[c].key \in Keys
      /\ \A ch \in Chans : EntryTells(ch)
      /\ \A c \in Conns : HandlerTells(c)
  BY DEF HandlersTell
<1> USE ChanConn DEF TypeOK, Keep, Elsewhere, End, Start, Done
<1>a. ASSUME conn' = conn PROVE \A d \in Conns : conn'[d].who # Nobody => conn'[d].key \in Keys
  BY <1>0, <1>a
<1>b. ASSUME chan' = chan PROVE \A ch \in Chans : EntryTells(ch)'
  BY <1>0, <1>b, EntryKept
\* Two shapes that many steps have
<1>c. ASSUME NEW c \in Conns, NEW ch \in ChansOf(c), conn' = conn,
             End(ch), handler'[c].stage \in {"idle", "run"},
             \A d \in Conns \ {c} : handler'[d] = handler[d]
      PROVE  HandlersTell'
  <2>1. \A d \in Chans : chan'[d] = chan[d] \/ (d = ch /\ chan'[d].kind = "none")
    <3>1. ch \in Chans /\ Closed.kind = "none"
      BY <1>c, Shapes
    <3> QED
      BY <1>c, <3>1
  <2>2. \A d \in ChansOf(c) : EntryTells(d)'
    BY <1>0, <2>1, EntryKept
  <2>3. \A d \in Chans \ ChansOf(c) : chan'[d] = chan[d]
    BY <1>c, <2>1
  <2>4. HandlerTells(c)'
    BY <1>c, HandlerEnds
  <2> QED
    BY <1>a, <1>c, <2>2, <2>3, <2>4, OwnChannels
<1>d. ASSUME NEW c \in Conns, conn' = conn, chan' = chan, HandlerTells(c)',
             \A d \in Conns \ {c} : handler'[d] = handler[d]
      PROVE  HandlersTell'
  BY <1>a, <1>b, <1>d, OwnChannels
<1>1. ASSUME NEW c \in Conns, Session(c) PROVE HandlersTell'
  <2>0. ASSUME handler' = handler, chan' = chan,
               \A d \in Conns : conn'[d].who # Nobody => conn'[d].key \in Keys
        PROVE  HandlersTell'
    BY <1>0, <2>0 DEF HandlersTell, EntryTells, HandlerTells, IsGit, Opening, ChansOf
  <2>1. CASE NewClient(c)
    <3>1. [NoConn EXCEPT !.up = TRUE,
             !.permit = Cardinality({d \in Conns : conn[d].permit}) < MaxConnections].who = Nobody
      BY DEF NoConn
    <3> QED
      BY <1>0, <2>0, <2>1, <3>1 DEF NewClient
  <2>2. CASE Disconnect(c)
    <3>1. /\ handler' = handler /\ handler[c].stage = "idle"
          /\ \A d \in Conns : conn'[d].who # Nobody => conn'[d].key \in Keys
          /\ \A ch \in ChansOf(c) : chan'[ch].kind = "none"
          /\ \A ch \in Chans \ ChansOf(c) : chan'[ch] = chan[ch]
      BY <1>0, <2>2, Shapes DEF Disconnect, Free, ChansOf
    <3>2. \A ch \in ChansOf(c) : EntryTells(ch)'
      BY <1>0, <3>1, EntryKept
    <3>3. HandlerTells(c)'
      BY <3>1, HandlerEnds
    <3> QED
      BY <3>1, <3>2, <3>3, OwnChannels
  <2>3. ASSUME NEW k \in Keys, AuthPublicKey(c, k) PROVE HandlersTell'
    <3>1. \A d \in Conns : conn'[d] = conn[d] \/ conn'[d].key = k
      BY <2>3 DEF AuthPublicKey, ConnRow
    <3> QED
      BY <1>0, <2>0, <2>3, <3>1 DEF AuthPublicKey
  <2>4. ASSUME NEW p \in AskedProtocols, EnvRequest(c, p) PROVE HandlersTell'
    <3>1. \A d \in Conns : conn'[d].who = conn[d].who /\ conn'[d].key = conn[d].key
      BY <2>4 DEF EnvRequest, ConnRow
    <3> QED
      BY <1>0, <2>0, <2>4, <3>1 DEF EnvRequest
  <2> QED
    BY <1>1, <2>1, <2>2, <2>3, <2>4 DEF Session
<1>2. ASSUME NEW c \in Conns, HandlerStep(c) PROVE HandlersTell'
  <2> DEFINE ch == handler[c].chan
  <2>a. HandlerTells(c) /\ handler[c] \in HandlerRow
    BY <1>0
  <2>1. CASE MutationPermit(c)
    <3>1. /\ handler'[c].stage = "advertise" /\ handler'[c].chan = handler[c].chan
          /\ handler'[c].row = handler[c].row
          /\ \A d \in Conns \ {c} : handler'[d] = handler[d]
      BY <2>1, <2>a, StageRow DEF MutationPermit, Stages
    <3>2. HandlerTells(c)'
      BY <2>1, <2>a, <3>1 DEF MutationPermit, HandlerTells, Opening, ChansOf
    <3> QED
      BY <2>1, <1>d, <3>1, <3>2 DEF MutationPermit
  <2>2. CASE Advertise(c)
    <3> DEFINE row == handler[c].row
               n == IF row.kind = "upload" /\ row.protocol = "v0" THEN tip[row.repo] ELSE 0
    <3>1. /\ ch \in ChansOf(c) /\ row \in ChanRow /\ row.repo \in Repos
          /\ row.key \in Keys /\ row.who \in Users /\ row.name \in Names
      BY <2>2, <2>a DEF Advertise, HandlerTells, Opening, HandlerRow
    <3>2. handler'[c].stage = "idle" /\ \A d \in Conns \ {c} : handler'[d] = handler[d]
      BY <2>2, Shapes DEF Advertise
    <3>3. chan' = chan \/ chan' = [chan EXCEPT ![ch] = [row EXCEPT !.seen = n]]
      BY <2>2 DEF Advertise
    <3>4. n \in 0..MaxCommit
      BY <3>1, CommitAssumption
    <3> HIDE DEF n
    <3>5. /\ [row EXCEPT !.seen = n].repo = row.repo /\ [row EXCEPT !.seen = n].key = row.key
          /\ [row EXCEPT !.seen = n].who = row.who /\ [row EXCEPT !.seen = n].name = row.name
      BY <3>1, <3>4, SeenRow
    <3>6. \A d \in Chans : \/ chan'[d] = chan[d]
                           \/ /\ d = ch
                              /\ chan'[d].repo \in Repos /\ chan'[d].key \in Keys
                              /\ chan'[d].who \in Users /\ chan'[d].name \in Names
      BY <3>1, <3>3, <3>5
    <3>7. \A d \in ChansOf(c) : EntryTells(d)'
      BY <1>0, <3>6 DEF EntryTells, IsGit
    <3>8. \A d \in Chans \ ChansOf(c) : chan'[d] = chan[d]
      BY <3>1, <3>6
    <3>9. HandlerTells(c)'
      BY <3>2, HandlerEnds
    <3> QED
      BY <1>a, <2>2, <3>2, <3>7, <3>8, <3>9, OwnChannels DEF Advertise
  <2>3. CASE RespondListing(c)
    <3> DEFINE n == tip[chan[ch].repo]
    <3>1. ch \in ChansOf(c) /\ ch \in Chans /\ chan[ch].repo \in Repos /\ chan[ch] \in ChanRow
      BY <1>0, <2>3, <2>a DEF RespondListing, HandlerTells, EntryTells, IsGit
    <3>2. handler'[c].stage = "idle" /\ \A d \in Conns \ {c} : handler'[d] = handler[d]
      BY <2>3, Shapes DEF RespondListing
    <3>3. n \in 0..MaxCommit
      BY <3>1, CommitAssumption
    <3>4. CASE End(ch)
      BY <2>3, <1>c, <3>1, <3>2, <3>4 DEF RespondListing
    <3>5. CASE chan' = [chan EXCEPT ![ch].seen = n]
      <4> HIDE DEF n
      <4>1. chan'[ch] = [chan[ch] EXCEPT !.seen = n] /\ \A d \in Chans \ {ch} : chan'[d] = chan[d]
        BY <3>1, <3>5
      <4>2. /\ chan'[ch].kind = chan[ch].kind /\ chan'[ch].repo = chan[ch].repo
            /\ chan'[ch].key = chan[ch].key /\ chan'[ch].who = chan[ch].who
            /\ chan'[ch].name = chan[ch].name
        BY <3>1, <3>3, <4>1, SeenRow
      <4>3. \A d \in ChansOf(c) : EntryTells(d)'
        BY <1>0, <4>1, <4>2, EntryKept
      <4>4. \A d \in Chans \ ChansOf(c) : chan'[d] = chan[d]
        BY <3>1, <4>1
      <4>5. HandlerTells(c)'
        BY <3>2, HandlerEnds
      <4> QED
        BY <1>a, <2>3, <3>2, <4>3, <4>4, <4>5, OwnChannels DEF RespondListing
    <3> QED
      BY <2>3, <3>4, <3>5 DEF RespondListing
  <2>4. CASE RespondFetch(c) \/ PushWrite(c)
    <3>1. ch \in ChansOf(c) /\ End(ch) /\ conn' = conn
      BY <2>4, <2>a DEF RespondFetch, PushWrite, HandlerTells
    <3>2. handler'[c].stage = "idle" /\ \A d \in Conns \ {c} : handler'[d] = handler[d]
      BY <2>4, Shapes DEF RespondFetch, PushWrite
    <3> QED
      BY <1>c, <3>1, <3>2
  <2>5. CASE PushCheck(c)
    <3> DEFINE row == chan[ch]
               b == /\ identity[row.key] = row.who
                    /\ role[row.repo][row.who] = "writer" \/ repoAt[row.name] # row.repo
    <3>1. ch \in ChansOf(c) /\ chan[ch].kind = "receive" /\ conn' = conn
      BY <2>5, <2>a DEF PushCheck, HandlerTells
    <3>2. CASE chan' = chan /\ handler' = [handler EXCEPT ![c] = [handler[c] EXCEPT !.stage = "write", !.granted = b]]
      <4>1. b \in BOOLEAN
        OBVIOUS
      <4>2. handler'[c] = [handler[c] EXCEPT !.stage = "write", !.granted = b]
            /\ \A d \in Conns \ {c} : handler'[d] = handler[d]
        BY <3>2
      <4> HIDE DEF b
      <4>3. handler'[c].stage = "write" /\ handler'[c].chan = ch
        <5> DEFINE q == [handler[c] EXCEPT !.stage = "write", !.granted = b]
        <5>1. q.stage = "write" /\ q.chan = handler[c].chan
          BY <2>a, <4>1, WriteRow
        <5> QED
          BY <4>2, <5>1
      <4>4. HandlerTells(c)'
        BY <3>1, <3>2, <4>3 DEF HandlerTells, Opening, ChansOf
      <4> QED
        BY <1>d, <3>1, <3>2, <4>2, <4>4
    <3>3. CASE End(ch) /\ Done(c)
      <4>1. handler'[c].stage = "idle" /\ \A d \in Conns \ {c} : handler'[d] = handler[d]
        BY <3>3, Shapes
      <4> QED
        BY <1>c, <3>1, <3>3, <4>1
    <3> QED
      BY <2>5, <3>2, <3>3 DEF PushCheck
  <2>6. CASE RunEnds(c)
    <3>1. handler'[c].stage = "idle" /\ \A d \in Conns \ {c} : handler'[d] = handler[d]
      BY <2>6, Shapes DEF RunEnds
    <3>2. HandlerTells(c)'
      BY <3>1, HandlerEnds
    <3> QED
      BY <1>d, <2>6, <3>1, <3>2 DEF RunEnds
  <2> QED
    BY <1>2, <2>1, <2>2, <2>3, <2>4, <2>5, <2>6 DEF HandlerStep
<1>3. ASSUME NEW ch \in Chans, Message(ch) PROVE HandlersTell'
  <2> DEFINE c == ch[1]
  <2>0. c \in Conns /\ ch \in ChansOf(c) /\ conn[c] \in ConnRow
    BY DEF ChansOf
  <2>1. ASSUME NEW kind \in {"upload", "receive"}, NEW name \in Names, OpenGitService(ch, kind, name)
        PROVE  HandlersTell'
    <3>1. conn[c].key \in Keys /\ conn[c].who \in Users /\ repoAt[name] \in Repos
      BY <1>0, <2>0, <2>1 DEF OpenGitService, ActiveIdentity, ConnRow, CanRead, CanWrite, Authorize
    <3>2. /\ handler'[c].stage \in {"lease", "advertise"} /\ handler'[c].chan = ch
          /\ handler'[c].row.kind = kind /\ handler'[c].row.name = name /\ handler'[c].row.repo = repoAt[name]
          /\ handler'[c].row.key = conn[c].key /\ handler'[c].row.who = conn[c].who
          /\ \A d \in Conns \ {c} : handler'[d] = handler[d]
      BY <2>0, <2>1 DEF OpenGitService, Handling, Entry
    <3>3. HandlerTells(c)'
      BY <2>0, <3>1, <3>2 DEF HandlerTells, Opening, ChansOf
    <3>4. conn' = conn /\ chan' = chan
      BY <2>1 DEF OpenGitService
    <3> HIDE DEF c
    <3> QED
      BY <1>d, <2>0, <3>2, <3>3, <3>4
  <2>2. ASSUME NEW name \in Names, OpenInput(ch, name) PROVE HandlersTell'
    <3>1. /\ chan'[ch].kind = "input" /\ \A d \in Chans \ {ch} : chan'[d] = chan[d]
          /\ handler' = handler /\ handler[c].stage = "idle" /\ conn' = conn
      BY <2>2 DEF OpenInput, Entry, Free
    <3>2. \A d \in ChansOf(c) : EntryTells(d)'
      BY <1>0, <3>1, EntryKept
    <3>3. \A d \in Chans \ ChansOf(c) : chan'[d] = chan[d]
      BY <2>0, <3>1
    <3>4. HandlerTells(c)'
      BY <2>0, <3>1, HandlerEnds
    <3> QED
      BY <1>a, <2>0, <3>1, <3>2, <3>3, <3>4, OwnChannels
  <2>3. CASE RunCommand(c)
    <3>1. handler'[c].stage = "run" /\ \A d \in Conns \ {c} : handler'[d] = handler[d]
      BY <2>0, <2>3 DEF RunCommand, Handling
    <3>2. HandlerTells(c)' /\ conn' = conn /\ chan' = chan
      BY <2>0, <2>3, <3>1, HandlerEnds DEF RunCommand
    <3> QED
      BY <1>d, <2>0, <3>1, <3>2
  <2>4. ASSUME NEW request \in {"ls-refs", "fetch"}, UploadData(ch, request) PROVE HandlersTell'
    <3>1. /\ handler'[c].stage = request /\ handler'[c].chan = ch
          /\ \A d \in Conns \ {c} : handler'[d] = handler[d]
          /\ conn' = conn /\ chan' = chan /\ chan[ch].kind = "upload"
      BY <2>0, <2>4 DEF UploadData, Handling
    <3>2. HandlerTells(c)'
      BY <2>0, <3>1 DEF HandlerTells, Opening, ChansOf
    <3> QED
      BY <1>d, <2>0, <3>1, <3>2
  <2>5. CASE FinishReceive(ch)
    <3>0. conn' = conn /\ chan[ch].kind = "receive" /\ handler[c].stage = "idle"
      BY <2>5 DEF FinishReceive, Free
    <3>1. CASE chan' = chan /\ Start(c, Handling("push", ch, Closed))
      <4>1. handler'[c].stage = "push" /\ handler'[c].chan = ch
            /\ \A d \in Conns \ {c} : handler'[d] = handler[d]
        BY <2>0, <3>1 DEF Handling
      <4>2. HandlerTells(c)'
        BY <2>0, <3>0, <3>1, <4>1 DEF HandlerTells, Opening, ChansOf
      <4> QED
        BY <1>d, <2>0, <3>0, <3>1, <4>1, <4>2
    <3>2. CASE End(ch) /\ handler' = handler
      BY <1>c, <2>0, <3>0, <3>2
    <3> QED
      BY <2>5, <3>1, <3>2 DEF FinishReceive
  <2>6. CASE RunInput(ch)
    <3>1. End(ch) /\ conn' = conn
      BY <2>6 DEF RunInput
    <3>2. /\ handler'[c].stage \in {"idle", "run"}
          /\ \A d \in Conns \ {c} : handler'[d] = handler[d]
      BY <2>0, <2>6 DEF RunInput, Free, Handling
    <3> QED
      BY <1>c, <2>0, <3>1, <3>2
  <2>7. CASE ChannelClose(ch)
    <3>1. End(ch) /\ conn' = conn /\ handler' = handler /\ handler[c].stage = "idle"
      BY <2>7 DEF ChannelClose, Free
    <3> QED
      BY <1>c, <2>0, <3>1
  <2> QED
    BY <1>3, <2>1, <2>2, <2>3, <2>4, <2>5, <2>6, <2>7 DEF Message
<1>4. ASSUME NEW ch \in Chans, Age(ch) PROVE HandlersTell'
  <2>1. \A d \in Chans : /\ chan'[d].kind = chan[d].kind /\ chan'[d].repo = chan[d].repo
                         /\ chan'[d].key = chan[d].key /\ chan'[d].who = chan[d].who
                         /\ chan'[d].name = chan[d].name
    BY <1>4, LateRow DEF Age
  <2>2. \A d \in Chans : EntryTells(d)'
    BY <1>0, <2>1, EntryKept
  <2>3. \A c \in Conns : HandlerTells(c)'
    BY <1>0, <1>4, <2>1 DEF Age, HandlerTells, Opening, ChansOf
  <2> QED
    BY <1>0, <1>4, <2>2, <2>3 DEF Age, HandlersTell
<1>5. CASE World
  <2>1. UNCHANGED <<conn, chan, handler>>
    BY <1>5 DEF World, ReloadKeys, SetRole, RenameRepository, BackupQueues, BackupHolds, BackupReleases,
                Clock, sshVars
  <2> QED
    BY <1>0, <2>1 DEF HandlersTell, EntryTells, HandlerTells, IsGit, Opening, ChansOf
<1>6. CASE UNCHANGED vars
  BY <1>0, <1>6 DEF vars, sshVars, HandlersTell, EntryTells, HandlerTells, IsGit, Opening, ChansOf
<1> QED
  BY <1>1, <1>2, <1>3, <1>4, <1>5, <1>6 DEF Next

-----------------------------------------------------------------------------
(***************************************************************************)
(* Authorization of writes                                                 *)
(***************************************************************************)

\* A check that passes when its handler starts to write, for the entry it has now.
LEMMA SessionsAuthorize ==
  TypeOK /\ HandlersTell /\ ChangesAreAuthorized /\ [Next]_vars => ChangesAreAuthorized'
<1> SUFFICES ASSUME TypeOK, HandlersTell, ChangesAreAuthorized, [Next]_vars,
                    NEW d \in Conns, handler'[d].stage \in {"write", "run"}
             PROVE  handler'[d].granted
  BY DEF ChangesAreAuthorized
<1>0. handler[d].stage \in {"write", "run"} => handler[d].granted
  BY DEF ChangesAreAuthorized
<1> USE DEF Keep, Elsewhere, Start, Done
<1>1. ASSUME NEW c \in Conns, HandlerStep(c) PROVE handler'[d].granted
  <2>1. CASE PushCheck(c)
    <3> DEFINE row == chan[handler[c].chan]
               b == /\ identity[row.key] = row.who
                    /\ role[row.repo][row.who] = "writer" \/ repoAt[row.name] # row.repo
               q == [handler[c] EXCEPT !.stage = "write", !.granted = b]
    <3>1. CASE Done(c)
      BY <1>0, <3>1, Shapes DEF TypeOK
    <3>2. CASE /\ identity[row.key] = row.who /\ CanWrite(row.who, row.name)
               /\ handler' = [handler EXCEPT ![c] = q]
      <4>1. b
        BY <3>2 DEF CanWrite, Authorize
      <4>2. handler'[d] = IF d = c THEN q ELSE handler[d]
        BY <3>2 DEF TypeOK
      <4>3. handler[c] \in HandlerRow /\ b \in BOOLEAN
        BY DEF TypeOK
      <4> HIDE DEF b
      <4>4. q.granted = b
        <5>1. \A r \in HandlerRow : [r EXCEPT !.stage = "write", !.granted = b].granted = b
          BY <4>3 DEF HandlerRow
        <5> QED
          BY <4>3, <5>1
      <4> HIDE DEF q
      <4>5. CASE d = c
        BY <4>1, <4>2, <4>4, <4>5
      <4>6. CASE d # c
        BY <1>0, <4>2, <4>6
      <4> QED
        BY <4>5, <4>6
    <3> QED
      BY <2>1, <3>1, <3>2 DEF PushCheck
  <2>2. CASE MutationPermit(c)
    <3>1. handler'[d] = IF d = c THEN [handler[c] EXCEPT !.stage = "advertise"] ELSE handler[d]
      BY <2>2 DEF MutationPermit, TypeOK
    <3>2. [handler[c] EXCEPT !.stage = "advertise"].stage = "advertise"
      BY StageRow DEF TypeOK, Stages
    <3> QED
      BY <1>0, <3>1, <3>2
  <2>3. CASE Done(c)
    BY <1>0, <2>3, Shapes DEF TypeOK
  <2> QED
    BY <1>1, <2>1, <2>2, <2>3 DEF HandlerStep, Advertise, RespondListing, RespondFetch, PushWrite, RunEnds
<1>2. ASSUME NEW ch \in Chans, Message(ch) PROVE handler'[d].granted
  <2> DEFINE c == ch[1]
  <2>0. c \in Conns
    BY ChanConn
  <2>1. CASE handler' = handler
    BY <1>0, <2>1
  <2>2. ASSUME NEW stage, NEW x, NEW row, Start(c, Handling(stage, x, row)) PROVE handler'[d].granted
    <3>1. handler'[d] = IF d = c THEN Handling(stage, x, row) ELSE handler[d]
      BY <2>0, <2>2 DEF TypeOK
    <3> QED
      BY <1>0, <3>1 DEF Handling
  <2>3. CASE RunInput(ch)
    <3> DEFINE b == identity[conn[c].key] = chan[ch].who
               q == [Handling("run", Nobody, Closed) EXCEPT !.granted = b]
    <3>1. CASE /\ ActiveIdentity(c) /\ conn[c].who = chan[ch].who
               /\ handler' = [handler EXCEPT ![c] = q]
      <4>1. b
        BY <3>1 DEF ActiveIdentity
      <4>2. handler'[d] = IF d = c THEN q ELSE handler[d]
        BY <2>0, <3>1 DEF TypeOK
      <4>3. Handling("run", Nobody, Closed) \in HandlerRow /\ b \in BOOLEAN
        BY Shapes DEF Stages
      <4> HIDE DEF b
      <4>4. q.granted = b
        BY <4>3, GrantRow
      <4> HIDE DEF q
      <4>5. CASE d = c
        BY <4>1, <4>2, <4>4, <4>5
      <4>6. CASE d # c
        BY <1>0, <4>2, <4>6
      <4> QED
        BY <4>5, <4>6
    <3> QED
      BY <2>1, <2>3, <3>1 DEF RunInput
  <2>4. ASSUME NEW kind, NEW name, OpenGitService(ch, kind, name) PROVE handler'[d].granted
    BY <2>2, <2>4 DEF OpenGitService
  <2>5. ASSUME NEW name, OpenInput(ch, name) PROVE handler'[d].granted
    BY <2>1, <2>5 DEF OpenInput
  <2>6. CASE RunCommand(c)
    BY <2>2, <2>6 DEF RunCommand
  <2>7. ASSUME NEW request, UploadData(ch, request) PROVE handler'[d].granted
    BY <2>2, <2>7 DEF UploadData
  <2>8. CASE FinishReceive(ch)
    BY <2>1, <2>2, <2>8 DEF FinishReceive
  <2>9. CASE ChannelClose(ch)
    BY <2>1, <2>9 DEF ChannelClose
  <2> QED
    BY <1>2, <2>3, <2>4, <2>5, <2>6, <2>7, <2>8, <2>9 DEF Message
<1>3. ASSUME handler' = handler PROVE handler'[d].granted
  BY <1>0, <1>3
<1>4. ASSUME NEW c \in Conns, Session(c) PROVE handler' = handler
  BY <1>4 DEF Session, NewClient, Disconnect, AuthPublicKey, EnvRequest
<1>5. ASSUME NEW ch \in Chans, Age(ch) PROVE handler' = handler
  BY <1>5 DEF Age
<1>6. ASSUME World PROVE handler' = handler
  BY <1>6 DEF World, ReloadKeys, SetRole, RenameRepository, BackupQueues, BackupHolds, BackupReleases,
              Clock, sshVars
<1>7. ASSUME UNCHANGED vars PROVE handler' = handler
  BY <1>7 DEF vars, sshVars
<1> QED
  BY <1>1, <1>2, <1>3, <1>4, <1>5, <1>6, <1>7 DEF Next

-----------------------------------------------------------------------------
(***************************************************************************)
(* Fetches                                                                 *)
(***************************************************************************)

\* The commits of the server are closed: an ancestor of an ancestor is an ancestor.
LEMMA ReachClosed ==
  ASSUME NEW n \in 1..MaxCommit
  PROVE  /\ Reach(n) = 1..n
         /\ \A x \in Reach(n) : Reach(x) \subseteq Reach(n)
<1>1. Reach(n) = 1..n
  BY CommitAssumption DEF Reach
<1>2. ASSUME NEW x \in 1..n PROVE Reach(x) = 1..x /\ 1..x \subseteq 1..n
  <2>1. x \in 1..MaxCommit
    BY CommitAssumption
  <2> QED
    BY <2>1, CommitAssumption DEF Reach
<1> QED
  BY <1>1, <1>2

\* The pack and what the client had are closed together: an ancestor that the pack
\* leaves out is reached by a have, and the client has all that its haves reach.
LEMMA SessionsFetch == TypeOK /\ HandlersTell /\ FetchIsClosed /\ [Next]_vars => FetchIsClosed'
<1> SUFFICES ASSUME TypeOK, HandlersTell, FetchIsClosed, [Next]_vars PROVE FetchIsClosed'
  OBVIOUS
<1>1. ASSUME store' = store PROVE FetchIsClosed'
  BY <1>1 DEF FetchIsClosed, ReachAll, Reach
<1>2. ASSUME NEW c \in Conns, RespondFetch(c) PROVE FetchIsClosed'
  <2> DEFINE ch == handler[c].chan
             want == chan[ch].seen
  <2>1. ch \in Chans /\ chan[ch].repo \in Repos
    BY <1>2, ChanConn DEF RespondFetch, HandlersTell, HandlerTells, EntryTells, IsGit
  <2>2. CASE store' = store
    BY <1>1, <2>2
  <2>3. ASSUME want = tip[chan[ch].repo], NEW haves \in SUBSET store[c],
               store' = [store EXCEPT ![c] = @ \cup (Reach(want) \ Excluded(haves, want))]
        PROVE  FetchIsClosed'
    <3>1. want \in 1..MaxCommit
      BY <2>1, <2>3 DEF TypeOK
    <3> HIDE DEF want
    <3>2. \A x \in Reach(want) : Reach(x) \subseteq Reach(want)
      BY <3>1, ReachClosed
    <3>3. \A x \in store[c] : Reach(x) \subseteq store[c]
      BY DEF FetchIsClosed, ReachAll
    <3>4. Excluded(haves, want) \subseteq store[c]
      BY <3>3 DEF Excluded, ReachAll
    <3>5. \A d \in Conns : store'[d] = IF d = c THEN store[c] \cup (Reach(want) \ Excluded(haves, want))
                                      ELSE store[d]
      BY <2>3 DEF TypeOK
    <3>6. ASSUME NEW x \in store'[c], NEW y \in Reach(x) PROVE y \in store'[c]
      <4>1. CASE x \in store[c]
        BY <3>3, <3>5, <3>6, <4>1
      <4>2. CASE x \in Reach(want)
        BY <3>2, <3>4, <3>5, <3>6, <4>2
      <4> QED
        BY <3>5, <3>6, <4>1, <4>2
    <3>7. ASSUME NEW d \in Conns, d # c PROVE ReachAll(store'[d]) \subseteq store'[d]
      BY <3>5, <3>7 DEF FetchIsClosed
    <3>8. ReachAll(store'[c]) \subseteq store'[c]
      BY <3>6 DEF ReachAll
    <3>9. \A d \in Conns : ReachAll(store'[d]) \subseteq store'[d]
      BY <3>7, <3>8
    <3> QED
      BY <3>9 DEF FetchIsClosed, ReachAll, Reach
  <2> QED
    BY <1>2, <2>2, <2>3 DEF RespondFetch
<1> USE DEF Keep, Elsewhere
<1>3. ASSUME NEW c \in Conns, Session(c) PROVE store' = store
  BY <1>3 DEF Session, NewClient, Disconnect, AuthPublicKey, EnvRequest
<1>4. ASSUME NEW c \in Conns, HandlerStep(c) PROVE store' = store \/ RespondFetch(c)
  BY <1>4 DEF HandlerStep, MutationPermit, Advertise, RespondListing, PushCheck, PushWrite, RunEnds
<1>5. ASSUME NEW ch \in Chans, Message(ch) \/ Age(ch) PROVE store' = store
  BY <1>5 DEF Message, OpenGitService, OpenInput, RunCommand, UploadData, FinishReceive, RunInput, ChannelClose, Age
<1>6. ASSUME World PROVE store' = store
  BY <1>6 DEF World, ReloadKeys, SetRole, RenameRepository, BackupQueues, BackupHolds, BackupReleases,
              Clock, sshVars
<1>7. ASSUME UNCHANGED vars PROVE store' = store
  BY <1>7 DEF vars, sshVars
<1> QED
  BY <1>1, <1>2, <1>3, <1>4, <1>5, <1>6, <1>7 DEF Next

-----------------------------------------------------------------------------
\* The invariant of the sessions
THEOREM SessionsHold == Spec => []SessionsInv
<1>1. SessionsInv /\ [Next]_vars => SessionsInv'
  BY SessionsTyped, SessionsTell, SessionsAuthorize, SessionsFetch DEF SessionsInv
<1> QED
  BY <1>1, SessionsInit, PTL DEF Spec

(***************************************************************************)
(* Whatever was revoked, taken away or renamed since a channel opened,     *)
(* finish_receive lets a push write only for a user whose key and role     *)
(* allow it then, and channel_eof runs a command only for its actor.       *)
(***************************************************************************)
THEOREM WritesAuthorized == Spec => []ChangesAreAuthorized
<1>1. SessionsInv => ChangesAreAuthorized
  BY DEF SessionsInv
<1> QED
  BY <1>1, SessionsHold, PTL

(***************************************************************************)
(* write_pack never leaves a clone without an ancestor of a commit it has, *)
(* whatever haves the client sends and whatever was pushed meanwhile.      *)
(***************************************************************************)
THEOREM ClonesClosed == Spec => []FetchIsClosed
<1>1. SessionsInv => FetchIsClosed
  BY DEF SessionsInv
<1> QED
  BY <1>1, SessionsHold, PTL
=============================================================================
