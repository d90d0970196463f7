---------------------------- MODULE ClaimsProofs ----------------------------
(***************************************************************************)
(* Theorems about module Claims: what TLC checks on two members and two    *)
(* claims holds for every set of members, patterns, places and sprints and *)
(* for every bound.                                                        *)
(***************************************************************************)
EXTENDS Claims, FiniteSetTheorems, TLAPS

-----------------------------------------------------------------------------
(***************************************************************************)
(* Scopes and leases.                                                      *)
(***************************************************************************)

\* Which of two scopes is asked for and which is held does not matter to
\* whether they collide (F8 of path-match.ts).
LEMMA OverlapSymmetric ==
  ASSUME NEW S \in Patterns, NEW T \in Patterns, Overlap(S, T)
  PROVE  Overlap(T, S)
  BY PathAssumption DEF Overlap, Matched, Patterns

\* A scope that can be asked for can be stored in a row.
LEMMA ScopePatterns ==
  ASSUME NEW S \in Scopes
  PROVE  S \in Patterns
  BY ScopeAssumption DEF Patterns

\* An expiry computed for a new or refreshed lease is one a row may hold.
LEMMA ExpiresAtType ==
  ASSUME now \in Nat, NEW m, NEW lease \in Nat
  PROVE  ExpiresAt(m, lease) \in Nat \cup {Never}
  BY DEF ExpiresAt

LEMMA LeaseType ==
  ASSUME NEW m, NEW lease \in Lease(m)
  PROVE  lease \in Nat /\ (m = "ttl" => lease > 0)
  BY TimeAssumption DEF Lease

-----------------------------------------------------------------------------
(***************************************************************************)
(* Types.                                                                  *)
(***************************************************************************)

\* Marking rows of the queue resolved keeps it a queue.
LEMMA ResolveType ==
  ASSUME TypeOK, NEW cs, ResolvePendingEdits(cs)
  PROVE  /\ DOMAIN pending' = DOMAIN pending
         /\ pending' \in [DOMAIN pending -> PendingEdit]
         /\ \A q \in DOMAIN pending :
              /\ pending'[q].blocking = pending[q].blocking
              /\ pending'[q].sprint = pending[q].sprint
              /\ Open(q)' => Open(q)
  BY DEF TypeOK, ResolvePendingEdits, PendingEdit, Open

\* Ending claims changes their status and nothing else.
LEMMA ReleaseType ==
  ASSUME TypeOK, NEW cs, Release(cs)
  PROVE  /\ DOMAIN claims' = DOMAIN claims
         /\ claims' \in [DOMAIN claims -> Claim]
<1>1. \A c \in DOMAIN claims : claims[c] \in Claim
  BY DEF TypeOK
<1>2. \A c \in DOMAIN claims : [claims[c] EXCEPT !.status = "released"] \in Claim
  BY <1>1 DEF Claim
<1>. QED
  BY <1>1, <1>2 DEF Release

\* Claim ids are 1, 2, ...: the next one is unused.
LEMMA NextId ==
  ASSUME TypeOK
  PROVE  LET n == Cardinality(DOMAIN claims)
         IN  /\ n \in Nat /\ DOMAIN claims = 1 .. n
             /\ n + 1 \notin DOMAIN claims
             /\ DOMAIN claims \cup {n + 1} = 1 .. (n + 1)
             /\ Cardinality(1 .. (n + 1)) = n + 1
<1> DEFINE n == Cardinality(DOMAIN claims)
<1>1. IsFiniteSet(DOMAIN claims)
  <2>1. IsFiniteSet(ClaimId)
    BY BoundAssumption, FS_Interval DEF ClaimId
  <2>. QED
    BY <2>1, FS_Subset DEF TypeOK
<1>2. n \in Nat
  BY <1>1, FS_CardinalityType
<1>3. DOMAIN claims = 1 .. n
  BY DEF TypeOK
<1>4. Cardinality(1 .. (n + 1)) = n + 1
  BY <1>2, FS_Interval, n + 1 \in Int, 1 \in Int
<1> HIDE DEF n
<1>5. n + 1 \notin 1 .. n /\ (1 .. n) \cup {n + 1} = 1 .. (n + 1)
  BY <1>2
<1>. QED
  BY <1>2, <1>3, <1>4, <1>5 DEF n

\* The claim that ClaimFresh inserts, and the rest of what it does.
FreshRow(p, S, pl, m, lease, h) ==
  [status |-> "active", owner |-> p, scope |-> S, sprint |-> sprintOf[p],
   place |-> pl, mode |-> m, expires |-> ExpiresAt(m, lease),
   head |-> h, paused |-> FALSE, tombstoned |-> FALSE]

FreshAs(c, p, S, pl, m, lease, h) ==
  /\ c \notin DOMAIN claims
  /\ DOMAIN claims' = DOMAIN claims \cup {c}
  /\ DOMAIN claims' = 1 .. Cardinality(DOMAIN claims')
  /\ claims' \in [DOMAIN claims' -> Claim]
  /\ claims'[c] = FreshRow(p, S, pl, m, lease, h)
  /\ \A d \in DOMAIN claims : claims'[d] = claims[d]
  /\ Hits(S, sprintOf[p], pl) = {}
  /\ keyed' = IF <<p, S, sprintOf[p]>> \in DOMAIN keyed THEN keyed
              ELSE WithRow(keyed, <<p, S, sprintOf[p]>>, c)
  /\ UNCHANGED <<ended, unread, pending, sprintOf, now>>

LEMMA FreshStep ==
  ASSUME TypeOK, NEW p \in Principals, NEW S \in Scopes, NEW pl \in Places,
         NEW m \in Modes, NEW lease \in Lease(m), NEW h \in AcquiredAt,
         ClaimFresh(p, S, pl, m, lease, h)
  PROVE  \E c \in ClaimId : FreshAs(c, p, S, pl, m, lease, h)
<1> DEFINE n == Cardinality(DOMAIN claims)
           c == n + 1
           r == FreshRow(p, S, pl, m, lease, h)
<1>1. r \in Claim
  <2>1. now \in Nat
    BY TimeAssumption DEF TypeOK
  <2>2. ExpiresAt(m, lease) \in Nat \cup {Never}
    BY <2>1, LeaseType, ExpiresAtType
  <2>3. S \in Patterns
    BY ScopePatterns
  <2>. QED
    BY <2>2, <2>3, ModeAssumption DEF TypeOK, Claim, FreshRow
<1>2. c \in ClaimId /\ claims' = WithRow(claims, c, r)
  BY DEF ClaimFresh, FreshRow
<1>3. /\ c \notin DOMAIN claims
      /\ DOMAIN claims \cup {c} = 1 .. Cardinality(DOMAIN claims \cup {c})
  BY NextId
<1> HIDE DEF r, c
<1>4. /\ DOMAIN claims' = DOMAIN claims \cup {c}
      /\ claims' \in [DOMAIN claims' -> Claim]
      /\ claims'[c] = r
      /\ \A d \in DOMAIN claims : claims'[d] = claims[d]
  BY <1>1, <1>2, <1>3 DEF TypeOK, WithRow
<1>5. /\ Hits(S, sprintOf[p], pl) = {}
      /\ keyed' = IF <<p, S, sprintOf[p]>> \in DOMAIN keyed THEN keyed
                  ELSE WithRow(keyed, <<p, S, sprintOf[p]>>, c)
      /\ UNCHANGED <<ended, unread, pending, sprintOf, now>>
  BY DEF ClaimFresh, KeyOf, c
<1>6. DOMAIN claims' = 1 .. Cardinality(DOMAIN claims')
  BY <1>3, <1>4
<1>. QED
  BY <1>2, <1>3, <1>4, <1>5, <1>6 DEF r, FreshAs

LEMMA TypeClaimFresh ==
  ASSUME TypeOK, NEW p \in Principals, NEW S \in Scopes, NEW pl \in Places,
         NEW m \in Modes, NEW lease \in Lease(m), NEW h \in AcquiredAt,
         ClaimFresh(p, S, pl, m, lease, h)
  PROVE  TypeOK'
<1> DEFINE k == <<p, S, sprintOf[p]>>
<1>1. PICK c \in ClaimId : FreshAs(c, p, S, pl, m, lease, h)
  BY FreshStep
<1>2. k \in Principals \X Scopes \X Contexts
  BY DEF TypeOK
<1>5. keyed' = IF k \in DOMAIN keyed THEN keyed ELSE WithRow(keyed, k, c)
  BY <1>1 DEF FreshAs
<1> HIDE DEF k
<1>3. /\ DOMAIN keyed' \subseteq Principals \X Scopes \X Contexts
      /\ keyed' \in [DOMAIN keyed' -> DOMAIN claims']
  BY <1>1, <1>2, <1>5 DEF TypeOK, WithRow, FreshAs
<1>4. /\ DOMAIN claims' \subseteq ClaimId
      /\ DOMAIN claims' = 1 .. Cardinality(DOMAIN claims')
      /\ DOMAIN claims \subseteq DOMAIN claims'
      /\ claims' \in [DOMAIN claims' -> Claim]
      /\ UNCHANGED <<ended, unread, pending, sprintOf, now>>
  BY <1>1 DEF FreshAs, TypeOK
<1>. QED
  BY <1>3, <1>4 DEF TypeOK

\* A step that leaves queue, index and log alone and rewrites rows in type.
LEMMA TypeRowsOnly ==
  ASSUME TypeOK, DOMAIN claims' = DOMAIN claims,
         claims' \in [DOMAIN claims -> Claim],
         UNCHANGED <<keyed, ended, unread, pending, sprintOf, now>>
  PROVE  TypeOK'
  BY DEF TypeOK

LEMMA RefreshedType ==
  ASSUME TypeOK, NEW c \in DOMAIN claims, NEW m \in Modes,
         NEW lease \in Lease(m)
  PROVE  Refreshed(c, m, lease) \in Nat \cup {Never}
<1>1. now \in Nat
  BY TimeAssumption DEF TypeOK
<1>2. ExpiresAt(m, lease) \in Nat \cup {Never}
  BY <1>1, LeaseType, ExpiresAtType
<1>3. claims[c].expires \in Nat \cup {Never}
  BY DEF TypeOK, Claim
<1>. QED
  BY <1>2, <1>3 DEF Refreshed

\* What a repeated request may do to the rows.
LEMMA AgainStep ==
  ASSUME TypeOK, NEW p \in Principals, NEW S \in Scopes, NEW pl \in Places,
         NEW m \in Modes, NEW lease \in Lease(m),
         ClaimAgain(p, S, pl, m, lease)
  PROVE  /\ UNCHANGED <<keyed, ended, unread, pending, sprintOf, now>>
         /\ \/ UNCHANGED claims
            \/ \E c \in DOMAIN claims :
                 /\ Live(c)
                 /\ claims' = [claims EXCEPT ![c].expires = Refreshed(c, m, lease)]
  BY DEF ClaimAgain, Repeated, Supersets, Hits, SelectActive

LEMMA TypeClaimAgain ==
  ASSUME TypeOK, NEW p \in Principals, NEW S \in Scopes, NEW pl \in Places,
         NEW m \in Modes, NEW lease \in Lease(m),
         ClaimAgain(p, S, pl, m, lease)
  PROVE  TypeOK'
<1>1. UNCHANGED <<keyed, ended, unread, pending, sprintOf, now>>
  BY AgainStep
<1>2. CASE UNCHANGED claims
  BY <1>1, <1>2, TypeRowsOnly DEF TypeOK
<1>3. ASSUME NEW c \in DOMAIN claims,
             claims' = [claims EXCEPT ![c].expires = Refreshed(c, m, lease)]
      PROVE  TypeOK'
  <2>1. Refreshed(c, m, lease) \in Nat \cup {Never}
    BY RefreshedType
  <2>2. DOMAIN claims' = DOMAIN claims /\ claims' \in [DOMAIN claims -> Claim]
    BY <1>3, <2>1 DEF TypeOK, Claim
  <2>. QED
    BY <1>1, <2>2, TypeRowsOnly
<1>. QED
  BY <1>2, <1>3, AgainStep

LEMMA PairsIn ==
  ASSUME NEW C, NEW R, NEW cs \in SUBSET C, NEW t \in R
  PROVE  cs \X {t} \subseteq C \X R
  OBVIOUS

\* The three ways a claim is ended by a member or a hook.
LEMMA TypeEnd ==
  ASSUME TypeOK, NEW cs \in SUBSET DOMAIN claims, NEW t \in ReleaseEvents,
         Release(cs), ended' = ended \cup (cs \X {t}),
         \/ ResolvePendingEdits(cs) /\ UNCHANGED unread
         \/ UNCHANGED pending /\ unread' = unread \cup cs,
         UNCHANGED <<keyed, sprintOf, now>>
  PROVE  TypeOK'
<1>1. DOMAIN claims' = DOMAIN claims /\ claims' \in [DOMAIN claims -> Claim]
  BY ReleaseType
<1>2. /\ DOMAIN pending' = DOMAIN pending
      /\ pending' \in [DOMAIN pending -> PendingEdit]
      /\ \A q \in DOMAIN pending : pending'[q].blocking = pending[q].blocking
  <2>1. CASE ResolvePendingEdits(cs)
    BY <2>1, ResolveType
  <2>2. CASE UNCHANGED pending
    BY <2>2 DEF TypeOK
  <2>. QED
    BY <2>1, <2>2
<1>3. ended' \subseteq (DOMAIN claims) \X ReleaseEvents
  <2>1. cs \X {t} \subseteq (DOMAIN claims) \X ReleaseEvents
    BY PairsIn
  <2>. QED
    BY <2>1 DEF TypeOK
<1>4. unread' \subseteq DOMAIN claims
  BY DEF TypeOK
<1>. QED
  BY <1>1, <1>2, <1>3, <1>4 DEF TypeOK

LEMMA TypeSetPaused ==
  ASSUME TypeOK, NEW p, NEW pl, NEW b \in BOOLEAN, SetPaused(p, pl, b)
  PROVE  TypeOK'
<1>1. PICK cs :
        /\ claims' = [c \in DOMAIN claims |->
                        IF c \in cs THEN [claims[c] EXCEPT !.paused = b]
                                    ELSE claims[c]]
        /\ UNCHANGED <<keyed, ended, unread, pending, sprintOf, now>>
  BY DEF SetPaused
<1>2. \A c \in DOMAIN claims : [claims[c] EXCEPT !.paused = b] \in Claim
  BY DEF TypeOK, Claim
<1>3. DOMAIN claims' = DOMAIN claims /\ claims' \in [DOMAIN claims -> Claim]
  BY <1>1, <1>2 DEF TypeOK
<1>. QED
  BY <1>1, <1>3, TypeRowsOnly

LEMMA TypeQueuePendingEdit ==
  ASSUME TypeOK, NEW p \in Principals, NEW c \in DOMAIN claims, NEW S \in Scopes,
         QueuePendingEdit(p, c, S)
  PROVE  TypeOK'
<1> DEFINE r == [blocked |-> p, blocking |-> c, paths |-> S,
                 sprint |-> QueuedIn(p, c), expires |-> now + PendingTTL,
                 resolved |-> FALSE, tombstoned |-> FALSE]
<1>1. PICK q \in PendingId \ DOMAIN pending : pending' = WithRow(pending, q, r)
  BY DEF QueuePendingEdit
<1>2. r \in PendingEdit /\ r.blocking = c
  BY TimeAssumption DEF TypeOK, PendingEdit, Claim, QueuedIn
<1>3. UNCHANGED <<claims, keyed, ended, unread, sprintOf, now>>
  BY DEF QueuePendingEdit
<1> HIDE DEF r
<1>4. /\ DOMAIN pending' = DOMAIN pending \cup {q}
      /\ pending' \in [DOMAIN pending \cup {q} -> PendingEdit]
      /\ \A i \in DOMAIN pending' : pending'[i].blocking \in DOMAIN claims
  BY <1>1, <1>2 DEF TypeOK, WithRow
<1>. QED
  BY <1>3, <1>4 DEF TypeOK

LEMMA TypeDeletePending ==
  ASSUME TypeOK, NEW qs, DeletePending(qs)
  PROVE  TypeOK'
  BY DEF TypeOK, DeletePending

LEMMA TypeStep == TypeOK /\ [Next]_vars => TypeOK'
<1> SUFFICES ASSUME TypeOK, [Next]_vars
             PROVE  TypeOK'
  OBVIOUS
<1>1. ASSUME NEW p \in Principals, NEW S \in Scopes, NEW pl \in Places,
             NEW m \in Modes, NEW lease \in Lease(m), NEW h \in AcquiredAt,
             ClaimScope(p, S, pl, m, lease, h)
      PROVE  TypeOK'
  BY <1>1, TypeClaimFresh, TypeClaimAgain DEF ClaimScope
<1>2. ASSUME NEW p \in Principals, NEW c \in ClaimId, ReleaseScope(p, c)
      PROVE  TypeOK'
  <2>1. ended' = ended \cup ({c} \X {"scope_released"}) /\ c \in DOMAIN claims
    BY <1>2 DEF ReleaseScope
  <2>. QED
    BY <1>2, <2>1, TypeEnd DEF ReleaseScope, ReleaseEvents
<1>3. ASSUME NEW p \in Principals, NEW pl \in Places, NEW h \in Heads,
             NEW done \in SUBSET Files, ReleaseScopeViaGit(p, pl, h, done)
      PROVE  TypeOK'
  BY <1>3, TypeEnd DEF ReleaseScopeViaGit, ReleaseEvents
<1>4. ASSUME NEW c \in ClaimId, ForceRelease(c)
      PROVE  TypeOK'
  <2>1. ended' = ended \cup ({c} \X {"claim_force_released"}) /\ c \in DOMAIN claims
    BY <1>4 DEF ForceRelease
  <2>. QED
    BY <1>4, <2>1, TypeEnd DEF ForceRelease, ReleaseEvents
<1>5. ASSUME NEW p \in Principals, FetchUnreadNotifications(p)
      PROVE  TypeOK'
  BY <1>5 DEF TypeOK, FetchUnreadNotifications
<1>6. ASSUME NEW p \in Principals, NEW pl \in Places,
             PauseClaimsForBranch(p, pl) \/ ResumeClaimsForBranch(p, pl)
      PROVE  TypeOK'
  BY <1>6, TypeSetPaused DEF PauseClaimsForBranch, ResumeClaimsForBranch
<1>7. ASSUME NEW p \in Principals, NEW c \in DOMAIN claims, NEW S \in Scopes,
             QueuePendingEdit(p, c, S)
      PROVE  TypeOK'
  BY <1>7, TypeQueuePendingEdit
<1>8. ASSUME NEW p \in Principals, ClearQueue(p)
      PROVE  TypeOK'
  BY <1>8, TypeDeletePending DEF ClearQueue
<1>9. CASE GcExpiredPendingEdits
  BY <1>9, TypeDeletePending DEF GcExpiredPendingEdits
<1>10. ASSUME NEW p \in Principals,
              LeaveSprint(p) \/ \E x \in Sprints : JoinSprint(p, x)
       PROVE  TypeOK'
  BY <1>10 DEF TypeOK, JoinSprint, LeaveSprint, Contexts
<1>11. CASE Tick
  BY <1>11, TimeAssumption DEF TypeOK, Tick
<1>12. CASE UNCHANGED vars
  BY <1>12 DEF TypeOK, vars
<1>. QED
  BY <1>1, <1>2, <1>3, <1>4, <1>5, <1>6, <1>7, <1>8, <1>9, <1>10, <1>11, <1>12
  DEF Next, Tools

\* Every state is well typed, for every set of members, patterns and sprints
\* and every bound: in particular rows refer only to rows that exist.
THEOREM TypeCorrect == Spec => []TypeOK
<1>1. Init => TypeOK
  BY FS_EmptySet, TimeAssumption DEF Init, TypeOK, NoRows, Contexts
<1>. QED
  BY <1>1, TypeStep, PTL DEF Spec

-----------------------------------------------------------------------------
(***************************************************************************)
(* Who may hold what: every step but a fresh claim is quiet, that is, it   *)
(* leaves the identity of rows alone and brings none of them to life.      *)
(***************************************************************************)

Quiet ==
  /\ DOMAIN claims' = DOMAIN claims
  /\ \A c \in DOMAIN claims :
       /\ claims'[c].owner = claims[c].owner
       /\ claims'[c].scope = claims[c].scope
       /\ claims'[c].sprint = claims[c].sprint
       /\ claims'[c].place = claims[c].place
       /\ claims'[c].mode = claims[c].mode
       /\ claims'[c].expires = Never <=> claims[c].expires = Never
       /\ Live(c)' => Live(c)

LEMMA QuietUnchanged ==
  ASSUME TypeOK, UNCHANGED claims, UNCHANGED now
  PROVE  Quiet
  BY DEF TypeOK, Quiet, Live, Visible, Unexpired

LEMMA QuietTick ==
  ASSUME TypeOK, Tick
  PROVE  Quiet
<1>1. now \in Nat /\ now' = now + 1 /\ UNCHANGED claims
  BY TimeAssumption DEF TypeOK, Tick
<1>2. \A c \in DOMAIN claims : claims[c].expires \in Nat \cup {Never}
  BY DEF TypeOK, Claim
<1>3. \A c \in DOMAIN claims : Live(c)' => Live(c)
  BY <1>1, <1>2 DEF Live, Visible, Unexpired
<1>. QED
  BY <1>1, <1>3 DEF Quiet

LEMMA QuietRelease ==
  ASSUME TypeOK, NEW cs, Release(cs), UNCHANGED now
  PROVE  Quiet
<1>1. /\ DOMAIN claims' = DOMAIN claims
      /\ \A c \in DOMAIN claims :
           claims'[c] = IF c \in cs THEN [claims[c] EXCEPT !.status = "released"]
                                    ELSE claims[c]
  BY DEF Release
<1>2. \A c \in DOMAIN claims : claims[c] \in Claim
  BY DEF TypeOK
<1>3. ASSUME NEW c \in DOMAIN claims, c \notin cs
      PROVE  claims'[c] = claims[c]
  BY <1>1, <1>3
<1>4. ASSUME NEW c \in DOMAIN claims, c \in cs
      PROVE  claims'[c] = [claims[c] EXCEPT !.status = "released"]
  BY <1>1, <1>4
<1>5. ASSUME NEW c \in DOMAIN claims, c \in cs
      PROVE  ~ Live(c)'
  BY <1>2, <1>4, <1>5 DEF Live, Visible, Claim
<1>6. ASSUME NEW c \in DOMAIN claims, c \notin cs
      PROVE  Live(c)' => Live(c)
  BY <1>3, <1>6 DEF Live, Visible, Unexpired
<1>. QED
  BY <1>1, <1>2, <1>3, <1>4, <1>5, <1>6 DEF Quiet, Claim

LEMMA QuietSetPaused ==
  ASSUME TypeOK, NEW p, NEW pl, NEW b \in BOOLEAN, SetPaused(p, pl, b)
  PROVE  Quiet
<1>1. PICK cs : claims' = [c \in DOMAIN claims |->
                             IF c \in cs THEN [claims[c] EXCEPT !.paused = b]
                                         ELSE claims[c]]
  BY DEF SetPaused
<1>2. now' = now /\ \A c \in DOMAIN claims : claims[c] \in Claim
  BY DEF SetPaused, TypeOK
<1>. QED
  BY <1>1, <1>2 DEF Quiet, Live, Visible, Unexpired, Claim

\* The refresh of a lease touches only a live row, and a row held on a lease.
LEMMA QuietClaimAgain ==
  ASSUME TypeOK, LeaseMatchesMode,
         NEW p \in Principals, NEW S \in Scopes, NEW pl \in Places,
         NEW m \in Modes, NEW lease \in Lease(m),
         ClaimAgain(p, S, pl, m, lease)
  PROVE  Quiet
<1>1. UNCHANGED now
  BY AgainStep
<1>2. CASE UNCHANGED claims
  BY <1>1, <1>2, QuietUnchanged
<1>3. ASSUME NEW c \in DOMAIN claims, Live(c),
             claims' = [claims EXCEPT ![c].expires = Refreshed(c, m, lease)]
      PROVE  Quiet
  <2>1. Refreshed(c, m, lease) = Never <=> claims[c].expires = Never
    <3>1. CASE claims[c].mode = "ttl" /\ m = "ttl"
      <4>1. Refreshed(c, m, lease) = now + lease
        BY <3>1 DEF Refreshed, ExpiresAt
      <4>2. now + lease \in Nat
        BY LeaseType, TimeAssumption DEF TypeOK
      <4>. QED
        BY <3>1, <4>1, <4>2, TimeAssumption DEF LeaseMatchesMode
    <3>2. CASE ~ (claims[c].mode = "ttl" /\ m = "ttl")
      BY <3>2 DEF Refreshed
    <3>. QED
      BY <3>1, <3>2
  <2>2. claims[c] \in Claim
    BY DEF TypeOK
  <2>3. /\ DOMAIN claims' = DOMAIN claims
        /\ \A d \in DOMAIN claims : d # c => claims'[d] = claims[d]
        /\ claims'[c] = [claims[c] EXCEPT !.expires = Refreshed(c, m, lease)]
    BY <1>3 DEF TypeOK
  <2>4. \A d \in DOMAIN claims : Live(d)' => Live(d)
    BY <1>1, <1>3, <2>3 DEF Live, Visible, Unexpired
  <2>. QED
    BY <2>1, <2>2, <2>3, <2>4 DEF Quiet, Claim
<1>. QED
  BY <1>2, <1>3, AgainStep

\* Quiet steps keep what depends only on the identity of rows.
LEMMA QuietExclusion ==
  ASSUME TypeOK, Exclusion, Quiet
  PROVE  Exclusion'
  BY DEF Exclusion, Quiet, SamePlace

LEMMA QuietKeys ==
  ASSUME TypeOK, KeysNameOwnClaims, Quiet, UNCHANGED keyed
  PROVE  KeysNameOwnClaims'
  BY DEF TypeOK, KeysNameOwnClaims, Quiet

LEMMA QuietLease ==
  ASSUME TypeOK, LeaseMatchesMode, Quiet
  PROVE  LeaseMatchesMode'
  BY DEF LeaseMatchesMode, Quiet

\* Some request is granted by inserting a row.
FreshGrant ==
  \E p \in Principals, S \in Scopes, pl \in Places, m \in Modes :
    \E lease \in Lease(m), h \in AcquiredAt : ClaimFresh(p, S, pl, m, lease, h)

LEMMA FreshGrantStep ==
  ASSUME TypeOK, FreshGrant
  PROVE  \E c \in ClaimId, p \in Principals, S \in Scopes, pl \in Places,
            m \in Modes : \E lease \in Lease(m), h \in AcquiredAt :
              FreshAs(c, p, S, pl, m, lease, h)
<1>1. PICK p \in Principals, S \in Scopes, pl \in Places, m \in Modes :
        \E lease \in Lease(m), h \in AcquiredAt :
          ClaimFresh(p, S, pl, m, lease, h)
  BY DEF FreshGrant
<1>2. PICK lease \in Lease(m), h \in AcquiredAt :
        ClaimFresh(p, S, pl, m, lease, h)
  BY <1>1
<1>3. \E c \in ClaimId : FreshAs(c, p, S, pl, m, lease, h)
  BY <1>2, FreshStep
<1>. QED
  BY <1>3

LEMMA FreshRows ==
  ASSUME TypeOK, FreshGrant
  PROVE  \E c \in ClaimId :
           /\ c \notin DOMAIN claims
           /\ DOMAIN claims' = DOMAIN claims \cup {c}
           /\ claims'[c].status = "active"
           /\ \A d \in DOMAIN claims : claims'[d] = claims[d]
           /\ UNCHANGED <<ended, unread, pending, sprintOf, now>>
<1>1. PICK c \in ClaimId, p \in Principals, S \in Scopes, pl \in Places,
           m \in Modes : \E lease \in Lease(m), h \in AcquiredAt :
             FreshAs(c, p, S, pl, m, lease, h)
  BY FreshGrantStep
<1>2. PICK lease \in Lease(m), h \in AcquiredAt :
        FreshAs(c, p, S, pl, m, lease, h)
  BY <1>1
<1>3. claims'[c].status = "active"
  BY <1>2 DEF FreshAs, FreshRow
<1>. QED
  BY <1>2, <1>3 DEF FreshAs

LEMMA StepKinds ==
  ASSUME TypeOK, LeaseMatchesMode, [Next]_vars
  PROVE  FreshGrant \/ (Quiet /\ UNCHANGED keyed)
<1>1. ASSUME NEW p \in Principals, NEW S \in Scopes, NEW pl \in Places,
             NEW m \in Modes, NEW lease \in Lease(m), NEW h \in AcquiredAt,
             ClaimScope(p, S, pl, m, lease, h)
      PROVE  FreshGrant \/ (Quiet /\ UNCHANGED keyed)
  <2>1. CASE ClaimFresh(p, S, pl, m, lease, h)
    BY <2>1 DEF FreshGrant
  <2>2. CASE ClaimAgain(p, S, pl, m, lease)
    BY <2>2, QuietClaimAgain, AgainStep
  <2>. QED
    BY <1>1, <2>1, <2>2 DEF ClaimScope
<1>2. ASSUME NEW p \in Principals, NEW c \in ClaimId, ReleaseScope(p, c)
      PROVE  Quiet /\ UNCHANGED keyed
  BY <1>2, QuietRelease DEF ReleaseScope
<1>3. ASSUME NEW p \in Principals, NEW pl \in Places, NEW h \in Heads,
             NEW done \in SUBSET Files, ReleaseScopeViaGit(p, pl, h, done)
      PROVE  Quiet /\ UNCHANGED keyed
  BY <1>3, QuietRelease DEF ReleaseScopeViaGit
<1>4. ASSUME NEW c \in ClaimId, ForceRelease(c)
      PROVE  Quiet /\ UNCHANGED keyed
  BY <1>4, QuietRelease DEF ForceRelease
<1>5. ASSUME NEW p \in Principals, NEW pl \in Places,
             PauseClaimsForBranch(p, pl) \/ ResumeClaimsForBranch(p, pl)
      PROVE  Quiet /\ UNCHANGED keyed
  <2>1. PICK b \in BOOLEAN : SetPaused(p, pl, b)
    BY <1>5 DEF PauseClaimsForBranch, ResumeClaimsForBranch
  <2>2. UNCHANGED keyed
    BY <2>1 DEF SetPaused
  <2>. QED
    BY <2>1, <2>2, QuietSetPaused
<1>6. CASE Tick
  BY <1>6, QuietTick DEF Tick
<1>7. CASE \/ \E p \in Principals : FetchUnreadNotifications(p)
           \/ \E p \in Principals, c \in DOMAIN claims, S \in Scopes :
                QueuePendingEdit(p, c, S)
           \/ \E p \in Principals : ClearQueue(p)
           \/ GcExpiredPendingEdits
           \/ \E p \in Principals, x \in Sprints : JoinSprint(p, x)
           \/ \E p \in Principals : LeaveSprint(p)
           \/ UNCHANGED vars
  <2>1. UNCHANGED <<claims, keyed, now>>
    BY <1>7 DEF FetchUnreadNotifications, QueuePendingEdit, ClearQueue,
                GcExpiredPendingEdits, DeletePending, JoinSprint, LeaveSprint, vars
  <2>. QED
    BY <2>1, QuietUnchanged
<1>. QED
  BY <1>1, <1>2, <1>3, <1>4, <1>5, <1>6, <1>7 DEF Next, Tools

\* A fresh claim is clear of every live row: the gate compared it with them.
LEMMA FreshExclusion ==
  ASSUME TypeOK, Exclusion, FreshGrant
  PROVE  Exclusion'
<1>1. PICK c \in ClaimId, p \in Principals, S \in Scopes, pl \in Places,
           m \in Modes : \E lease \in Lease(m), h \in AcquiredAt :
             FreshAs(c, p, S, pl, m, lease, h)
  BY FreshGrantStep
<1>2. PICK lease \in Lease(m), h \in AcquiredAt :
        FreshAs(c, p, S, pl, m, lease, h)
  BY <1>1
<1>3. /\ c \notin DOMAIN claims
      /\ DOMAIN claims' = DOMAIN claims \cup {c}
      /\ claims'[c] = FreshRow(p, S, pl, m, lease, h)
      /\ \A d \in DOMAIN claims : claims'[d] = claims[d]
      /\ Hits(S, sprintOf[p], pl) = {}
      /\ now' = now
  BY <1>2 DEF FreshAs
<1>4. /\ claims'[c].scope = S /\ claims'[c].sprint = sprintOf[p]
      /\ claims'[c].place = pl
  BY <1>3 DEF FreshRow
<1>5. \A d \in DOMAIN claims : Live(d)' => Live(d)
  BY <1>3 DEF Live, Visible, Unexpired
<1>6. ASSUME NEW d \in DOMAIN claims, Live(d), claims[d].sprint = sprintOf[p],
             Admits(claims[d].place, pl)
      PROVE  ~ Overlap(S, claims[d].scope) /\ ~ Overlap(claims[d].scope, S)
  <2>1. ~ Overlap(S, claims[d].scope)
    BY <1>3, <1>6 DEF Hits, SelectActive
  <2>2. S \in Patterns /\ claims[d].scope \in Patterns
    BY ScopePatterns DEF TypeOK, Claim
  <2>. QED
    BY <2>1, <2>2, OverlapSymmetric
<1>7. ASSUME NEW d \in DOMAIN claims, NEW e \in DOMAIN claims, d # e,
             Live(d)', Live(e)', claims'[d].sprint = claims'[e].sprint,
             SamePlace(d, e)'
      PROVE  ~ Overlap(claims'[d].scope, claims'[e].scope)
  BY <1>3, <1>5, <1>7 DEF Exclusion, SamePlace
<1>8. ASSUME NEW d \in DOMAIN claims, Live(d)', claims'[d].sprint = sprintOf[p],
             Admits(claims'[d].place, pl)
      PROVE  ~ Overlap(S, claims'[d].scope) /\ ~ Overlap(claims'[d].scope, S)
  BY <1>3, <1>5, <1>6, <1>8
<1>9. SUFFICES ASSUME NEW d \in DOMAIN claims', NEW e \in DOMAIN claims', d # e,
                      Live(d)', Live(e)', claims'[d].sprint = claims'[e].sprint,
                      SamePlace(d, e)'
               PROVE  ~ Overlap(claims'[d].scope, claims'[e].scope)
  BY DEF Exclusion
<1>10. CASE d = c
  BY <1>3, <1>4, <1>8, <1>9, <1>10 DEF SamePlace
<1>11. CASE e = c
  BY <1>3, <1>4, <1>8, <1>9, <1>11 DEF SamePlace
<1>. QED
  BY <1>3, <1>7, <1>9, <1>10, <1>11

\* A fresh claim takes an unused id, so no key can have named it before.
LEMMA FreshKeys ==
  ASSUME TypeOK, KeysNameOwnClaims, FreshGrant
  PROVE  KeysNameOwnClaims'
<1>1. PICK c \in ClaimId, p \in Principals, S \in Scopes, pl \in Places,
           m \in Modes : \E lease \in Lease(m), h \in AcquiredAt :
             FreshAs(c, p, S, pl, m, lease, h)
  BY FreshGrantStep
<1>2. PICK lease \in Lease(m), h \in AcquiredAt :
        FreshAs(c, p, S, pl, m, lease, h)
  BY <1>1
<1> DEFINE k == <<p, S, sprintOf[p]>>
<1>3. /\ c \notin DOMAIN claims
      /\ claims'[c] = FreshRow(p, S, pl, m, lease, h)
      /\ \A d \in DOMAIN claims : claims'[d] = claims[d]
      /\ keyed' = IF k \in DOMAIN keyed THEN keyed ELSE WithRow(keyed, k, c)
  BY <1>2 DEF FreshAs
<1>4. k = <<claims'[c].owner, claims'[c].scope, claims'[c].sprint>>
  BY <1>3 DEF FreshRow
<1> HIDE DEF k
<1>5. \A l \in DOMAIN keyed : keyed[l] \in DOMAIN claims /\ keyed[l] # c
  BY <1>3 DEF TypeOK
<1>6. CASE k \in DOMAIN keyed
  BY <1>3, <1>5, <1>6 DEF KeysNameOwnClaims
<1>7. CASE k \notin DOMAIN keyed
  <2>1. /\ DOMAIN keyed' = DOMAIN keyed \cup {k}
        /\ keyed'[k] = c
        /\ \A l \in DOMAIN keyed : keyed'[l] = keyed[l]
    BY <1>3, <1>7 DEF WithRow, TypeOK
  <2>. QED
    BY <1>3, <1>4, <1>5, <2>1 DEF KeysNameOwnClaims
<1>. QED
  BY <1>6, <1>7

LEMMA FreshLease ==
  ASSUME TypeOK, LeaseMatchesMode, FreshGrant
  PROVE  LeaseMatchesMode'
<1>1. PICK c \in ClaimId, p \in Principals, S \in Scopes, pl \in Places,
           m \in Modes : \E lease \in Lease(m), h \in AcquiredAt :
             FreshAs(c, p, S, pl, m, lease, h)
  BY FreshGrantStep
<1>2. PICK lease \in Lease(m), h \in AcquiredAt :
        FreshAs(c, p, S, pl, m, lease, h)
  BY <1>1
<1>3. /\ DOMAIN claims' = DOMAIN claims \cup {c}
      /\ claims'[c] = FreshRow(p, S, pl, m, lease, h)
      /\ \A d \in DOMAIN claims : claims'[d] = claims[d]
  BY <1>2 DEF FreshAs
<1>4. now + lease \in Nat
  BY LeaseType, TimeAssumption DEF TypeOK
<1>5. claims'[c].expires # Never <=> claims'[c].mode = "ttl"
  BY <1>3, <1>4, TimeAssumption DEF FreshRow, ExpiresAt
<1>. QED
  BY <1>3, <1>5 DEF LeaseMatchesMode

-----------------------------------------------------------------------------
(***************************************************************************)
(* How claims end, and what becomes of the queue: a step grants a claim,   *)
(* ends the active claims of a set, or ends none.                          *)
(***************************************************************************)

EndsBy(cs, t) ==
  /\ cs \subseteq DOMAIN claims
  /\ \A c \in cs : claims[c].status = "active"
  /\ Release(cs)
  /\ t \in ReleaseEvents
  /\ ended' = ended \cup (cs \X {t})
  /\ \/ t # "claim_force_released" /\ ResolvePendingEdits(cs) /\ UNCHANGED unread
     \/ t = "claim_force_released" /\ UNCHANGED pending /\ unread' = unread \cup cs
  /\ t = "scope_released_via_git" =>
       \A c \in cs : claims[c].mode # "manual_only"

EndsNone ==
  /\ DOMAIN claims' = DOMAIN claims
  /\ \A c \in DOMAIN claims :
       /\ claims'[c].status = claims[c].status
       /\ claims'[c].mode = claims[c].mode
       /\ claims'[c].sprint = claims[c].sprint
  /\ UNCHANGED ended
  /\ unread' \subseteq unread
  /\ \A q \in DOMAIN pending' :
       \/ q \in DOMAIN pending /\ pending'[q] = pending[q]
       \/ \E c \in DOMAIN claims : /\ claims[c].status = "active"
                                   /\ pending'[q].blocking = c
                                   /\ pending'[q].sprint = claims[c].sprint

LEMMA EndsNoneRows ==
  ASSUME TypeOK, DOMAIN claims' = DOMAIN claims,
         \A c \in DOMAIN claims : /\ claims'[c].status = claims[c].status
                                  /\ claims'[c].mode = claims[c].mode
                                  /\ claims'[c].sprint = claims[c].sprint,
         UNCHANGED <<ended, unread, pending>>
  PROVE  EndsNone
  BY DEF EndsNone

LEMMA EndsNoneClaimAgain ==
  ASSUME TypeOK, NEW p \in Principals, NEW S \in Scopes, NEW pl \in Places,
         NEW m \in Modes, NEW lease \in Lease(m),
         ClaimAgain(p, S, pl, m, lease)
  PROVE  EndsNone
<1>1. \A c \in DOMAIN claims : claims[c] \in Claim
  BY DEF TypeOK
<1>2. CASE UNCHANGED claims
  BY <1>2, AgainStep, EndsNoneRows
<1>3. ASSUME NEW c \in DOMAIN claims,
             claims' = [claims EXCEPT ![c].expires = Refreshed(c, m, lease)]
      PROVE  EndsNone
  <2>1. /\ DOMAIN claims' = DOMAIN claims
        /\ \A d \in DOMAIN claims : /\ claims'[d].status = claims[d].status
                                    /\ claims'[d].mode = claims[d].mode
                                    /\ claims'[d].sprint = claims[d].sprint
    BY <1>1, <1>3 DEF Claim, TypeOK
  <2>. QED
    BY <2>1, AgainStep, EndsNoneRows
<1>. QED
  BY <1>2, <1>3, AgainStep

LEMMA EndsNoneSetPaused ==
  ASSUME TypeOK, NEW p, NEW pl, NEW b \in BOOLEAN, SetPaused(p, pl, b)
  PROVE  EndsNone
<1>1. PICK cs : claims' = [c \in DOMAIN claims |->
                             IF c \in cs THEN [claims[c] EXCEPT !.paused = b]
                                         ELSE claims[c]]
  BY DEF SetPaused
<1>2. \A c \in DOMAIN claims : claims[c] \in Claim
  BY DEF TypeOK
<1>3. /\ DOMAIN claims' = DOMAIN claims
      /\ \A c \in DOMAIN claims : /\ claims'[c].status = claims[c].status
                                  /\ claims'[c].mode = claims[c].mode
                                  /\ claims'[c].sprint = claims[c].sprint
  BY <1>1, <1>2 DEF Claim
<1>. QED
  BY <1>3, EndsNoneRows DEF SetPaused

LEMMA EndsNoneQueuePendingEdit ==
  ASSUME TypeOK, NEW p, NEW c \in DOMAIN claims, NEW S,
         QueuePendingEdit(p, c, S)
  PROVE  EndsNone
<1> DEFINE r == [blocked |-> p, blocking |-> c, paths |-> S,
                 sprint |-> QueuedIn(p, c), expires |-> now + PendingTTL,
                 resolved |-> FALSE, tombstoned |-> FALSE]
<1>1. PICK q \in PendingId \ DOMAIN pending :
        pending' = WithRow(pending, q, r) /\ claims[c].status = "active"
  BY DEF QueuePendingEdit, Visible
<1>2. r.blocking = c /\ r.sprint = claims[c].sprint
  BY DEF QueuedIn
<1> HIDE DEF r
<1>3. \A i \in DOMAIN pending' : IF i = q THEN pending'[i] = r
                                 ELSE i \in DOMAIN pending /\ pending'[i] = pending[i]
  BY <1>1 DEF WithRow
<1>. QED
  BY <1>1, <1>2, <1>3 DEF QueuePendingEdit, EndsNone

LEMMA EndsNoneDeletePending ==
  ASSUME TypeOK, NEW qs, DeletePending(qs)
  PROVE  EndsNone
  BY DEF DeletePending, EndsNone

LEMMA ReleaseEventNames ==
  {"scope_released", "scope_released_via_git", "claim_force_released"}
    \subseteq ReleaseEvents
  BY DEF ReleaseEvents

LEMMA EndKinds ==
  ASSUME TypeOK, [Next]_vars
  PROVE  \/ FreshGrant
         \/ \E cs \in SUBSET DOMAIN claims, t \in ReleaseEvents : EndsBy(cs, t)
         \/ EndsNone
<1>1. ASSUME NEW p \in Principals, NEW S \in Scopes, NEW pl \in Places,
             NEW m \in Modes, NEW lease \in Lease(m), NEW h \in AcquiredAt,
             ClaimScope(p, S, pl, m, lease, h)
      PROVE  FreshGrant \/ EndsNone
  BY <1>1, EndsNoneClaimAgain DEF ClaimScope, FreshGrant
<1>2. ASSUME NEW p \in Principals, NEW c \in ClaimId, ReleaseScope(p, c)
      PROVE  c \in DOMAIN claims /\ EndsBy({c}, "scope_released")
  <2>1. ended' = ended \cup ({c} \X {"scope_released"})
    BY <1>2 DEF ReleaseScope
  <2>. QED
    BY <1>2, <2>1 DEF ReleaseScope, EndsBy, ReleaseEvents
<1>3. ASSUME NEW p \in Principals, NEW pl \in Places, NEW h \in Heads,
             NEW done \in SUBSET Files, ReleaseScopeViaGit(p, pl, h, done)
      PROVE  \E cs \in SUBSET DOMAIN claims : EndsBy(cs, "scope_released_via_git")
  <2> DEFINE cs == {c \in DOMAIN claims : /\ Visible(c)
                                          /\ claims[c].owner = p
                                          /\ claims[c].place = pl
                                          /\ Evidence(c, h, done)}
  <2>1. /\ Release(cs)
        /\ ended' = ended \cup (cs \X {"scope_released_via_git"})
        /\ ResolvePendingEdits(cs) /\ UNCHANGED unread
    BY <1>3 DEF ReleaseScopeViaGit
  <2>2. /\ cs \subseteq DOMAIN claims
        /\ \A c \in cs : claims[c].status = "active" /\ claims[c].mode # "manual_only"
    BY DEF Visible, Evidence
  <2> HIDE DEF cs
  <2>. QED
    BY <2>1, <2>2 DEF EndsBy, ReleaseEvents
<1>4. ASSUME NEW c \in ClaimId, ForceRelease(c)
      PROVE  c \in DOMAIN claims /\ EndsBy({c}, "claim_force_released")
  <2>1. ended' = ended \cup ({c} \X {"claim_force_released"})
    BY <1>4 DEF ForceRelease
  <2>. QED
    BY <1>4, <2>1 DEF ForceRelease, ForceReleasable, Visible, EndsBy, ReleaseEvents
<1>5. ASSUME NEW p \in Principals, NEW pl \in Places,
             PauseClaimsForBranch(p, pl) \/ ResumeClaimsForBranch(p, pl)
      PROVE  EndsNone
  BY <1>5, EndsNoneSetPaused DEF PauseClaimsForBranch, ResumeClaimsForBranch
<1>6. ASSUME NEW p \in Principals, NEW c \in DOMAIN claims, NEW S \in Scopes,
             QueuePendingEdit(p, c, S)
      PROVE  EndsNone
  BY <1>6, EndsNoneQueuePendingEdit
<1>7. CASE GcExpiredPendingEdits \/ \E p \in Principals : ClearQueue(p)
  BY <1>7, EndsNoneDeletePending DEF ClearQueue, GcExpiredPendingEdits
<1>8. CASE \/ \E p \in Principals, x \in Sprints : JoinSprint(p, x)
           \/ \E p \in Principals : LeaveSprint(p)
           \/ Tick
           \/ UNCHANGED vars
  BY <1>8, EndsNoneRows DEF JoinSprint, LeaveSprint, Tick, vars
<1>9. ASSUME NEW p \in Principals, FetchUnreadNotifications(p)
      PROVE  EndsNone
  BY <1>9 DEF FetchUnreadNotifications, EndsNone
<1>. QED
  BY <1>1, <1>2, <1>3, <1>4, <1>5, <1>6, <1>7, <1>8, <1>9, ReleaseEventNames
  DEF Next, Tools

\* Only a row that is not yet released is ended, and by one event.
LEMMA StepEndsOnce ==
  ASSUME TypeOK, EndsOnce, [Next]_vars
  PROVE  EndsOnce'
<1>0. \A e \in ended : e[1] \in DOMAIN claims
  BY DEF TypeOK
<1>1. CASE FreshGrant
  <2>1. PICK c \in ClaimId :
          /\ c \notin DOMAIN claims
          /\ DOMAIN claims' = DOMAIN claims \cup {c}
          /\ claims'[c].status = "active"
          /\ \A d \in DOMAIN claims : claims'[d] = claims[d]
          /\ UNCHANGED <<ended, unread>>
    BY <1>1, FreshRows
  <2>. QED
    BY <1>0, <2>1 DEF EndsOnce
<1>2. ASSUME NEW cs \in SUBSET DOMAIN claims, NEW t \in ReleaseEvents, EndsBy(cs, t)
      PROVE  EndsOnce'
  <2>1. /\ DOMAIN claims' = DOMAIN claims
        /\ \A c \in DOMAIN claims :
             claims'[c].status = IF c \in cs THEN "released" ELSE claims[c].status
    BY <1>2 DEF EndsBy, Release, TypeOK, Claim
  <2>2. \A c \in cs : ~ \E e \in ended : e[1] = c
    BY <1>2 DEF EndsBy, EndsOnce
  <2>3. \A e : e \in ended' <=> e \in ended \/ \E c \in cs : e = <<c, t>>
    BY <1>2 DEF EndsBy
  <2>4. \A c \in DOMAIN claims' :
          claims'[c].status = "released" <=> \E e \in ended' : e[1] = c
    <3> SUFFICES ASSUME NEW c \in DOMAIN claims
                 PROVE  claims'[c].status = "released" <=> \E e \in ended' : e[1] = c
      BY <2>1
    <3>1. CASE c \in cs
      BY <2>1, <2>3, <3>1, <<c, t>> \in ended'
    <3>2. CASE c \notin cs
      BY <2>1, <2>3, <3>2 DEF EndsOnce
    <3>. QED
      BY <3>1, <3>2
  <2>5. \A e, f \in ended' : e[1] = f[1] => e = f
    BY <2>2, <2>3 DEF EndsOnce
  <2>6. \A c \in unread' : <<c, "claim_force_released">> \in ended'
    BY <1>2, <2>3 DEF EndsBy, EndsOnce
  <2>. QED
    BY <2>4, <2>5, <2>6 DEF EndsOnce
<1>3. CASE EndsNone
  BY <1>3 DEF EndsNone, EndsOnce
<1>. QED
  BY <1>1, <1>2, <1>3, EndKinds

LEMMA StepManualOnly ==
  ASSUME TypeOK, ManualOnlySurvivesGit, [Next]_vars
  PROVE  ManualOnlySurvivesGit'
<1>1. CASE FreshGrant
  <2>1. PICK c \in ClaimId :
          /\ c \notin DOMAIN claims
          /\ DOMAIN claims' = DOMAIN claims \cup {c}
          /\ \A d \in DOMAIN claims : claims'[d] = claims[d]
          /\ UNCHANGED ended
    BY <1>1, FreshRows
  <2>2. <<c, "scope_released_via_git">> \notin ended
    BY <2>1 DEF TypeOK
  <2>. QED
    BY <2>1, <2>2 DEF ManualOnlySurvivesGit
<1>2. ASSUME NEW cs \in SUBSET DOMAIN claims, NEW t \in ReleaseEvents, EndsBy(cs, t)
      PROVE  ManualOnlySurvivesGit'
  <2>1. /\ DOMAIN claims' = DOMAIN claims
        /\ \A c \in DOMAIN claims : claims'[c].mode = claims[c].mode
    BY <1>2 DEF EndsBy, Release, TypeOK, Claim
  <2>2. ASSUME NEW c \in DOMAIN claims, claims[c].mode = "manual_only"
        PROVE  <<c, "scope_released_via_git">> \notin ended'
    <3>1. <<c, "scope_released_via_git">> \notin ended
      BY <2>2 DEF ManualOnlySurvivesGit
    <3>2. <<c, "scope_released_via_git">> \notin cs \X {t}
      BY <1>2, <2>2 DEF EndsBy
    <3>. QED
      BY <1>2, <3>1, <3>2 DEF EndsBy
  <2>. QED
    BY <2>1, <2>2 DEF ManualOnlySurvivesGit
<1>3. CASE EndsNone
  BY <1>3 DEF EndsNone, ManualOnlySurvivesGit
<1>. QED
  BY <1>1, <1>2, <1>3, EndKinds

\* The context of a row and of its claim are both fixed when they are made.
LEMMA StepQueueContext ==
  ASSUME TypeOK, QueueInClaimContext, [Next]_vars
  PROVE  QueueInClaimContext'
<1>0. \A q \in DOMAIN pending : pending[q].blocking \in DOMAIN claims
  BY DEF TypeOK
<1>1. CASE FreshGrant
  <2>1. /\ \A d \in DOMAIN claims : claims'[d] = claims[d]
        /\ UNCHANGED pending
    BY <1>1, FreshRows
  <2>. QED
    BY <1>0, <2>1 DEF QueueInClaimContext
<1>2. ASSUME NEW cs \in SUBSET DOMAIN claims, NEW t \in ReleaseEvents, EndsBy(cs, t)
      PROVE  QueueInClaimContext'
  <2>1. \A c \in DOMAIN claims : claims'[c].sprint = claims[c].sprint
    BY <1>2 DEF EndsBy, Release, TypeOK, Claim
  <2>2. /\ DOMAIN pending' = DOMAIN pending
        /\ \A q \in DOMAIN pending : /\ pending'[q].blocking = pending[q].blocking
                                     /\ pending'[q].sprint = pending[q].sprint
    BY <1>2, ResolveType DEF EndsBy
  <2>. QED
    BY <1>0, <2>1, <2>2 DEF QueueInClaimContext
<1>3. CASE EndsNone
  BY <1>0, <1>3 DEF EndsNone, QueueInClaimContext
<1>. QED
  BY <1>1, <1>2, <1>3, EndKinds

\* A release looks at rows of the claim's context only; because a row is in
\* the context of its claim, none that names the claim is missed.
LEMMA StepDrains ==
  ASSUME TypeOK, QueueInClaimContext, ReleaseDrainsQueue, [Next]_vars
  PROVE  ReleaseDrainsQueue'
<1>0. \A q \in DOMAIN pending : pending[q].blocking \in DOMAIN claims
  BY DEF TypeOK
<1>1. CASE FreshGrant
  <2>1. /\ \A d \in DOMAIN claims : claims'[d] = claims[d]
        /\ UNCHANGED <<pending, ended>>
    BY <1>1, FreshRows
  <2>. QED
    BY <1>0, <2>1 DEF ReleaseDrainsQueue, Open
<1>2. ASSUME NEW cs \in SUBSET DOMAIN claims, NEW t \in ReleaseEvents, EndsBy(cs, t)
      PROVE  ReleaseDrainsQueue'
  <2>1. \A c \in DOMAIN claims : c \notin cs => claims'[c].status = claims[c].status
    BY <1>2 DEF EndsBy, Release, TypeOK
  <2>2. /\ DOMAIN pending' = DOMAIN pending
        /\ \A q \in DOMAIN pending : /\ pending'[q].blocking = pending[q].blocking
                                     /\ Open(q)' => Open(q)
        /\ ended \subseteq ended'
    BY <1>2, ResolveType DEF EndsBy, Open
  <2>3. CASE t = "claim_force_released"
    <3>1. \A c \in cs : <<c, "claim_force_released">> \in ended'
      BY <1>2, <2>3 DEF EndsBy
    <3>. QED
      BY <1>0, <2>1, <2>2, <3>1 DEF ReleaseDrainsQueue
  <2>4. CASE t # "claim_force_released"
    <3>1. ASSUME NEW q \in DOMAIN pending, pending[q].blocking \in cs, Open(q)
          PROVE  ~ Open(q)'
      <4>1. q \in FindResolvableByRelease(pending[q].blocking)
        BY <3>1 DEF FindResolvableByRelease, QueueInClaimContext, Open
      <4>2. q \in UNION {FindResolvableByRelease(c) : c \in cs}
        BY <3>1, <4>1
      <4>3. pending'[q] = [pending[q] EXCEPT !.resolved = TRUE]
        BY <1>2, <2>4, <4>2 DEF EndsBy, ResolvePendingEdits
      <4>. QED
        BY <4>3 DEF TypeOK, PendingEdit, Open
    <3>. QED
      BY <1>0, <2>1, <2>2, <3>1 DEF ReleaseDrainsQueue
  <2>. QED
    BY <2>3, <2>4
<1>3. CASE EndsNone
  BY <1>0, <1>3 DEF EndsNone, ReleaseDrainsQueue, Open
<1>. QED
  BY <1>1, <1>2, <1>3, EndKinds

-----------------------------------------------------------------------------
(***************************************************************************)
(* The theorems.                                                           *)
(***************************************************************************)

\* Exclusion needs no strengthening but types; the queue needs the context of
\* its rows.  Each conjunct is checked by TLC on its own.
IInv ==
  /\ TypeOK
  /\ Exclusion
  /\ KeysNameOwnClaims
  /\ LeaseMatchesMode
  /\ EndsOnce
  /\ ManualOnlySurvivesGit
  /\ QueueInClaimContext
  /\ ReleaseDrainsQueue

LEMMA InvInit == Init => IInv
<1> SUFFICES ASSUME Init
             PROVE  IInv
  OBVIOUS
<1>1. TypeOK
  BY FS_EmptySet, TimeAssumption DEF Init, TypeOK, NoRows, Contexts
<1>. QED
  BY <1>1 DEF Init, NoRows, IInv, Exclusion, KeysNameOwnClaims, LeaseMatchesMode,
              EndsOnce, ManualOnlySurvivesGit, QueueInClaimContext,
              ReleaseDrainsQueue

LEMMA InvStep == IInv /\ [Next]_vars => IInv'
<1> SUFFICES ASSUME IInv, [Next]_vars
             PROVE  IInv'
  OBVIOUS
<1> USE DEF IInv
<1>1. TypeOK'
  BY TypeStep
<1>2. Exclusion'
  BY StepKinds, FreshExclusion, QuietExclusion
<1>3. KeysNameOwnClaims'
  BY StepKinds, FreshKeys, QuietKeys
<1>4. LeaseMatchesMode'
  BY StepKinds, FreshLease, QuietLease
<1>5. EndsOnce'
  BY StepEndsOnce
<1>6. ManualOnlySurvivesGit'
  BY StepManualOnly
<1>7. QueueInClaimContext'
  BY StepQueueContext
<1>8. ReleaseDrainsQueue'
  BY StepDrains
<1>. QED
  BY <1>1, <1>2, <1>3, <1>4, <1>5, <1>6, <1>7, <1>8

THEOREM Invariant == Spec => []IInv
  BY InvInit, InvStep, PTL DEF Spec

\* claim_scope never lets two live claims of one context and place collide,
\* whoever asks, in whatever order, across pauses, leases and reclaims.
THEOREM ExclusionHolds == Spec => []Exclusion
<1>1. IInv => Exclusion
  BY DEF IInv
<1>. QED
  BY <1>1, Invariant, PTL

\* The idempotency index always leads a retry to a claim of the same member,
\* scope and context.
THEOREM KeysHold == Spec => []KeysNameOwnClaims
<1>1. IInv => KeysNameOwnClaims
  BY DEF IInv
<1>. QED
  BY <1>1, Invariant, PTL

\* The stored mode of a claim and its expiry never drift apart.
THEOREM LeaseHolds == Spec => []LeaseMatchesMode
<1>1. IInv => LeaseMatchesMode
  BY DEF IInv
<1>. QED
  BY <1>1, Invariant, PTL

\* However releases, hooks and force-releases race, a claim ends once.
THEOREM EndsOnceHolds == Spec => []EndsOnce
<1>1. IInv => EndsOnce
  BY DEF IInv
<1>. QED
  BY <1>1, Invariant, PTL

\* Nobody waits behind a claim that its owner or a commit has ended.
THEOREM DrainsHolds == Spec => []ReleaseDrainsQueue
<1>1. IInv => ReleaseDrainsQueue
  BY DEF IInv
<1>. QED
  BY <1>1, Invariant, PTL

-----------------------------------------------------------------------------
(***************************************************************************)
(* Claims implements ScopeLock.                                            *)
(***************************************************************************)

\* A quiet step takes nothing: grants stay or are dropped.
LEMMA QuietHeld ==
  ASSUME TypeOK, Quiet
  PROVE  [Lock!Next]_Held
<1>1. Held' \subseteq Held
  BY DEF Held, GrantOf, Quiet
<1>2. CASE Held' = Held
  BY <1>2
<1>3. CASE Held' # Held
  <2>1. Lock!Drop(Held \ Held')
    BY <1>1, <1>3 DEF Lock!Drop
  <2>. QED
    BY <2>1 DEF Lock!Next
<1>. QED
  BY <1>2, <1>3

\* A fresh claim takes one grant, clear of all the others.
LEMMA FreshHeld ==
  ASSUME TypeOK, FreshGrant
  PROVE  [Lock!Next]_Held
<1>1. PICK c \in ClaimId, p \in Principals, S \in Scopes, pl \in Places,
           m \in Modes : \E lease \in Lease(m), h \in AcquiredAt :
             FreshAs(c, p, S, pl, m, lease, h)
  BY FreshGrantStep
<1>2. PICK lease \in Lease(m), h \in AcquiredAt :
        FreshAs(c, p, S, pl, m, lease, h)
  BY <1>1
<1> DEFINE g == [id |-> c, owner |-> p, scope |-> S, sprint |-> sprintOf[p],
                 place |-> pl]
<1>3. /\ c \notin DOMAIN claims
      /\ DOMAIN claims' = DOMAIN claims \cup {c}
      /\ claims'[c] = FreshRow(p, S, pl, m, lease, h)
      /\ \A d \in DOMAIN claims : claims'[d] = claims[d]
      /\ Hits(S, sprintOf[p], pl) = {}
      /\ now' = now
  BY <1>2 DEF FreshAs
<1>4. \A d \in DOMAIN claims : GrantOf(d)' = GrantOf(d) /\ (Live(d)' <=> Live(d))
  BY <1>3 DEF GrantOf, Live, Visible, Unexpired
<1>5. GrantOf(c)' = g
  BY <1>3 DEF GrantOf, FreshRow
<1>6. g \in Grant
  BY ScopePatterns DEF Grant, TypeOK
<1>7. g \notin Held
  BY <1>3 DEF Held, GrantOf
<1>8. ASSUME NEW d \in DOMAIN claims, Live(d)
      PROVE  ~ Clash(g, GrantOf(d)) /\ ~ Clash(GrantOf(d), g)
  <2>1. CASE claims[d].sprint # sprintOf[p] \/ ~ Admits(claims[d].place, pl)
    BY <2>1 DEF Clash, GrantOf
  <2>2. CASE claims[d].sprint = sprintOf[p] /\ Admits(claims[d].place, pl)
    <3>1. ~ Overlap(S, claims[d].scope)
      BY <1>3, <1>8, <2>2 DEF Hits, SelectActive
    <3>2. S \in Patterns /\ claims[d].scope \in Patterns
      BY ScopePatterns DEF TypeOK, Claim
    <3>3. ~ Overlap(claims[d].scope, S)
      BY <3>1, <3>2, OverlapSymmetric
    <3>. QED
      BY <3>1, <3>3 DEF Clash, GrantOf
  <2>. QED
    BY <2>1, <2>2
<1>9. CASE Live(c)'
  <2>1. Held' = Held \cup {g}
    <3>1. \A i : i \in Held' <=> \E d \in DOMAIN claims' : Live(d)' /\ i = GrantOf(d)'
      BY DEF Held
    <3>2. \A i : i \in Held <=> \E d \in DOMAIN claims : Live(d) /\ i = GrantOf(d)
      BY DEF Held
    <3> HIDE DEF g
    <3>. QED
      BY <1>3, <1>4, <1>5, <1>9, <3>1, <3>2
  <2>2. \A i \in Held : ~ Clash(g, i) /\ ~ Clash(i, g)
    BY <1>8 DEF Held
  <2> HIDE DEF g
  <2>3. Lock!Acquire(g)
    BY <1>7, <2>1, <2>2 DEF Lock!Acquire
  <2>. QED
    BY <1>6, <2>3 DEF Lock!Next
<1>10. CASE ~ Live(c)'
  <2>1. Held' = Held
    <3>1. \A i : i \in Held' <=> \E d \in DOMAIN claims' : Live(d)' /\ i = GrantOf(d)'
      BY DEF Held
    <3>2. \A i : i \in Held <=> \E d \in DOMAIN claims : Live(d) /\ i = GrantOf(d)
      BY DEF Held
    <3>. QED
      BY <1>3, <1>4, <1>10, <3>1, <3>2
  <2>. QED
    BY <2>1
<1>. QED
  BY <1>9, <1>10

\* The claim tools keep the promise of the abstract lock: every step of
\* theirs takes one grant that clashes with none in force, gives some up, or
\* leaves the grants as they are.
THEOREM Implements == Spec => ImplementsLock
<1>1. Init => Lock!Init
  BY DEF Init, NoRows, Lock!Init, Held
<1>2. IInv /\ [Next]_vars => [Lock!Next]_Held
  <2> SUFFICES ASSUME IInv, [Next]_vars
               PROVE  [Lock!Next]_Held
    OBVIOUS
  <2>. QED
    BY StepKinds, QuietHeld, FreshHeld DEF IInv
<1>. QED
  BY <1>1, <1>2, Invariant, PTL DEF Spec, ImplementsLock, Lock!Spec

-----------------------------------------------------------------------------
(***************************************************************************)
(* Scopes only shrink.  These lemmas need no more than TypeOK, so modules  *)
(* that compose Claims with their own actions can cite them.               *)
(***************************************************************************)

\* No claim is dropped from the table and none gains a pattern.
Shrinks ==
  /\ DOMAIN claims \subseteq DOMAIN claims'
  /\ \A c \in DOMAIN claims : claims'[c].scope \subseteq claims[c].scope

LEMMA ShrinksRelease ==
  ASSUME TypeOK, NEW cs, Release(cs)
  PROVE  Shrinks
<1>1. \A c \in DOMAIN claims : claims[c] \in Claim
  BY DEF TypeOK
<1>2. DOMAIN claims' = DOMAIN claims
  BY DEF Release
<1>3. ASSUME NEW c \in DOMAIN claims
      PROVE  claims'[c].scope = claims[c].scope
  <2>1. claims'[c] = IF c \in cs THEN [claims[c] EXCEPT !.status = "released"]
                                 ELSE claims[c]
    BY DEF Release
  <2>. QED
    BY <1>1, <2>1 DEF Claim
<1>. QED
  BY <1>2, <1>3 DEF Shrinks

LEMMA ShrinksSetPaused ==
  ASSUME TypeOK, NEW p, NEW pl, NEW b \in BOOLEAN, SetPaused(p, pl, b)
  PROVE  Shrinks
<1>1. PICK cs : claims' = [c \in DOMAIN claims |->
                             IF c \in cs THEN [claims[c] EXCEPT !.paused = b]
                                         ELSE claims[c]]
  BY DEF SetPaused
<1>2. \A c \in DOMAIN claims : claims[c] \in Claim
  BY DEF TypeOK
<1>3. ASSUME NEW c \in DOMAIN claims
      PROVE  claims'[c].scope = claims[c].scope
  BY <1>1, <1>2 DEF Claim
<1>. QED
  BY <1>1, <1>3 DEF Shrinks

LEMMA ShrinksClaimScope ==
  ASSUME TypeOK, NEW p \in Principals, NEW S \in Scopes, NEW pl \in Places,
         NEW m \in Modes, NEW lease \in Lease(m), NEW h \in AcquiredAt,
         ClaimScope(p, S, pl, m, lease, h)
  PROVE  Shrinks
<1>1. CASE ClaimFresh(p, S, pl, m, lease, h)
  <2>1. PICK c \in ClaimId : FreshAs(c, p, S, pl, m, lease, h)
    BY <1>1, FreshStep
  <2>. QED
    BY <2>1 DEF FreshAs, Shrinks
<1>2. CASE ClaimAgain(p, S, pl, m, lease)
  <2>1. CASE UNCHANGED claims
    BY <2>1 DEF Shrinks
  <2>2. ASSUME NEW c \in DOMAIN claims,
               claims' = [claims EXCEPT ![c].expires = Refreshed(c, m, lease)]
        PROVE  Shrinks
    <3>1. \A d \in DOMAIN claims : claims[d] \in Claim
      BY DEF TypeOK
    <3>. QED
      BY <2>2, <3>1 DEF Shrinks, Claim
  <2>. QED
    BY <1>2, <2>1, <2>2, AgainStep
<1>. QED
  BY <1>1, <1>2 DEF ClaimScope

LEMMA ShrinksStep ==
  ASSUME TypeOK, [Next]_vars
  PROVE  Shrinks
<1>1. ASSUME NEW p \in Principals, NEW S \in Scopes, NEW pl \in Places,
             NEW m \in Modes, NEW lease \in Lease(m), NEW h \in AcquiredAt,
             ClaimScope(p, S, pl, m, lease, h)
      PROVE  Shrinks
  BY <1>1, ShrinksClaimScope
<1>2. ASSUME NEW c \in ClaimId,
             ForceRelease(c) \/ \E p \in Principals : ReleaseScope(p, c)
      PROVE  Shrinks
  BY <1>2, ShrinksRelease DEF ReleaseScope, ForceRelease
<1>3. ASSUME NEW p \in Principals, NEW pl \in Places, NEW h \in Heads,
             NEW done \in SUBSET Files, ReleaseScopeViaGit(p, pl, h, done)
      PROVE  Shrinks
  BY <1>3, ShrinksRelease DEF ReleaseScopeViaGit
<1>4. ASSUME NEW p \in Principals, NEW pl \in Places,
             PauseClaimsForBranch(p, pl) \/ ResumeClaimsForBranch(p, pl)
      PROVE  Shrinks
  BY <1>4, ShrinksSetPaused DEF PauseClaimsForBranch, ResumeClaimsForBranch
<1>5. ASSUME UNCHANGED claims
      PROVE  Shrinks
  BY <1>5 DEF Shrinks
<1>6. CASE \/ \E p \in Principals : FetchUnreadNotifications(p)
           \/ \E p \in Principals, c \in DOMAIN claims, S \in Scopes :
                QueuePendingEdit(p, c, S)
           \/ \E p \in Principals : ClearQueue(p)
           \/ GcExpiredPendingEdits
           \/ \E p \in Principals, x \in Sprints : JoinSprint(p, x)
           \/ \E p \in Principals : LeaveSprint(p)
           \/ Tick
           \/ UNCHANGED vars
  BY <1>5, <1>6 DEF FetchUnreadNotifications, QueuePendingEdit, ClearQueue, Tick,
                    GcExpiredPendingEdits, DeletePending, JoinSprint, LeaveSprint, vars
<1>. QED
  BY <1>1, <1>2, <1>3, <1>4, <1>6 DEF Next, Tools

LEMMA ShrinksSame ==
  ASSUME UNCHANGED claims
  PROVE  Shrinks
  BY DEF Shrinks

LEMMA KeptIsClear ==
  ASSUME NEW T, NEW S
  PROVE  ~ Overlap(Kept(T, S), S)
  BY DEF Overlap, Matched, Kept

LEMMA OverlapShrinks ==
  ASSUME NEW S, NEW T, NEW U, U \subseteq T, Overlap(U, S)
  PROVE  Overlap(T, S)
  BY DEF Overlap, Matched

-----------------------------------------------------------------------------
(***************************************************************************)
(* The queue: a resolved row stays as it is.                               *)
(***************************************************************************)
KeepsResolved == \A q \in DOMAIN pending :
  pending[q].resolved => q \in DOMAIN pending' /\ pending'[q] = pending[q]

LEMMA ResolvingKeeps ==
  ASSUME NEW cs, ResolvePendingEdits(cs)
  PROVE  KeepsResolved
  BY DEF ResolvePendingEdits, FindResolvableByRelease, KeepsResolved

LEMMA QueueingKeeps ==
  ASSUME NEW p, NEW c, NEW S, QueuePendingEdit(p, c, S)
  PROVE  KeepsResolved
<1>1. PICK q \in PendingId \ DOMAIN pending :
        \E r : pending' = WithRow(pending, q, r)
  BY DEF QueuePendingEdit
<1>. QED
  BY <1>1 DEF WithRow, KeepsResolved

\* clear_queue and the sweep delete open rows only.
LEMMA DeletingKeeps ==
  ASSUME NEW qs, DeletePending(qs), \A q \in qs : Open(q)
  PROVE  KeepsResolved
  BY DEF DeletePending, Open, KeepsResolved

LEMMA ResolvedKeptStep ==
  ASSUME Next
  PROVE  KeepsResolved
<1>1. ASSUME UNCHANGED pending
      PROVE  KeepsResolved
  BY <1>1 DEF KeepsResolved
<1>2. ASSUME NEW p \in Principals, NEW S \in Scopes, NEW pl \in Places,
             NEW m \in Modes, NEW lease \in Lease(m), NEW h \in AcquiredAt,
             ClaimScope(p, S, pl, m, lease, h)
      PROVE  UNCHANGED pending
  BY <1>2 DEF ClaimScope, ClaimFresh, ClaimAgain
<1>3. ASSUME NEW p \in Principals, NEW c \in ClaimId, ReleaseScope(p, c)
      PROVE  KeepsResolved
  BY <1>3, ResolvingKeeps DEF ReleaseScope
<1>4. ASSUME NEW p \in Principals, NEW pl \in Places, NEW h \in Heads,
             NEW done \in SUBSET Files, ReleaseScopeViaGit(p, pl, h, done)
      PROVE  KeepsResolved
  BY <1>4, ResolvingKeeps DEF ReleaseScopeViaGit
<1>5. ASSUME NEW p \in Principals, NEW c \in DOMAIN claims, NEW S \in Scopes,
             QueuePendingEdit(p, c, S)
      PROVE  KeepsResolved
  BY <1>5, QueueingKeeps
<1>6. ASSUME NEW p \in Principals, ClearQueue(p)
      PROVE  KeepsResolved
  BY <1>6, DeletingKeeps DEF ClearQueue
<1>7. CASE GcExpiredPendingEdits
  BY <1>7, DeletingKeeps DEF GcExpiredPendingEdits
<1>8. CASE \/ \E c \in ClaimId : ForceRelease(c)
           \/ \E p \in Principals : FetchUnreadNotifications(p)
           \/ \E p \in Principals, pl \in Places :
                PauseClaimsForBranch(p, pl) \/ ResumeClaimsForBranch(p, pl)
           \/ \E p \in Principals, x \in Sprints : JoinSprint(p, x)
           \/ \E p \in Principals : LeaveSprint(p)
           \/ Tick
  <2>1. UNCHANGED pending
    BY <1>8 DEF ForceRelease, FetchUnreadNotifications, PauseClaimsForBranch,
                ResumeClaimsForBranch, SetPaused, JoinSprint, LeaveSprint, Tick
  <2>. QED
    BY <1>1, <2>1
<1>. QED
  BY <1>1, <1>2, <1>3, <1>4, <1>5, <1>6, <1>7, <1>8 DEF Next, Tools

\* Whatever releases, commits, queues and sweeps follow: a row of the queue that
\* was resolved is neither opened again nor deleted (pending-edits.ts deletes
\* rows with resolved_at NULL only).
THEOREM ResolvedIsKeptHolds == Spec => ResolvedIsKept
<1>1. [Next]_vars =>
        [\A q \in DOMAIN pending :
           pending[q].resolved =>
             q \in DOMAIN pending' /\ pending'[q] = pending[q]]_vars
  BY ResolvedKeptStep DEF KeepsResolved
<1>. QED
  BY <1>1, PTL DEF Spec, ResolvedIsKept

-----------------------------------------------------------------------------
(***************************************************************************)
(* What an ok answer of claim_scope is worth.                              *)
(***************************************************************************)

\* Every request finds every row at its place, as on one branch.
OnePlace == \A row, req \in Places : Admits(row, req)

\* Patterns that touch touch the same patterns, as names of files do.
ExactPatterns == \A p, q, r \in Paths :
  <<p, q>> \in Touching /\ <<q, r>> \in Touching => <<p, r>> \in Touching

\* No tool of this module wipes a row.
Unwiped == \A c \in DOMAIN claims : ~ claims[c].tombstoned

LEMMA UnwipedRows ==
  ASSUME Unwiped, DOMAIN claims' = DOMAIN claims,
         \A c \in DOMAIN claims : claims'[c].tombstoned = claims[c].tombstoned
  PROVE  Unwiped'
  BY DEF Unwiped

LEMMA UnwipedRelease ==
  ASSUME TypeOK, Unwiped, NEW cs, Release(cs)
  PROVE  Unwiped'
<1>1. \A c \in DOMAIN claims : claims[c] \in Claim
  BY DEF TypeOK
<1>2. \A c \in DOMAIN claims : claims'[c].tombstoned = claims[c].tombstoned
  BY <1>1 DEF Release, Claim
<1>. QED
  BY <1>2, UnwipedRows DEF Release

LEMMA UnwipedSetPaused ==
  ASSUME TypeOK, Unwiped, NEW p, NEW pl, NEW b, SetPaused(p, pl, b)
  PROVE  Unwiped'
<1>1. PICK cs : claims' = [c \in DOMAIN claims |->
                             IF c \in cs THEN [claims[c] EXCEPT !.paused = b]
                                         ELSE claims[c]]
  BY DEF SetPaused
<1>2. \A c \in DOMAIN claims : claims[c] \in Claim
  BY DEF TypeOK
<1>3. \A c \in DOMAIN claims : claims'[c].tombstoned = claims[c].tombstoned
  BY <1>1, <1>2 DEF Claim
<1>. QED
  BY <1>1, <1>3, UnwipedRows

LEMMA UnwipedClaimScope ==
  ASSUME TypeOK, Unwiped, NEW p \in Principals, NEW S \in Scopes,
         NEW pl \in Places, NEW m \in Modes, NEW lease \in Lease(m),
         NEW h \in AcquiredAt, ClaimScope(p, S, pl, m, lease, h)
  PROVE  Unwiped'
<1>1. CASE ClaimFresh(p, S, pl, m, lease, h)
  <2>1. PICK c \in ClaimId : FreshAs(c, p, S, pl, m, lease, h)
    BY <1>1, FreshStep
  <2>2. ~ claims'[c].tombstoned
    BY <2>1 DEF FreshAs, FreshRow
  <2>. QED
    BY <2>1, <2>2 DEF FreshAs, Unwiped
<1>2. CASE ClaimAgain(p, S, pl, m, lease)
  <2>1. CASE UNCHANGED claims
    BY <2>1 DEF Unwiped
  <2>2. ASSUME NEW c \in DOMAIN claims,
               claims' = [claims EXCEPT ![c].expires = Refreshed(c, m, lease)]
        PROVE  Unwiped'
    <3>1. \A d \in DOMAIN claims : claims[d] \in Claim
      BY DEF TypeOK
    <3>2. /\ DOMAIN claims' = DOMAIN claims
          /\ \A d \in DOMAIN claims : claims'[d].tombstoned = claims[d].tombstoned
      BY <2>2, <3>1 DEF Claim, TypeOK
    <3>. QED
      BY <3>2, UnwipedRows
  <2>. QED
    BY <1>2, <2>1, <2>2, AgainStep
<1>. QED
  BY <1>1, <1>2 DEF ClaimScope

LEMMA UnwipedStep ==
  ASSUME TypeOK, Unwiped, [Next]_vars
  PROVE  Unwiped'
<1>1. ASSUME UNCHANGED claims
      PROVE  Unwiped'
  BY <1>1 DEF Unwiped
<1>2. ASSUME NEW p \in Principals, NEW S \in Scopes, NEW pl \in Places,
             NEW m \in Modes, NEW lease \in Lease(m), NEW h \in AcquiredAt,
             ClaimScope(p, S, pl, m, lease, h)
      PROVE  Unwiped'
  BY <1>2, UnwipedClaimScope
<1>3. ASSUME NEW cs, Release(cs)
      PROVE  Unwiped'
  BY <1>3, UnwipedRelease
<1>4. CASE \/ \E p \in Principals, c \in ClaimId : ReleaseScope(p, c)
           \/ \E p \in Principals, pl \in Places, h \in Heads, done \in SUBSET Files :
                ReleaseScopeViaGit(p, pl, h, done)
           \/ \E c \in ClaimId : ForceRelease(c)
  BY <1>3, <1>4 DEF ReleaseScope, ReleaseScopeViaGit, ForceRelease
<1>5. ASSUME NEW p \in Principals, NEW pl \in Places,
             PauseClaimsForBranch(p, pl) \/ ResumeClaimsForBranch(p, pl)
      PROVE  Unwiped'
  BY <1>5, UnwipedSetPaused DEF PauseClaimsForBranch, ResumeClaimsForBranch
<1>6. CASE \/ \E p \in Principals : FetchUnreadNotifications(p)
           \/ \E p \in Principals, c \in DOMAIN claims, S \in Scopes :
                QueuePendingEdit(p, c, S)
           \/ \E p \in Principals : ClearQueue(p)
           \/ GcExpiredPendingEdits \/ Tick
           \/ \E p \in Principals, x \in Sprints : JoinSprint(p, x)
           \/ \E p \in Principals : LeaveSprint(p)
           \/ UNCHANGED vars
  <2>1. UNCHANGED claims
    BY <1>6 DEF FetchUnreadNotifications, QueuePendingEdit, ClearQueue, Tick,
                GcExpiredPendingEdits, DeletePending, JoinSprint, LeaveSprint, vars
  <2>. QED
    BY <1>1, <2>1
<1>. QED
  BY <1>2, <1>4, <1>5, <1>6 DEF Next, Tools

\* A repeated request is answered with a live claim, a retry with one that is
\* live or at the last instant of its lease; both cover what was asked for.
LEMMA AnswersHold ==
  ASSUME OnePlace, ExactPatterns, IInv, Unwiped
  PROVE  HeldOnSuccess
<1>. SUFFICES ASSUME NEW p \in Principals, NEW S \in Scopes, NEW pl \in Places,
                     NEW c \in Recovered(p, S, pl) \cup Repeated(p, S, pl)
              PROVE  /\ claims[c].owner = p /\ claims[c].sprint = sprintOf[p]
                     /\ \/ Live(c)
                        \/ c \in Recovered(p, S, pl) /\ Visible(c) /\ AtLeaseEnd(c)
                     /\ Admits(claims[c].place, pl)
                     /\ Covers(claims[c].scope, S)
  BY DEF HeldOnSuccess
<1>1. TypeOK /\ KeysNameOwnClaims
  BY DEF IInv
<1>2. c \in DOMAIN claims
  BY DEF Recovered, Repeated, Supersets, Hits, SelectActive
<1>3. claims[c] \in Claim /\ ~ claims[c].tombstoned /\ now \in Nat
  BY <1>1, <1>2, TimeAssumption DEF TypeOK, Unwiped
<1>4. Admits(claims[c].place, pl)
  BY <1>3 DEF OnePlace, Claim
<1>5. CASE c \in Recovered(p, S, pl)
  <2>1. /\ KeyOf(p, S, sprintOf[p]) \in DOMAIN keyed
        /\ c = keyed[KeyOf(p, S, sprintOf[p])] /\ ~ PriorTerminal(c)
    BY <1>5 DEF Recovered
  <2>2. <<p, S, sprintOf[p]>> = <<claims[c].owner, claims[c].scope, claims[c].sprint>>
    BY <1>1, <2>1 DEF KeysNameOwnClaims, KeyOf
  <2>3. claims[c].owner = p /\ claims[c].scope = S /\ claims[c].sprint = sprintOf[p]
    BY <2>2
  <2>4. claims[c].status = "active"
    BY <1>3, <2>1 DEF PriorTerminal, Claim
  <2>5. Unexpired(claims[c].expires) \/ AtLeaseEnd(c)
    BY <1>3, <2>1, TimeAssumption DEF PriorTerminal, Claim, Unexpired, AtLeaseEnd
  <2>6. Covers(claims[c].scope, S)
    BY <2>3 DEF Covers
  <2>7. Visible(c)
    BY <1>3, <2>4 DEF Visible
  <2>. QED
    BY <1>4, <1>5, <2>3, <2>5, <2>6, <2>7 DEF Live
<1>6. CASE c \in Repeated(p, S, pl)
  <2>1. /\ c \in Hits(S, sprintOf[p], pl) /\ claims[c].owner = p
        /\ Matched(S, claims[c].scope) = S
    BY <1>6 DEF Repeated, Supersets
  <2>2. Live(c) /\ claims[c].sprint = sprintOf[p]
    BY <2>1 DEF Hits, SelectActive
  <2>3. Covers(claims[c].scope, S)
    <3>. SUFFICES ASSUME NEW q \in Paths, NEW s \in S, <<q, s>> \in Touching
                  PROVE  \E t \in claims[c].scope : <<q, t>> \in Touching
      BY DEF Covers, Overlap, Matched
    <3>1. PICK t \in claims[c].scope : <<s, t>> \in Touching
      BY <2>1 DEF Matched
    <3>2. s \in Paths /\ t \in Paths
      BY <1>3, ScopeAssumption DEF Claim, Patterns
    <3>. QED
      BY <3>1, <3>2 DEF ExactPatterns
  <2>. QED
    BY <1>4, <2>1, <2>2, <2>3
<1>. QED
  BY <1>5, <1>6

\* On one branch and for exact patterns, an ok answer without a new row names a
\* claim of the member's own that is live and stops every peer whose request
\* touches the patterns asked for (the recovered and the repeated answers of
\* claim-tools.ts), except that a retry at the last instant of a lease names
\* the claim that ends there, which stops nobody any more.
THEOREM HeldOnSuccessHolds ==
  ASSUME OnePlace, ExactPatterns
  PROVE  Spec => []HeldOnSuccess
<1>1. Init => Unwiped
  BY DEF Init, NoRows, Unwiped
<1>2. IInv /\ Unwiped /\ [Next]_vars => Unwiped'
  BY UnwipedStep DEF IInv
<1>3. IInv /\ Unwiped => HeldOnSuccess
  BY AnswersHold
<1>. QED
  BY <1>1, <1>2, <1>3, Invariant, PTL DEF Spec
=============================================================================
