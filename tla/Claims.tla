------------------------------- MODULE Claims -------------------------------
(***************************************************************************)
(* The claim tools of one Space: the claims table, the idempotency index   *)
(* of scope_claimed events, the pending_edits queue and the notices of     *)
(* force-releases.  Every tool handler is synchronous and does its writes  *)
(* in one `db.transaction(...).immediate()`, so it is one action here.     *)
(*                                                                         *)
(* Rows of a table are a function whose domain is the set of row ids.      *)
(* Wall-clock time is the natural number now; a tick is the resolution of  *)
(* the stored timestamps.                                                  *)
(***************************************************************************)
EXTENDS Integers, FiniteSets

CONSTANTS
  Principals,    \* the members of the Space
  Paths,         \* normalised path patterns that members name
  Files,         \* those of Paths without glob characters
  Touching,      \* <<p, q>> in Touching: some file matches both p and q
  Scopes,        \* the sets of patterns a claim may ask for
  Places,        \* <<repo, branch>> pairs; "" stands for a field left out
  Sprints,       \* sprints of the Space, all of them active but in module Sprints
  Space,         \* the coordination context of a member in no sprint
  Heads,         \* commit ids a post-commit hook reports
  AcquiredAt,    \* head_sha_at_acquire of claims: commit ids, or NoHead
  NoHead,        \* head_sha_at_acquire of a claim made without a commit id
  Modes,         \* the auto_release_modes requested, of Mode below
  Leases,        \* lease lengths, in ticks
  Never,         \* expires_at of a claim without a lease
  PendingTTL,    \* lifetime of a pending edit, in ticks (24 hours)
  MaxClaims,     \* bound: rows ever inserted into claims
  MaxPending,    \* bound: rows in pending_edits at one time
  MaxTime        \* bound: the last instant explored

Mode == {"on_commit", "manual_only", "ttl"}
Contexts == Sprints \cup {Space}
ClaimId == 1 .. MaxClaims
PendingId == 1 .. MaxPending

ASSUME PathAssumption ==
  /\ Files \subseteq Paths
  /\ Touching \subseteq Paths \X Paths
  /\ \A p \in Paths : <<p, p>> \in Touching
  /\ \A p, q \in Paths : <<p, q>> \in Touching => <<q, p>> \in Touching
ASSUME ScopeAssumption ==
  /\ Scopes \subseteq SUBSET Paths
  /\ {} \notin Scopes
ASSUME ContextAssumption == Space \notin Sprints
ASSUME ModeAssumption == Modes \subseteq Mode
ASSUME TimeAssumption ==
  /\ Leases \subseteq Nat \ {0}
  /\ PendingTTL \in Nat \ {0}
  /\ Never \notin Int
  /\ MaxTime \in Nat
ASSUME BoundAssumption == MaxClaims \in Nat /\ MaxPending \in Nat

VARIABLES
  claims,    \* rows of the claims table
  keyed,     \* idempotency key of a scope_claimed event -> the claim it made
  ended,     \* release events in the log: <<claim, event_type>>
  unread,    \* claims whose force-release notice its owner has not fetched
  pending,   \* rows of the pending_edits table
  sprintOf,  \* current coordination context of every member
  now        \* wall-clock time

vars == <<claims, keyed, ended, unread, pending, sprintOf, now>>

Patterns == SUBSET Paths   \* Scopes, and what is left of one by a split

Claim ==
  [status : {"active", "released"}, owner : Principals, scope : Patterns,
   sprint : Contexts, place : Places, mode : Mode,
   expires : Nat \cup {Never}, head : AcquiredAt,
   paused : BOOLEAN, tombstoned : BOOLEAN]

PendingEdit ==
  [blocked : Principals, blocking : ClaimId, paths : Scopes,
   sprint : Contexts, expires : Nat, resolved : BOOLEAN, tombstoned : BOOLEAN]

NoRows == [i \in {} |-> {}]

ReleaseEvents == {"scope_released", "scope_released_via_git",
                  "claim_force_released"}

TypeOK ==
  /\ DOMAIN claims = 1 .. Cardinality(DOMAIN claims)
  /\ DOMAIN claims \subseteq ClaimId
  /\ claims \in [DOMAIN claims -> Claim]
  /\ DOMAIN keyed \subseteq Principals \X Scopes \X Contexts
  /\ keyed \in [DOMAIN keyed -> DOMAIN claims]
  /\ ended \subseteq (DOMAIN claims) \X ReleaseEvents
  /\ unread \subseteq DOMAIN claims
  /\ DOMAIN pending \subseteq PendingId
  /\ pending \in [DOMAIN pending -> PendingEdit]
  /\ \A q \in DOMAIN pending : pending[q].blocking \in DOMAIN claims
  /\ sprintOf \in [Principals -> Contexts]
  /\ now \in 0 .. MaxTime

Init ==
  /\ claims = NoRows
  /\ keyed = NoRows
  /\ ended = {}
  /\ unread = {}
  /\ pending = NoRows
  /\ sprintOf = [p \in Principals |-> Space]
  /\ now = 0

-----------------------------------------------------------------------------
(***************************************************************************)
(* Rows, scopes and the gate.                                              *)
(***************************************************************************)

\* f with a row r stored under the new id i.
WithRow(f, i, r) == [j \in DOMAIN f \cup {i} |-> IF j = i THEN r ELSE f[j]]

\* The patterns of S that touch some pattern of T (findOverlaps, on a
\* candidate's side); Overlap is symmetric because Touching is.
Matched(S, T) == {s \in S : \E t \in T : <<s, t>> \in Touching}
Overlap(S, T) == Matched(S, T) # {}

\* T stops every request that touches S.
Covers(T, S) == \A p \in Paths : Overlap({p}, S) => Overlap({p}, T)

\* A row at place row is looked at by a request at place req: the branch
\* filter applies to requests that name both a repository and a branch, and
\* lets rows with an empty field through.
Admits(row, req) ==
  \/ req[1] = "" \/ req[2] = ""
  \/ row[1] \in {"", req[1]} /\ row[2] \in {"", req[2]}

Unexpired(e) == e = Never \/ e > now

Visible(c) == claims[c].status = "active" /\ ~ claims[c].tombstoned

Live(c) == Visible(c) /\ Unexpired(claims[c].expires)

\* The rows the gate compares a request in context x at place pl with.
SelectActiveIgnoringPaused(x, pl) ==
  {c \in DOMAIN claims : /\ Live(c) /\ ~ claims[c].paused
                         /\ claims[c].sprint = x
                         /\ Admits(claims[c].place, pl)}

SelectActive(x, pl) ==
  {c \in DOMAIN claims : /\ Live(c)
                         /\ claims[c].sprint = x
                         /\ Admits(claims[c].place, pl)}

HitsByName(S, x, pl) == {c \in SelectActive(x, pl) : S \cap claims[c].scope # {}}
Hits(S, x, pl) == {c \in SelectActive(x, pl) : Overlap(S, claims[c].scope)}

\* pickSupersetSelfClaim: every requested pattern touches the claim's scope.
Supersets(cs, S) == {c \in cs : Matched(S, claims[c].scope) = S}

\* The key of a scope_claimed event: member, patterns and context.  Neither
\* repository nor branch is part of it.
KeyWithoutMember(p, S, x) == <<CHOOSE q \in Principals : TRUE, S, x>>
KeyOf(p, S, x) == <<p, S, x>>

\* An earlier claim under the same key counts as over.
PriorTerminalByLeaseOnly(c) ==
  claims[c].expires # Never /\ claims[c].expires < now

PriorTerminal(c) ==
  \/ claims[c].status = "released"
  \/ claims[c].expires # Never /\ claims[c].expires < now

\* expires_at for a requested mode and lease.
ExpiresAt(m, lease) == IF m = "ttl" THEN now + lease ELSE Never

-----------------------------------------------------------------------------
(***************************************************************************)
(* claim_scope.  A request that hits a foreign row, or an own row that is  *)
(* not a superset, is refused and changes nothing.                         *)
(***************************************************************************)

\* No row is hit: the event is appended under its key, or under a salted key
\* when the key belongs to a claim that is over.
ClaimFresh(p, S, pl, m, lease, h) ==
  LET x == sprintOf[p]
      k == KeyOf(p, S, x)
      c == Cardinality(DOMAIN claims) + 1
  IN  /\ Hits(S, x, pl) = {}
      /\ k \in DOMAIN keyed => PriorTerminal(keyed[k])
      /\ c \in ClaimId
      /\ claims' = WithRow(claims, c,
           [status |-> "active", owner |-> p, scope |-> S, sprint |-> x,
            place |-> pl, mode |-> m, expires |-> ExpiresAt(m, lease),
            head |-> h, paused |-> FALSE, tombstoned |-> FALSE])
      /\ keyed' = IF k \in DOMAIN keyed THEN keyed ELSE WithRow(keyed, k, c)
      /\ UNCHANGED <<ended, unread, pending, sprintOf, now>>

\* Refresh of the stored lease on a repeated claim, by the stored mode.
RefreshedByRequest(c, m, lease) == ExpiresAt(m, lease)
Refreshed(c, m, lease) ==
  IF claims[c].mode = "ttl" /\ m = "ttl" THEN ExpiresAt(m, lease)
                                         ELSE claims[c].expires

\* The claims an ok answer may name when no row is inserted.  No row is hit
\* but the key belongs to a claim that is not over: an idempotent retry.
Recovered(p, S, pl) ==
  LET x == sprintOf[p]
      k == KeyOf(p, S, x)
  IN  {c \in DOMAIN claims : /\ Hits(S, x, pl) = {}
                             /\ k \in DOMAIN keyed /\ c = keyed[k]
                             /\ ~ PriorTerminal(c)}

\* Only own rows are hit and some are supersets: the latest of them.
Repeated(p, S, pl) ==
  LET hits == Hits(S, sprintOf[p], pl)
      cs == Supersets(hits, S)
  IN  {c \in cs : /\ \A d \in hits : claims[d].owner = p
                  /\ \A d \in cs : d <= c}

\* An answer that inserts no row: a repeated claim has its lease refreshed, a
\* recovered one is returned as it is.
ClaimAgain(p, S, pl, m, lease) ==
  /\ \/ /\ Recovered(p, S, pl) # {}
        /\ UNCHANGED claims
     \/ \E c \in Repeated(p, S, pl) :
          claims' = [claims EXCEPT ![c].expires = Refreshed(c, m, lease)]
  /\ UNCHANGED <<keyed, ended, unread, pending, sprintOf, now>>

ClaimScope(p, S, pl, m, lease, h) ==
  \/ ClaimFresh(p, S, pl, m, lease, h)
  \/ ClaimAgain(p, S, pl, m, lease)

-----------------------------------------------------------------------------
(***************************************************************************)
(* The end of claims, and the queue behind them.                           *)
(***************************************************************************)

Release(cs) ==
  claims' = [c \in DOMAIN claims |->
               IF c \in cs THEN [claims[c] EXCEPT !.status = "released"]
                           ELSE claims[c]]

\* Open rows of the queue that the end of claim c resolves.
ResolvableInCurrentContext(c) ==
  {q \in DOMAIN pending :
     /\ ~ pending[q].resolved /\ ~ pending[q].tombstoned
     /\ pending[q].sprint = sprintOf[claims[c].owner]
     /\ \/ pending[q].blocking = c
        \/ Overlap(pending[q].paths, claims[c].scope)}

FindResolvableByRelease(c) ==
  {q \in DOMAIN pending :
     /\ ~ pending[q].resolved /\ ~ pending[q].tombstoned
     /\ pending[q].sprint = claims[c].sprint
     /\ \/ pending[q].blocking = c
        \/ Overlap(pending[q].paths, claims[c].scope)}

ResolvePendingEdits(cs) ==
  LET qs == UNION {FindResolvableByRelease(c) : c \in cs}
  IN  pending' = [q \in DOMAIN pending |->
                    IF q \in qs THEN [pending[q] EXCEPT !.resolved = TRUE]
                                ELSE pending[q]]

\* release_scope: the owner ends a claim.  A claim that is already released
\* is left alone.
ReleaseScope(p, c) ==
  /\ c \in DOMAIN claims
  /\ claims[c].owner = p /\ claims[c].status = "active"
  /\ Release({c})
  /\ ended' = ended \cup {<<c, "scope_released">>}
  /\ ResolvePendingEdits({c})
  /\ UNCHANGED <<keyed, unread, sprintOf, now>>

\* evaluateRelease: a commit with HEAD at h ends a claim one of whose files is
\* in done, the committed files that are clean, deleted or renamed away.
Evidence(c, h, done) ==
  /\ claims[c].mode # "manual_only"
  /\ claims[c].head # h
  /\ claims[c].scope \cap done # {}

\* release_scope_via_git: the post-commit hook of p at place pl.
ReleaseScopeViaGit(p, pl, h, done) ==
  LET cs == {c \in DOMAIN claims : /\ Visible(c)
                                   /\ claims[c].owner = p
                                   /\ claims[c].place = pl
                                   /\ Evidence(c, h, done)}
  IN  /\ pl[1] # "" /\ pl[2] # ""
      /\ cs # {}
      /\ Release(cs)
      /\ ended' = ended \cup (cs \X {"scope_released_via_git"})
      /\ ResolvePendingEdits(cs)
      /\ UNCHANGED <<keyed, unread, sprintOf, now>>

\* force_release, by id or by the path form (which names a row of the
\* caller's current context): any member ends any claim, the owner is left a
\* notice, and the queue behind the claim is not looked at.
ForceReleasableOnceMore(c) == ~ claims[c].tombstoned
ForceReleasable(c) == Visible(c)

ForceRelease(c) ==
  /\ c \in DOMAIN claims
  /\ ForceReleasable(c)
  /\ Release({c})
  /\ ended' = ended \cup {<<c, "claim_force_released">>}
  /\ unread' = unread \cup {c}
  /\ UNCHANGED <<keyed, pending, sprintOf, now>>

\* fetch_unread_notifications: the select and the mark are one transaction.
FetchUnreadNotifications(p) ==
  LET mine == {c \in unread : claims[c].owner = p}
  IN  /\ mine # {}
      /\ unread' = unread \ mine
      /\ UNCHANGED <<claims, keyed, ended, pending, sprintOf, now>>

\* pause_claims_for_branch and resume_claims_for_branch: the post-checkout
\* hook of p leaves, or comes back to, the branch of pl.
SetPaused(p, pl, b) ==
  LET cs == {c \in DOMAIN claims : /\ Visible(c)
                                   /\ claims[c].owner = p
                                   /\ claims[c].place = pl
                                   /\ claims[c].paused # b}
  IN  /\ pl[1] # "" /\ pl[2] # ""
      /\ cs # {}
      /\ claims' = [c \in DOMAIN claims |->
                      IF c \in cs THEN [claims[c] EXCEPT !.paused = b]
                                  ELSE claims[c]]
      /\ UNCHANGED <<keyed, ended, unread, pending, sprintOf, now>>

PauseClaimsForBranch(p, pl) == SetPaused(p, pl, TRUE)
ResumeClaimsForBranch(p, pl) == SetPaused(p, pl, FALSE)

\* narrowClaimPaths: what is left of patterns T when those of S are handed over.
KeptByName(T, S) == T \ S
Kept(T, S) == T \ Matched(T, S)

\* The row of a claim that members agree on past the gate: in its owner's
\* context, without repository and branch, on_commit with an expiry.
GrantedRow(p, S, lease) ==
  [status |-> "active", owner |-> p, scope |-> S, sprint |-> sprintOf[p],
   place |-> <<"", "">>, mode |-> "on_commit", expires |-> now + lease,
   head |-> NoHead, paused |-> FALSE, tombstoned |-> FALSE]

-----------------------------------------------------------------------------
(***************************************************************************)
(* pending_edits.                                                          *)
(***************************************************************************)

QueuedIn(p, c) == claims[c].sprint

\* queue_pending_edit: the row carries the context of the blocking claim.
\* The gate hook calls it with the claim and the patterns of a refusal.
QueuePendingEdit(p, c, S) ==
  \E q \in PendingId \ DOMAIN pending :
    /\ \A r \in PendingId \ DOMAIN pending : q <= r
    /\ c \in DOMAIN claims /\ Visible(c)
    /\ now + PendingTTL < MaxTime    \* bound: its lifetime ends in the model
    /\ pending' = WithRow(pending, q,
         [blocked |-> p, blocking |-> c, paths |-> S,
          sprint |-> QueuedIn(p, c), expires |-> now + PendingTTL,
          resolved |-> FALSE, tombstoned |-> FALSE])
    /\ UNCHANGED <<claims, keyed, ended, unread, sprintOf, now>>

DeletePending(qs) ==
  /\ qs # {}
  /\ pending' = [q \in DOMAIN pending \ qs |-> pending[q]]
  /\ UNCHANGED <<claims, keyed, ended, unread, sprintOf, now>>

OpenUnlessWiped(q) == ~ pending[q].tombstoned

Open(q) == ~ pending[q].resolved /\ ~ pending[q].tombstoned

\* clear_queue: a member drops the open rows of its own.
ClearQueue(p) ==
  DeletePending({q \in DOMAIN pending : Open(q) /\ pending[q].blocked = p})

\* The hourly sweep of rows past their lifetime.
NotYetPastLifetime(q) == pending[q].expires > now
PastLifetime(q) == pending[q].expires < now

GcExpiredPendingEdits ==
  DeletePending({q \in DOMAIN pending : Open(q) /\ PastLifetime(q)})

-----------------------------------------------------------------------------
(***************************************************************************)
(* Context changes and time.                                               *)
(***************************************************************************)

\* join_sprint (which leaves the sprint the member is in) and leave_sprint.
JoinSprint(p, x) ==
  /\ x \in Sprints /\ sprintOf[p] # x
  /\ sprintOf' = [sprintOf EXCEPT ![p] = x]
  /\ UNCHANGED <<claims, keyed, ended, unread, pending, now>>

LeaveSprint(p) ==
  /\ sprintOf[p] # Space
  /\ sprintOf' = [sprintOf EXCEPT ![p] = Space]
  /\ UNCHANGED <<claims, keyed, ended, unread, pending, now>>

Tick ==
  /\ now < MaxTime
  /\ now' = now + 1
  /\ UNCHANGED <<claims, keyed, ended, unread, pending, sprintOf>>

-----------------------------------------------------------------------------

Lease(m) == IF m = "ttl" THEN Leases ELSE {0}

\* Requests of the gate hook: a member queues behind a peer's claim that
\* touches the patterns it was refused.
RefusedBy(p, c, S) ==
  claims[c].owner # p /\ Overlap(S, claims[c].scope)

\* The tools and the sweep that leave the members where they are, and time.
Tools ==
  \/ \E p \in Principals, S \in Scopes, pl \in Places, m \in Modes :
       \E lease \in Lease(m), h \in AcquiredAt :
         ClaimScope(p, S, pl, m, lease, h)
  \/ \E p \in Principals, c \in ClaimId : ReleaseScope(p, c)
  \/ \E p \in Principals, pl \in Places, h \in Heads, done \in SUBSET Files :
       ReleaseScopeViaGit(p, pl, h, done)
  \/ \E c \in ClaimId : ForceRelease(c)
  \/ \E p \in Principals : FetchUnreadNotifications(p)
  \/ \E p \in Principals, pl \in Places : PauseClaimsForBranch(p, pl)
  \/ \E p \in Principals, pl \in Places : ResumeClaimsForBranch(p, pl)
  \/ \E p \in Principals, c \in DOMAIN claims, S \in Scopes :
       RefusedBy(p, c, S) /\ QueuePendingEdit(p, c, S)
  \/ \E p \in Principals : ClearQueue(p)
  \/ GcExpiredPendingEdits
  \/ Tick

Next ==
  \/ Tools
  \/ \E p \in Principals, x \in Sprints : JoinSprint(p, x)
  \/ \E p \in Principals : LeaveSprint(p)

Spec == Init /\ [][Next]_vars

\* Time passes and the hourly sweep of the server keeps running (its timer is
\* re-armed by setInterval and errors are caught).  Members owe nothing.
FairSpec == Spec /\ WF_vars(Tick) /\ WF_vars(GcExpiredPendingEdits)

-----------------------------------------------------------------------------
(***************************************************************************)
(* Properties.                                                             *)
(***************************************************************************)

\* Two rows that would refuse each other's request.
SamePlace(c, d) ==
  /\ Admits(claims[c].place, claims[d].place)
  /\ Admits(claims[d].place, claims[c].place)

\* The gate of claim_scope works: of two live claims in one context and one
\* place, whoever holds them, none touches the other, paused claims included.
Exclusion ==
  \A c, d \in DOMAIN claims :
    /\ c # d /\ Live(c) /\ Live(d)
    /\ claims[c].sprint = claims[d].sprint
    /\ SamePlace(c, d)
    => ~ Overlap(claims[c].scope, claims[d].scope)

\* The idempotency index never leads a retry to somebody else's claim: a key
\* names a claim of its member, for its patterns, in its context, and a
\* claim is named by one key at most.
KeysNameOwnClaims ==
  /\ \A k \in DOMAIN keyed :
       LET r == claims[keyed[k]] IN k = <<r.owner, r.scope, r.sprint>>
  /\ \A k, l \in DOMAIN keyed : keyed[k] = keyed[l] => k = l

\* A claim has an expiry exactly when it is held on a lease, however often it
\* is asked for again and with whatever mode (the refresh of claim_scope).
LeaseMatchesMode ==
  \A c \in DOMAIN claims :
    claims[c].expires # Never <=> claims[c].mode = "ttl"

\* A claim ends once: a row is released exactly when the log holds a release
\* event for it, the log never holds two, whatever tools raced for the claim,
\* and only a force-release leaves its owner a notice.
EndsOnce ==
  /\ \A c \in DOMAIN claims :
       claims[c].status = "released" <=> \E e \in ended : e[1] = c
  /\ \A e, f \in ended : e[1] = f[1] => e = f
  /\ \A c \in unread : <<c, "claim_force_released">> \in ended

\* A claim made in manual_only mode is never ended by a commit hook: only its
\* owner or a force-release ends it (evaluateRelease).
ManualOnlySurvivesGit ==
  \A c \in DOMAIN claims :
    claims[c].mode = "manual_only" => <<c, "scope_released_via_git">> \notin ended

\* A queued row stays in the context of the claim it waits for, whatever
\* sprints its member and the owner of the claim move through: a release,
\* which looks only at rows of the claim's context, therefore finds it.
QueueInClaimContext ==
  \A q \in DOMAIN pending :
    pending[q].sprint = claims[pending[q].blocking].sprint

\* No member is left queued behind a claim that its owner or a commit ended:
\* such an end resolves, in the same transaction, the rows that name it.
ReleaseDrainsQueue ==
  \A q \in DOMAIN pending :
    LET c == pending[q].blocking
    IN  Open(q) => \/ claims[c].status = "active"
                   \/ <<c, "claim_force_released">> \in ended

\* A row leaves the queue for good when it is resolved: it is not opened
\* again, and its rows are kept.
ResolvedIsKept ==
  [][\A q \in DOMAIN pending :
       pending[q].resolved =>
         q \in DOMAIN pending' /\ pending'[q] = pending[q]]_vars

\* What an ok answer of claim_scope means to the caller: a claim of its own is
\* live, so the gate sees it, and it stops every peer whose request touches the
\* patterns asked for, in the context and at the place of the request.  A
\* retry misses this at one instant, the last of a lease: the retry path takes
\* the claim to be active (expires_at < now is false), the gate does not
\* (expires_at > now is false too).
AtLeaseEnd(c) == claims[c].expires # Never /\ claims[c].expires = now

HeldOnSuccess ==
  \A p \in Principals, S \in Scopes, pl \in Places :
    \A c \in Recovered(p, S, pl) \cup Repeated(p, S, pl) :
      /\ claims[c].owner = p /\ claims[c].sprint = sprintOf[p]
      /\ Live(c) \/ (c \in Recovered(p, S, pl) /\ Visible(c) /\ AtLeaseEnd(c))
      /\ Admits(claims[c].place, pl)
      /\ Covers(claims[c].scope, S)

\* Every queued row is resolved or dropped in the end, even when the claim it
\* waits for is never released.
QueueDrains == \A q \in PendingId :
  (q \in DOMAIN pending /\ Open(q)) ~> ~ (q \in DOMAIN pending /\ Open(q))

-----------------------------------------------------------------------------
(***************************************************************************)
(* The promise: live claims are grants of the abstract lock.               *)
(***************************************************************************)

GrantOf(c) ==
  [id |-> c, owner |-> claims[c].owner, scope |-> claims[c].scope,
   sprint |-> claims[c].sprint, place |-> claims[c].place]

Grant == [id : ClaimId, owner : Principals, scope : Scopes,
          sprint : Contexts, place : Places]

Clash(g, h) ==
  /\ g.sprint = h.sprint
  /\ Admits(g.place, h.place) /\ Admits(h.place, g.place)
  /\ Overlap(g.scope, h.scope)

Held == {GrantOf(c) : c \in {d \in DOMAIN claims : Live(d)}}

Lock == INSTANCE ScopeLock WITH held <- Held, Grants <- Grant, Clashing <- Clash

\* The claim tools implement the lock: live claims come one at a time, each
\* clear of all the others, and go only by ending or lapsing.
ImplementsLock == Lock!Spec
=============================================================================
