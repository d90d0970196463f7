# A TLA+ model of the Teamem coordination server

Teamem lets coding agents that work on one repository coordinate through a
*Space*: they claim file scopes before editing, queue behind each other's
claims, and are told when a scope is free again.  This directory holds TLA+
specifications of that server, of the cloud control plane in front of it and of
the channel that delivers its events, TLC configurations that check them on
small instances, and TLAPS proofs about them.  Paths below are relative to the
repository (`src/` is its own source directory, `plugin/` the Claude Code
plugin).

    ScopeLock.tla      what the claim service promises: a lock on scopes
    Claims.tla         the claim tools and the pending-edit queue, with properties
    MCClaims.tla       values for TLC
    ClaimsProofs.tla   theorems about Claims for all values of the constants
    Sprints.tla        the life of Sprints, composed with Claims
    MCSprints.tla      values for TLC
    SprintsProofs.tla  theorems about Sprints
    Permission.tla     permission requests, composed with Claims
    MCPermission.tla   values for TLC
    PermissionProofs.tla  theorems about Permission
    Disputes.tla       disputes and their outcomes, composed with Claims
    MCDisputes.tla     values for TLC
    DisputesProofs.tla theorems about Disputes
    Spaces.tla         membership, wipe, disband, restore and collection of a Space
    SpacesProofs.tla   theorems about Spaces
    ControlPlane.tla   the web control plane and the runtime it drives over HTTP
    ControlPlaneProofs.tla  theorems about ControlPlane
    Channel.tla        a session's channel: polls, cursor, faults and restarts
    ChannelProofs.tla  theorems about Channel
    Decisions.tla      decisions, plans, their history and the notices of them
    DecisionsProofs.tla  theorems about Decisions
    MCSpaces.tla, MCControlPlane.tla, MCChannel.tla, MCDecisions.tla
                       values for TLC
    PROJECT.json       components, runs, mutants, source map, hazards, theorems

## 1. Inventory

Every tool handler is a synchronous function that does its writes in one
SQLite transaction, mostly `db.transaction(...).immediate()`; the database is
an append-only `events` table with an `idempotency_keys` index, and projection
tables that handlers write in the same transaction.  Bun runs one handler at a
time, except across an `await`; a second server process on the same file is
possible (`src/server/tools/context.ts:64`).

| component | state | operations | what makes it correct |
| - | - | - | - |
| Claims (`claim-tools.ts`, `domain/conflicts`) | `claims`, keys of `scope_claimed` events, `unread_notifications` | claim, release, release by commit, force-release, pause, resume, fetch notices | no two live claims of one context and place overlap; retries are answered with a claim in force; a claim ends once |
| Pending edits (`queue-tools.ts`, `pending-edits.ts`) | `pending_edits` | queue, clear, resolve on release, hourly sweep | a queued member is reminded when the claim goes; rows do not linger |
| Sprints (`sprint-tools.ts`) | `sprints`, `sprint_memberships` | create, join, leave, archive, reopen | one context per member; an archived sprint has no members and no live claims |
| Permission requests (`permission-tools.ts`) | `permission_requests`, in-process wakers | request (long poll), respond, expire | resolved once; the requester is told what was decided; a grant gives a claim nobody else holds |
| Disputes (`dispute-tools.ts`, `domain/disputes`) | `disputes`, moves in the log, the Space's termination conditions, `coord_pref` of members | open, post, end, configure, change preference | ends once; log and row agree; the outcome is applied once and hands over what was agreed |
| Event store and cursors (`sqlite-event-store.ts`, `events.ts`) | `events`, `cursors` | append, get_updates | a reader that pages with its cursor sees every event |
| Channel (`src/channel`) | a cursor in memory and in a file | prime, poll, emit, persist | nothing is passed over, the past is not replayed, delivery catches up |
| Projections (`apply-event.ts`, `rebuild.ts`) | all projection tables | apply, rebuild | replaying the log gives the live rows |
| Decisions (`decision-tools.ts`) | `decisions`, `decision_history`, `unread_notifications` | publish, amend, supersede, record, hand out notices | versions grow by one; a superseded decision is final; one open plan per context; everyone is told |
| Discussions, findings, artifacts, blockers, focus | a table each | append, acknowledge, resolve | an appended event has its row |
| Space rules (`space-rules-tools.ts`) | `space_rules_snapshots` | propose with a base hash | no lost update |
| Spaces (`spaces.ts`) | `spaces`, `members`, `room_codes` | create, join, leave, kick, disband, restore, wipe, unwipe, collect | one creator remains; hidden rows come back together; a disbanded Space keeps its data and deadline, and is restored or collected |
| Transport (`routes.ts`, `rate-limit.ts`) | MCP session registry | requests | bounded |
| Cloud (`src/cloud`, `apps/web/src/server`) | `cloud_spaces`, grants in Postgres; rows of the runtime | provision, rotate, delete, override, suspend | one Space per account; both sides agree after any loss, retry or crash |
| Plugin hooks (`plugin/scripts`, `plugin/git-hooks`) | cached session files | gate an edit, report a commit or checkout | a refused edit is queued |
| Bridge, CLI, bootstrapper | `credentials.json` | forward, format, install; prune the credential of a gone Space | |

How they interact.  The *gate hook* calls `claim_scope` before an edit; on a
refusal it calls `queue_pending_edit` in a second request.  *Git hooks* call
`release_scope_via_git`, `pause_claims_for_branch` and
`resume_claims_for_branch`.  A release resolves the queue in its transaction.
Sprints set the context in which claims collide.  Permission grants, dispute
outcomes, sprint archival and wipes write the claims table past the gate.  The
hourly timers of `src/server/index.ts` delete queued rows past their lifetime
and disbanded Spaces.  The control plane calls the runtime's cloud-admin routes
over HTTP, and no transaction spans the two.  The channel polls `get_updates`,
which also marks the notices of decisions it answers as delivered.

The hard behaviours are listed, each at its line, under `hazards` in
PROJECT.json: races of members and hooks for one claim, retries answered by the
idempotency index, leases that lapse while no code runs, rows queued behind
claims whose owners move between sprints, long polls that race their answer,
writes that bypass the gate, readers that page by an id made before the write.

## 2. Plan

Done: **ScopeLock, Claims**, the heart of the system, which the next two are
composed with; **Permission**; **Disputes**; **Sprints**; **Spaces**;
**ControlPlane**; **Channel**; **Decisions**; theorems about every one of them,
which state all the invariants and action properties of the runs.

Next, in this order:

1. **SoftWipe**, extending Claims with wipe and unwipe: retries that name
   tombstoned claims, overlap after unwipe.
2. **GateHook**: the refusal and the queue call as two steps of a process.
3. **SharedDb**: two server processes between the reads and the transaction of
   `claim_scope`, `queue_pending_edit` and `join_sprint`.
4. **Rebuild**: replay of the claim events against the live rows.
5. **Discussion** (append and project as two commits, crash, retry),
   **SpaceRules**.
6. **PathMatch**, **GitEvidence**: the pure algorithms against reference
   definitions on bounded inputs (TLC only).

The runs number twelve.  To keep to that, a statement of the documentation that
the code contradicts has a run of its own only where nothing else shows the
behaviour; the other disagreements are described, with the constants that show
them, in the section of their module.

## 3. Claims and Sprints

### State and actions

| variable | code |
| - | - |
| `claims` | rows of `claims`, by insertion order; `expires = Never` is a null `expires_at`; `status` is `released` exactly when `released_at` is set |
| `keyed` | `idempotency_keys` rows of `scope_claimed` events under unsalted keys, with the claim the event made |
| `ended` | the release events in the log: `scope_released`, `scope_released_via_git`, `claim_force_released` |
| `unread` | undelivered `unread_notifications` of force-releases |
| `pending` | rows of `pending_edits` |
| `sprintOf` | `readCurrentSprintId` of each member, or Space mode |
| `now` | the clock, in the resolution of the stored timestamps |

`ClaimScope` is `claim_scope`: `ClaimFresh` inserts a row when the gate finds no
overlapping live row and the key is free or belongs to a claim that is over
(then the new event gets a salted key, so `keyed` keeps the old entry);
`ClaimAgain` is an ok answer without a new row, either a repeated claim, whose
lease is refreshed by the *stored* mode, or a recovered one.  A refused request
changes nothing and is no step.  `ReleaseScope`, `ReleaseScopeViaGit`,
`ForceRelease`, `PauseClaimsForBranch`, `ResumeClaimsForBranch`,
`FetchUnreadNotifications`, `QueuePendingEdit`, `ClearQueue`,
`GcExpiredPendingEdits`, `JoinSprint` and `LeaveSprint` are the tools and the
sweep of the same names.  `Tick` is time.  `Tools` is all of this but the moves
of members.

Module `Sprints` adds the variable `status`, the column of the table `sprints`,
and the life of Sprints around `Tools`.  `CreateSprint` and `ReopenSprint` also
move the member into the Sprint (`Enter`); `JoinActiveSprint` is `JoinSprint` with
the check of the status, which `Claims` alone leaves out, as its Sprints are always
active.  `ArchiveSprint` needs an empty Sprint and ends the claims left behind
in it (`LeftBehind`), paused and lapsed ones included, each with an event and a
notice, as a force-release does; the queue behind them is not looked at.

Patterns are members of a set `Paths` with a reflexive and symmetric relation
`Touching` for `pathsOverlap`; the matching algorithm is not part of this
module.  The branch filter keeps its quirks: a request that does not name both
a repository and a branch is compared with every row, and a row with an empty
field is compared with every request.  Commit evidence compares claimed
patterns with file names literally, as `evaluateRelease` does.

A handler reads some rows before it opens its transaction
(`readCurrentSprintId` in `claim_scope`, the blocking claim in
`queue_pending_edit`).  With one server process nothing runs in between, so the
handler is one action; several processes are in the plan.  Tombstones occur in
the rows and guards, but nothing here writes them (SoftWipe, in the plan).

### Runs

| run | bounds | question |
| - | - | - |
| `gate` | module Sprints; 2 members (symmetric), a file and a glob over it, 2 claims, 1 Sprint, instants 0..1, leased and manual claims, requests with and without a branch | `Exclusion`, `KeysNameOwnClaims`, `LeaseMatchesMode`, `EndsOnce`, `ArchivedIsQuiet`; `ImplementsLock`: every step is a step of `ScopeLock` or a stutter |
| `answer` | two files, scopes of one or both, leased claims, 2 claims, 1 row, one sprint and Space mode, instants 0..2, one branch, `FairSpec` | `HeldOnSuccess`, `ReleaseDrainsQueue`, `QueueDrains`, `ResolvedIsKept` |

Two claims are the smallest number that can collide, follow each other under
one key, or both stand in front of one queued row; a violation of the
properties above relates at most two claims, one row and two members.  One
Sprint, which is archived and reopened any number of times, and Space mode are
two contexts; `ArchivedIsQuiet` speaks of one Sprint at a time.  Two
instants separate before and at the end of a lease of one tick, three also the
time after it, which the retry path tells apart.
`QueuePendingEdit` carries a bound besides the row limits: it is enabled only
while the row's lifetime ends within `MaxTime`, so that liveness is not lost to
the end of the model's time.  The type invariant, and two more parts of the
inductive invariant, `ManualOnlySurvivesGit` and `QueueInClaimContext`, are
proved (section 10).

### What the code does not keep

A lease has a last instant that the claim tools disagree about.  The gate and the
listings want `expires_at > now` (`context.ts:519`), and the retry path takes a
claim to be over when `expires_at < now` (`claim-tools.ts:361`), by a comment that
asks "is the prior claim still active?".  At `expires_at = now` a retry is
therefore answered ok with a claim that stops nobody, and a peer may claim the
same files at that instant.  `HeldOnSuccess` names this instant (`AtLeaseEnd`) and
excepts nothing else; without the exception TLC violates it in `answer` after a
leased claim and one tick.

Further, `answer` keeps to files of one branch, because `HeldOnSuccess` is false
beyond:

* `pickSupersetSelfClaim` (`context.ts:810`) takes "every requested pattern
  overlaps the claim" for "the claim covers the request", so a member holding
  `src/auth/login.ts` who asks for `src/auth/**` is told ok with the file's claim
  (with `Paths = {a, dir}` and `Touching <- FileAndGlob` TLC shows it).
  `claim-tools.ts:270` says of this case "Caller must release-and-reclaim with
  the wider scope."
* The idempotency key (`claim-tools.ts:390`) leaves out repository and branch, so
  a request for a branch where nothing is held is answered with the claim on
  another branch (with two places in `Places` TLC shows it), though
  `context.ts:497` has "A claim on a different branch is not a conflict".

Three more statements are not kept: a force-release does not
look at the queue, so nobody is reminded (`claim-tools.ts:1088`; `CONTEXT.md:67`
says "When the incumbent's claim is released, Teamem reminds me."); a row queued
behind two overlapping claims is resolved, as now free, when either is released
(`claim-tools.ts:561`); and nothing resolves rows when a lease runs out, though
`CONTEXT.md:257` says so.

Of Sprints: a member who leaves the Space, or is kicked, keeps its row in
`sprint_memberships`, so the Sprint it was in can never be archived
(`sprint-tools.ts:793` counts it; `CONTEXT.md:136` has "only after every member has
left it").  Claims hidden by a soft wipe are skipped by an archive
(`sprint-tools.ts:842`) and are in force again, in the archived Sprint, after an
unwipe; wipes are not in this module.

### Fairness

`FairSpec` assumes weak fairness of `Tick` (time passes) and of
`GcExpiredPendingEdits`: `src/server/index.ts` runs the sweep in a `setInterval`
whose callback catches its errors, so it is tried again every hour as long as
the server lives.  Members owe nothing: no fairness is assumed of a release.

## 4. Permission

| variable | code |
| - | - |
| `requests` | rows of `permission_requests`; `granted` is the claim a grant made |
| `calls` | calls of `request_edit_permission`, with the point they are at and their answer |
| `wakers` | `permissionWakers` of each process: which call a resolution wakes |
| `busy` | the call whose handler a process is in the middle of |

A call is several steps.  `Check` is its reads, the count of open requests
included; `Insert` its transaction, in which another process may have written
since; then the long poll waits, without holding the process, until `Poll` sees
the row resolved, an answer in the same process wakes it (`Wake`), or `Timeout`
fires.  The timer does not read the row: the call is answered `timeout`, and
`Expire` then resolves the row if it is still open.  `Rejoin` is a call for a
request that has a row.  `Deny` and `Accept` are `respond_permission_request`;
`Accept` narrows the blocking claim (or releases it when nothing is left) and
inserts a claim for the requester past the gate.  `Restart` loses the calls and
the wakers of a process.  A process runs one handler at a time (`Idle`); all
tools of `Claims` run beside these actions.

Nobody has to answer, and the ids of calls, requests and claims are bounded, so
these runs may stop and do not look for deadlock.

| run | bounds | question |
| - | - | - |
| `ask` | 1 process, 2 requests, cap 1, 2 calls, 3 claims, one of them made by `claim_scope`, over three files and a glob that matches one | `ToldWhatWasDecided`, `CapHolds`, `SplitIsClean` |
| `calls_end` | 2 processes, 1 request, 2 calls on one waker, 2 claims, `PermissionFairSpec` | `CallsEnd`, `ResolvedOnce` |

`ask` allows one waiting call per request (`MaxWaiters`): with two calls or two
processes `ToldWhatWasDecided` does not hold (below).  Its three claims are one
that a member makes (`MaxTaken`) and one for each of two grants.  Of a claim of
`b`, another file and a glob, `a` may be granted, which takes the glob away, then
`b`, and the other file is left; or the second request is about the claim that
the first grant made.
`PermissionFairSpec` assumes weak fairness of `Insert`, `Poll`, `Timeout` and
`Expire`: a handler that runs goes on to its end, and the event loop fires
timers.  It assumes no answer.

What the code does not keep: with a second process (`Servers = {s1, s2}`) a
request may be granted after its call timed out, because the timer settles the
call without reading the row (`context.ts:777`), so the member is told to skip
and holds a claim; `CONTEXT.md:300` says that late responses "are rejected as
already resolved".  A grant does not look whether the blocking claim was
released and its file claimed by somebody else (`permission-tools.ts:436`), so
two live claims overlap: `Exclusion`, as an invariant of `PermissionSpec`, is
violated.  And two processes may both count the open requests before either
inserts, and pass the cap by one (`permission-tools.ts:206`; `CapHolds` is checked
and proved for one process, `CapNearly` proved for any number); a request whose process stopped, or that was made without
waiting, stays open for ever (`permission-tools.ts:313`), and the claim of a
grant is `on_commit` with an expiry (`permission-tools.ts:516`), so
`LeaseMatchesMode` is a property of the claim tools alone.

## 5. Disputes

| variable | code |
| - | - |
| `disputes` | rows of `disputes` |
| `moves` | the `discussion_posted` events of each thread that carry a move, in insertion order, as `replayDisputeMoves` reads them |
| `closings` | `dispute_resolved` and `dispute_terminated` events |
| `enabled` | `dispute_terminations_json` of the Space |
| `auto` | members whose `coord_pref` is `auto-discuss` |

A move is a record with the proposal it answers as an index into the log, so
the replayed state is three operators on a log: `OpenProposals`, `ReplayStatus`
and its length.  `Legal` is `validateMove`, `Met` and `First` are
`checkTermination`.  `DisputePostMove` is the whole handler: a condition that
holds already ends the dispute in place of the move; otherwise a legal move is
appended, and then the caps are looked at again, or an accept applies its
proposal, or a concession closes the row.  `EndDispute` is the override of
either party; its accept takes the latest open proposal.  `AcceptOutcome` is
`applyAcceptOutcome`: the disputed claim is narrowed by the paths agreed, the
opener's by what it offered, and the opener gets a claim (`GrantedRow`) past the
gate.  A refused move changes nothing and is no step.  All tools of `Claims` run
beside these actions, so the disputed claim may be released, or lapse, while
the parties talk.

| run | bounds | question |
| - | - | - |
| `disputes` | 2 members, claims of a glob and a file, offers of a file in the glob, 1 dispute, 2 claims, 3 turns, wall clock of 1 tick, instants 0..1, two configurations | `ClosesOnce`, `LogAgreesWithRow`, `TurnsAndAnswers`, `HandedOver`, `WithinTurns` |
| `swap` | the same, offers of a file or of nothing | not kept (below) |

Three turns are a proposal, a rejection or a counter-proposal, and an answer to
either: two proposals can be open at once.  `MaxMoves`, the bound on moves
where `turns` is not enabled, is above `MaxTurns` and never binds in these runs,
whose configurations both enable `turns`.  Two claims are the disputed one and one
made by an agreement or by a tool.  Several disputes meet only
in the claims, and the theorems hold for any number of them.  Nobody has to
negotiate, and ids are bounded, so these runs may stop and do not look for
deadlock.

What the code does not keep (`swap`): a swap proposed by the target is applied
with the roles of one proposed by the opener, so the target's claim keeps what
the target was to release.  Without a run: the wall-clock cap is only looked at
when a move is posted, so a stalled dispute stays open
(`dispute-tools.ts:264`, against `CONTEXT.md:352`); `end_dispute` does not look
whether `user_override` is enabled (`CONTEXT.md:354`); an agreement inserts its
claim past the gate, as grants do, and does not resolve the queue.

## 6. Spaces

| variable | code |
| - | - |
| `phase`, `grace` | the `spaces` row: `disbanded_at`, `disbanded_grace_until`, or no row |
| `members` | rows of `members`, left ones included |
| `code` | a room code that admits joiners |
| `rows`, `wipes` | `tombstoned_at` of the projection rows; timestamps of `space_wiped` events |
| `req` | requests that passed the auth middleware and whose handler has not run |
| `key`, `running` | the creator's entry in `credentials.json`; its bridge and channel, each with the token in memory |

`Authenticate` is the middleware: it admits an active member of a live Space.
Between it and the handler the request's body is awaited, so any number of
other handlers run.  Each handler looks at what it looks at in the code and no
more: `leave`, `kick` and `disband` read the member row again, `wipe` and
`unwipe` the Space too, `rotate-code` and the tools neither.  `Refuse` is an
error answer or a lost request.  `GcDisbandedSpaces` is the hourly sweep.
`CallGone` is any client call on a disbanded Space.

| run | bounds | question |
| - | - | - |
| `spaces` | a creator and 2 names, 2 member rows, 2 requests in flight, 2 content rows, a bridge, grace period of 2, instants 0..3, `FairSpec` | `Membership`, `TombstonesReversible`, `UnwipeShowsAll`, `GraceStands`, `DisbandedKeepsData`, `DisbandEnds` |
| `restore_key` | the same, and a second client beside the bridge | not kept: `CreatorKeepsKey` |

Two requests in flight are what a race needs: one admitted before the other's
handler ran.  A member row is never reused, so two rows are the creator and one
joiner, who may leave, be kicked, and have its name taken no second time; with
three rows nothing new relates to them but the uniqueness of names, which the
code's index gives.  Two content rows can carry the stamps of two wipes.

Fairness: time passes, the sweep is a `setInterval` that catches its errors, and
no request stays in flight for ever.  Assumed besides: a request takes less
than a grace period of seven days (`Tick`).  Restoring is nobody's duty.

What the code does not keep (`restore_key`): `createHttpClient` prunes the
credential on *any* 410, so the channel or bridge of the creator, which go on
calling after `space disband`, delete the one key that `space restore` needs; a
bridge that still runs is then the last holder of the token.  A suspended cloud
Space answers 410 as well, so its members lose their credentials to a
suspension that an operator may lift.  Not modelled as properties: `sprints`
and `sprint_memberships` are in neither list of tables that a wipe or the
collection goes through (`spaces.ts:1200`, `spaces.ts:1234`), so they survive
both; `rotate-code` and tools admitted before a disband still write.

## 7. Control plane

| variable | code |
| - | - |
| `cp`, `granted` | `cloud_spaces` of one account and its free-plan grant, in Postgres |
| `rt`, `rotations` | the runtime's `spaces` rows and `cloud_admin_room_code_rotations`, in SQLite |
| `call` | the web or operator requests in progress: the step each is at and what it read |
| `doubt` | a history variable: an override was lost or met another one, so that nothing is promised of the policy |

Each function of `src/cloud/control-plane.ts` is a sequence of actions: what it
reads (`Start...`), each statement of its repository that writes, the runtime's
handling of its HTTP request, one transaction each, and the write from the
answer.  `Fail` ends a call at any point (an error, a crash of the web process, a
lost message); `Abandon` leaves the request on its way without a caller, so it
may arrive arbitrarily late.  Nothing retries but a new call.  Rows are selected
by account or Space, so one account is enough.  The runtime's unique keys and the
partial indexes of Postgres are guards (`NoConflict`, `Created`).

| run | bounds | question |
| - | - | - |
| `control_plane` | 2 calls in flight, 2 rows on each side, 3 room codes, instants 0..2, trial of 1, calls interchangeable | `OneSpace`, `NamesItsRuntime`, `DeletedIsDisbanded`, `DisplayCatchesUp`, `PolicyAgrees`, `DeletedStays` |

Two calls are what any of these races needs, as every finished call may be
followed by a new one; a third would only repeat the role of an orphan.  The
bound on rows is above what is ever reached, which `OneSpace` says.

Assumed: no call is in flight for the seven days after which a deleted Space is
collected (`Collect`).  The voiding of a grant on a terminal failure
(`control-plane.ts:705`) is left out because no code of the runtime answers
`provisioning_failed`; so is its status.

What the code does not keep, without a run: the dashboard suspends by what it
read, and its UPDATE looks at the status only, so an override that extends the
trial in between ends with a suspended row and a policy in force
(`control-plane.ts:465`, against `docs/deploy/teamem-cloud.md:133`); a late
answer to a create makes a row `active` whatever has become of it
(`markCloudSpaceProvisioned`), which `DeletedStays` excepts by name; a suspended
row that never got a runtime Space is not provisioned again; a deletion whose
answer is lost and which is not asked for again before the collection stays
`delete_pending`, since the runtime then answers `space_not_found`.

## 8. Channel

| variable | code |
| - | - |
| `log`, `ms` | `events` by id, the server's clock |
| `file`, `cursor` | `CURSOR_FILE`, and the variable `cursor` of `startPolling` |
| `poll` | invocations of `pollChannelOnce` between their awaits |
| `shown`, `dropped` | events a notification was sent for, or the rate limiter left out |
| `first`, `base` | history: the newest id when the session first polled; where the first priming ended |

A poll is `StartPoll`, then pages of `get_updates` (`GetUpdates`), one action per
event emitted or dropped, and `FinishPage` or `FinishPriming`, which write the
cursor.  `UpdatesNotOk` returns the cursor the poll began with; `PollThrows` skips
the assignment; `Stop` and `Start` are the process.  The server's page ends
at the limit of visible events or of scanned rows (`Fits`), and its next cursor
is the last row looked at.

| run | bounds | question |
| - | - | - |
| `channel` | 2 polls, 3 events of 3 kinds, pages of 1, priming pages of 2, 1 fault or restart, `FairSpec` | `NothingSkipped`, `NoReplay`, `AllSettled` |

Pages of one event make every event a page boundary; a priming page of two
makes priming take one page or two.  The scan limit is above the log.

Fairness: the interval timer fires; some poll that can go on does (one of the
two may hang for ever, as requests have no timeout); a stopped session is
started again.  Faults are at most `Faults`.  Assumed: the session directory can
be written, `OverlapPriming` is FALSE (the first poll returns before the timer
fires), one event per millisecond (`Burst = 1`), and the scan limit is not
reached while priming.

Beyond the assumptions, with these constants and without a run:
* `Burst = 2` violates `NothingSkipped`: `newEventId` is a plain ULID, random
  within a millisecond, so an event inserted after a page was read may sort
  before its cursor, against the comment of `sqlite-event-store.ts:109`,
  "ULID-based cursor: event_id is a ULID so lexicographic order = insertion
  order".
* `OverlapPriming = TRUE` violates it too: a second priming, begun before the
  first returned, sets the cursor past events that came in between.
* `ScanLimit = 1` violates `NoReplay`: priming takes a page cut short by the
  scan limit for the last one, and stops there.

Not in the model: an event of a Sprint that its reader joins later is passed over
while the reader is outside, by design of `isVisibleInCurrentMode`; and events the
channel shows nothing of are treated as `chat` that may be dropped.

## 9. Decisions

| variable | code |
| - | - |
| `log` | decision events, per decision; `decision_history` |
| `rows` | `decisions` |
| `at` | `readCurrentSprintId` of each member |
| `unread`, `told` | undelivered notices; a history variable, what was answered to whom |
| `record` | calls of `record_decision` between their read and their transaction |

Each tool appends its events, projects them, writes the history and leaves the
notices in one transaction (`Append1`): a publication supersedes the decision it
names and, if it is a plan, all open plans of its context.  `TakeNotices` is
`session_sync` or `fetch_unread_notifications`; `GetUpdates` is a page of events,
of which the notices are marked delivered.

| run | bounds | question |
| - | - | - |
| `decisions` | 1 Space, 2 members, 2 ids (both symmetric), 1 Sprint, 4 events, one server process | `OrderlyHistory`, `PlansAreExclusive`, `EveryoneTold` |
| `other_space` | 2 Spaces, 3 events | not kept: `RowsStayHome` |

Four events are a plan, a second one that supersedes it (two events), and one
more for a decision that is superseded or amended already.

What the code does not keep (`other_space`): a decision id that two Spaces choose
is one row, so one Space's decision overwrites the other's.  Without a run: with
`OneServer = FALSE` a second process may write between the read of
`record_decision` and its transaction (`decision-tools.ts:280`), and
`OrderlyHistory` is violated.  Plans are exclusive in less than the Space:
`plugin/commands/decide.md:21` has a plan supersede "all prior open plan decisions
in this space", but the code looks only at plans of the publisher's own context
(`decision-tools.ts:99`, `:311`), so a plan published inside a Sprint leaves open
the plans of other Sprints and those made outside any.  `PlansAreExclusive` is the
code's rule; without its conjunct on `context` TLC violates it in `decisions`.  And
an amendment may turn a decision into a second open plan of its context, which
`PlansAreExclusive` excepts.

## 10. Proofs

`ClaimsProofs.tla` proves, for all values of the constants allowed by the named
assumptions of `Claims` (a reflexive, symmetric `Touching`; non-empty scopes;
positive leases; a `Never` outside the integers; numeric bounds):

| theorem | statement |
| - | - |
| `TypeCorrect` | `Spec => []TypeOK` |
| `Invariant` | `Spec => []IInv` |
| `ExclusionHolds`, `KeysHold`, `LeaseHolds`, `EndsOnceHolds`, `DrainsHolds` | the invariants of the runs `gate` and `answer` that hold for all values |
| `ResolvedIsKeptHolds` | `Spec => ResolvedIsKept` |
| `HeldOnSuccessHolds` | `Spec => []HeldOnSuccess`, if `OnePlace` and `ExactPatterns` |
| `Implements` | `Spec => ImplementsLock` |

The argument.  Most steps are *quiet*: they may end claims, let time pass or
refresh a lease that is still live, but they bring no claim to life
(`Quiet`, with one lemma per action).  Quiet steps keep `Exclusion`, the keys and the
leases.  The only other step is a fresh claim (`FreshGrant`), where the gate's
empty `Hits` and the symmetry of `Touching` give `Exclusion'`.  `Exclusion` alone
is not inductive: that a refreshed lease belongs to a leased claim that the gate
just saw live needs `LeaseMatchesMode`; `ReleaseDrainsQueue` needs that a row is
in the context of its claim (`QueueInClaimContext`), since a release looks only
there; `EndsOnce` ties `status` to the log so that a second release finds the
row released.  Their conjunction `IInv` is inductive.  The refinement maps every
live claim to a grant: a fresh claim is `Acquire`, the end or lapse of claims is
`Drop`, and all else stutters.

`HeldOnSuccessHolds` has the two hypotheses that section 3 gives the reasons
for: any place of the instance admits any other (one branch), and `Touching` is
transitive (patterns are files, no glob covers two of them).  The two
counterexamples of section 3 break one each.  Under them, a recovered
answer names an own claim by `KeysNameOwnClaims`, live or at the end of its lease
(section 3) because `PriorTerminal` was looked at, and a repeated one covers the request because
what touches a requested pattern touches the pattern of the claim that it
matched; that no row is hidden (`Unwiped`) is an invariant of its own.

`SprintsProofs.tla` proves, from the assumptions of `Claims`:

| theorem | statement |
| - | - |
| `SprintsInvariant` | `SprintsSpec => [](IInv /\ SprintsInv)` |
| `ArchivedIsQuietHolds` | `SprintsSpec => []ArchivedIsQuiet` |
| `SprintsKeepClaims` | `SprintsSpec =>` always `Exclusion`, `KeysNameOwnClaims`, `LeaseMatchesMode`, `EndsOnce` |
| `SprintsImplementLock` | `SprintsSpec => ImplementsLock` |

The argument.  Besides the steps of `Claims`, a step moves one member (`Moves`) or
ends a set of claims (`EndsByForce`); both are quiet.  `ArchivedIsQuiet` is not
inductive: that no claim appears in an archived Sprint needs that nobody is in it
and that a claim keeps its context (`KeepsContexts`).  `SprintsInv` says it the other
way around: every member, and every claim in force, is in a context that still
coordinates.

`PermissionProofs.tla` proves, from the assumptions of both modules:

| theorem | statement |
| - | - |
| `PermissionTypeCorrect` | `PermissionSpec => [](TypeOK /\ PermissionTypeOK)` |
| `ResolvedOnceHolds` | `PermissionSpec => ResolvedOnce` |
| `SplitHolds` | `PermissionSpec => []SplitIsClean` |
| `CapNearlyHolds` | `PermissionSpec => []CapNearly`, for any finite number of processes |
| `CapHoldsAlone` | `OneServer /\ PermissionSpec => []CapHolds` |
| `ToldWhatWasDecidedAlone` | `PermissionSpec => []ToldWhatWasDecided`, if `OneServer` and `MaxWaiters = 1` |

`LeaseMatchesMode` and `Exclusion` are lost in the composition, so the type
invariant is proved again for it, from one fact about every step of either
module (`Shrinks`, whose lemmas close `ClaimsProofs`): claims are never removed, keep their owner, and their scope
only shrinks.  The same fact gives `SplitIsClean`: what was clear of a granted
pattern stays clear.  `ResolvedOnce` needs no invariant: only `Resolved` and
`Insert` write the table, and neither touches a row that is not open.
`CapHolds` holds with one process, and `CapNearly` (n processes pass the cap by
n - 1 at most) with any number, because a call between its count and its
transaction keeps its process busy: `RunInv` says that a call in the phases
`checked` and `late` is the one its process runs, so there are no more of them
than processes, and `RoomInv` that open requests and counted calls together stay
below the cap and the number of processes.  With two processes TLC reaches
states above the cap.

`ToldWhatWasDecided` is a property of finished calls, and inductive only with
what the unfinished ones are owed (`ToldInv`): a call that waits has an open
request and is the waker of its process for it; a waker belongs to a call that
waits for its request; after its timer, and until the expiry, a call is told
`timeout`, its request is still open, and nobody waits for it.  So whoever
resolves a row tells the one call there is, in the same step, and no call ever
learns from the poll.  The hypotheses are those of the run `ask`: with a second
process a row may be resolved where the waker is not, and with a second waiting
call the waker is the other's (section 4).  A restart, which loses calls and
wakers together, is covered.

`DisputesProofs.tla` proves, from the assumptions of `Claims` and `Disputes`:

| theorem | statement |
| - | - |
| `DisputesTypeCorrect` | `DisputesSpec => []DisputesTypeOK` |
| `ClosesOnceHolds` | `DisputesSpec => []ClosesOnce` |
| `LogAgreesHolds` | `DisputesSpec => []LogAgreesWithRow` |
| `TurnsAndAnswersHold` | `DisputesSpec => []TurnsAndAnswers` |
| `WithinTurnsHolds` | `DisputesSpec => []WithinTurns`, if every configuration enables `turns` (`CapAlwaysOn`) |
| `HandedOverHolds` | `DisputesSpec => []HandedOver` |

The argument.  Every step of the composition does one of four things to the
disputes, their logs and their closing events (`DisputeStep`): nothing
(`Untouched`), a new row (`Opens`), a close without a move (`ClosesWithout`), or a
move with or without the close it brings (`Posts`); on the claims every step is one of `Shrinks`
(`ClaimsPart`).  `ClosesOnce` is inductive once threads without a row have no
moves and no closing events (`NoThread`).  `LogAgreesWithRow` rests on it: a move
is appended only to an open dispute, whose log therefore replays to "open",
and `ReplayAppend` says what one more move makes of it.  `TurnsAndAnswers` is
about logs alone, and a legal move keeps it (`OrderlyAppend`).  `HandedOver` needs
that a closed dispute keeps its claim and its closing event, and then follows
from what narrowing removes (`KeptIsClear`) and from `Shrinks`.
`WithinTurnsHolds` needs `CapAlwaysOn`: a Space may leave out the cap, and
without it nothing bounds the log.

`DecisionsProofs.tla` proves, from the assumptions of `Decisions`, for any
number of Spaces and of server processes:

| theorem | statement |
| - | - |
| `DecisionsTypeCorrect` | `Spec => []TypeOK` |
| `EveryoneToldHolds` | `Spec => []EveryoneTold` |
| `OrderlyHistoryHolds` | `Spec => []OrderlyHistory`, if `OneServer` and `OneSpace` |
| `PlansAreExclusiveHolds` | `Spec => []PlansAreExclusive`, under the same hypotheses |

The argument.  Every step appends a batch of events or leaves log and rows alone
(`EveryStep`), and `BatchKeeps` says what a batch keeps: old events keep their
names, and every new one leaves a notice for each of its recipients.  A step
that hands notices out moves them from `unread` to `told`.  So `TypeOK` is all the
strengthening `EveryoneTold` needs.

The other two need the hypotheses of their run: with two Spaces a decision may be
overwritten (`other_space`), and with two processes `record_decision` decides
by a row that is stale.  Their invariant `Orderly` adds that every event is of
the members' Space (`AtHome`) and that the row a waiting `record_decision` read
is the row there is, no other call being between its steps (`Waits`).  A batch
then continues each history (`Continues`): it publishes what does not exist and
amends or supersedes what is open; and the plans of a context that were open
before a plan is published are superseded in its batch.  `NoneAssumption`, which
TLC evaluates, says that `None` is not itself a row.

`ControlPlaneProofs.tla` proves, from `ControlPlaneAssumption` alone, for any
number of calls in flight, for a bound on rows that may be any number, and for
any clock:

| theorem | statement |
| - | - |
| `TypeCorrect` | `Spec => []TypeOK` |
| `OneSpaceCorrect`, `NamesItsRuntimeCorrect` | `Spec => []OneSpace`, `Spec => []NamesItsRuntime` |
| `DeletedIsDisbandedCorrect`, `DisplayCatchesUpCorrect`, `PolicyAgreesCorrect` | the other invariants of `control_plane` |
| `DeletedStaysCorrect` | `Spec => DeletedStays` |

The argument.  All of them rest on `TypeOK /\ Linked`: there is at most one row
on each side, and none before the grant; a row past provisioning, and every call
that rotates, deletes or overrides, names a runtime Space that exists, and that
one belongs to the row.  `OneSpace` and `NamesItsRuntime` follow.  Each of the
other three can be undone by a message that is still on its way, so each has an
invariant that also says what a call may still bring.  `Disbanded`: a call whose
answer confirms the end of a Space finds nothing live, and nothing becomes live
again.  `Displayed`: a code that is shown, or that a call carries to be shown, is
not above the current one, and for each code below that one there is a rotation
on record that replaced it.  `Agreed`: unless an override was lost or met
another (`doubt`), the stored policy is the row's; an override that is alone and
answered finds its own policy stored; and a provisioning that is about to create
the Space carries the policy of the row.  `DeletedStays` needs the types and
links only: the statements that write `status` name the status they expect, and
the one that does not is excepted.

`ChannelProofs.tla` proves, from the assumptions of `Channel`:

| theorem | statement |
| - | - |
| `TypeCorrect` | `Spec => []TypeOK` |
| `NothingSkippedAscending` | `Spec /\ [][IdsAscend]_vars => []NothingSkipped`, if `~ OverlapPriming` |
| `NothingSkippedCorrect` | `Spec => []NothingSkipped`, if `~ OverlapPriming` and `Burst = 1` |
| `NoReplayScanned` | `Spec /\ []ScanReaches => []NoReplay` |
| `NoReplayCorrect` | `Spec => []NoReplay`, if `MaxLog <= ScanLimit` |

Section 8 shows that without the hypotheses the properties are false.  The two
behavioural ones are weaker than the constants of the run: `IdsAscend` allows any
number of events in a millisecond as long as each id is above those in the log,
as a monotonic ULID would be; `ScanReaches` allows a log of any length of
which the member may see all but `ScanLimit - PrimeLimit` events (900 with the
constants of the code), and overlapping primings too.

The argument.  `NothingSkipped` is about what was shown, while the code keeps
cursors.  `Behind` says that every cursor, in memory, in the file or about to be
written by a poll, is below every event that was neither shown nor dropped, and
what each poll in progress still `Owes`; it needs that all cursors are ids of
the log (`AllKnown`), so that an ascending id is above all of them, and that a
priming poll is alone (`PrimesAlone`, `FileHasBase`), since priming passes events
on purpose.  `NoReplay` is the other direction (`AllPast`): no cursor is below what
was the newest id when the session first polled, which is true of the last
page of a priming only if that page was the last (`ShortPageIsLast`), and there
the scan limit comes in.

`SpacesProofs.tla` proves, from the assumptions of `Spaces`, for any number of
requests in flight:

| theorem | statement |
| - | - |
| `SpacesTypeCorrect` | `Spec => []TypeOK` |
| `MembershipHolds` | `Spec => []Membership` |
| `ReversibleHolds` | `Spec => []TombstonesReversible` |
| `UnwipeShowsAllHolds`, `GraceStandsHolds`, `DisbandedKeepsDataHolds` | the action properties of the run `spaces` |

The argument.  `Membership` is inductive with the types: the rows that leave and
kick end are not the creator's, since the only active creator is row 1 and a
member does not kick itself.  `ContentKinds` lists the four steps that write
content; an unwipe shows everything because `TombstonesReversible` puts the stamp
of each hidden row in the log, and the steps that hide or delete look at `phase`
in their own transaction, which is what `DisbandedKeepsData` needs.  The type
invariant also says that a Space has a deadline exactly while it is disbanded;
it is proved here and not repeated in the run.

Every invariant and every action property of the passing runs is stated by a
theorem.  Only model-checked: the four liveness properties `QueueDrains`,
`CallsEnd`, `DisbandEnds` and `AllSettled`, since liveness under fairness, and
`ENABLED`, are beyond the prover; and what the theorems' hypotheses leave
out, where the runs that expect a violation and the constants given in
sections 3 to 9 show that the statements are false.

## 11. Not modelled

See `components` in PROJECT.json for every part.  Left out of `Claims` itself:
validation of malformed input, formatting of answers, metrics, the listing
tools (reads), the kill switch `TEAMEM_IDEMPOTENCY_RECOVERY=0`, and rows whose
stored JSON is malformed.  Left out of `Permission`: the focus event of a
grant and tombstoned requests.  Left out of `Disputes`: reject reasons and
`wait_seconds`, which no code acts on, the notices that events carry, and
tombstoned disputes; without a wipe the disputed claim cannot disappear, so the
errors of `applyAcceptOutcome` that leave the accepting move in the log
(`dispute-tools.ts:420`) do not occur.

A large part of the repository is left out because there is nothing in it to
check this way: `plugin/lib/*.js` are generated bundles of `src/` (about half of
the repository's lines of code), the bootstrapper, the command line and `setup`
are sequences of prompts and file operations on one machine, the web application
is a user interface apart from its repository, and `bridge/tool-bindings.ts` is a
table of schemas.  What remains to be modelled is in the plan.  Known hazards
there: a rebuilt projection differs from the live one, as rows the sweep deleted
come back and narrowed claims are released (`infra/projections/rebuild.ts`); the
retry path of `claim_scope` does not look
at `tombstoned_at` (`claim-tools.ts:340`).
