---------------------------- MODULE ControlPlane ----------------------------
(***************************************************************************)
(* Teamem Cloud: the web control plane keeps a row per Space in Postgres   *)
(* and drives the Space's runtime over HTTP.  No transaction spans the     *)
(* two.  Each web request of an account is a call: it reads the row, may   *)
(* mark it, sends one admin request, and writes the row from the answer.   *)
(* Calls interleave at every await; the runtime handles each request in a  *)
(* transaction of its own; either message may be lost, the caller may be   *)
(* gone when the request arrives, and nothing but a new call retries.      *)
(*                                                                         *)
(* Rows are selected by account or Space id, so one account is enough.     *)
(* Expiry and member limit change together; the model keeps the expiry.    *)
(***************************************************************************)
EXTENDS Integers, Sequences, FiniteSets

CONSTANTS
    Calls,      \* web and operator requests that may be in flight at once
    Trial,      \* trial_days of the free plan's policy
    MaxTime,    \* bound on the clock, and on the expiries an operator sets
    MaxCode,    \* bound on the room codes the runtime draws
    MaxSpaces,  \* bound on rows
    None        \* no call

ASSUME ControlPlaneAssumption ==
    /\ {Trial, MaxTime, MaxCode, MaxSpaces} \subseteq Nat \ {0}

VARIABLES
    cp,         \* cloud_spaces of the account, by insertion order
    granted,    \* the account has a free-plan grant that is not voided
    rt,         \* the runtime's rows for those Spaces, by insertion order
    rotations,  \* cloud_admin_room_code_rotations
    call,       \* calls in flight
    doubt,      \* an override was lost on its way, or met another one
    now

vars == <<cp, granted, rt, rotations, call, doubt, now>>

Statuses == {"pending", "active", "suspended", "delete_pending", "deleted"}
Expiry == 0..(MaxTime + Trial)
Row == [status : Statuses, trial : Expiry,
        runtime : 0..MaxSpaces,   \* runtime_space_id; 0 is NULL
        shown : 0..MaxCode]       \* code in room_code_display_metadata
RuntimeRow == [space : 1..MaxSpaces, trial : Expiry, suspended : BOOLEAN,
               phase : {"live", "disbanded", "gone"}, code : 1..MaxCode]
Rotation == [space : 1..MaxSpaces, key : 0..MaxCode, code : 1..MaxCode]

\* A call: what it read, what it sends, what was answered.  An orphan is a
\* request still on its way whose caller is gone.
Call == [op : {"provision", "rotate", "delete", "override", "dashboard"},
         pc : {"insert", "mark", "sent", "orphan", "answered"},
         space : 0..MaxSpaces, runtime : 0..MaxSpaces, trial : Expiry,
         shown : 0..MaxCode, alone : BOOLEAN]

(***************************************************************************)
(* Type invariant.                                                         *)
(***************************************************************************)
TypeOK ==
    /\ cp \in Seq(Row) /\ Len(cp) <= MaxSpaces
    /\ granted \in BOOLEAN
    /\ rt \in Seq(RuntimeRow) /\ Len(rt) <= MaxSpaces
    /\ rotations \in SUBSET Rotation
    /\ call \in [Calls -> Call \union {None}]
    /\ doubt \in BOOLEAN
    /\ now \in 0..MaxTime
    /\ \A i \in DOMAIN cp : cp[i].status = "pending" => cp[i].runtime = 0

Init ==
    /\ cp = <<>>
    /\ granted = FALSE
    /\ rt = <<>>
    /\ rotations = {}
    /\ call = [c \in Calls |-> None]
    /\ doubt = FALSE
    /\ now = 0

-----------------------------------------------------------------------------
(***************************************************************************)
(* The control plane's repository.                                         *)
(***************************************************************************)
ActiveFree(i) ==
    i \in DOMAIN cp /\ cp[i].status \in {"pending", "active", "delete_pending"}

\* findPrimarySpaceForAccount: not deleted, pending and active ones first.
PrimarySpace(i) ==
    /\ i \in DOMAIN cp
    /\ cp[i].status # "deleted"
    /\ cp[i].status \in {"suspended", "delete_pending"} =>
         \A j \in DOMAIN cp : cp[j].status \notin {"pending", "active"}

Idle(c) == call[c] = None
At(c, op, pc) == call[c] # None /\ call[c].op = op /\ call[c].pc = pc
Overriding(c) == call[c] # None /\ call[c].op = "override"
End(c) == call' = [call EXCEPT ![c] = None]
Goto(c, pc) == call' = [call EXCEPT ![c].pc = pc]
Begin(c, op, pc, i, trial) ==
    call' = [call EXCEPT ![c] =
        [op |-> op, pc |-> pc, space |-> i, trial |-> trial, alone |-> TRUE,
         runtime |-> IF i = 0 THEN 0 ELSE cp[i].runtime,
         shown |-> IF i = 0 THEN 0 ELSE cp[i].shown]]

\* provisionFreeCloudSpace: a pending Space without runtime is sent again.
RetryProvision(c) ==
    /\ Idle(c)
    /\ \E i \in DOMAIN cp :
        /\ cp[i].status = "pending"
        /\ cp[i].runtime = 0
        /\ Begin(c, "provision", "sent", i, cp[i].trial)
    /\ UNCHANGED <<cp, granted, rt, rotations, doubt, now>>

StartProvision(c) ==
    /\ Idle(c)
    /\ ~\E i \in DOMAIN cp : ActiveFree(i)
    /\ ~granted
    /\ Begin(c, "provision", "insert", 0, now + Trial)
    /\ UNCHANGED <<cp, granted, rt, rotations, doubt, now>>

\* The unique indexes decide, whatever the call read: at most one grant and
\* one active free Space of an account.
NoConflictUnchecked == TRUE   \* mutant: no unique indexes
NoConflict == ~granted /\ ~\E i \in DOMAIN cp : ActiveFree(i)

CreateFreeCloudSpaceGrant(c) ==
    /\ At(c, "provision", "insert")
    /\ Len(cp) < MaxSpaces
    /\ NoConflict
    /\ cp' = Append(cp, [status |-> "pending", trial |-> call[c].trial,
                         runtime |-> 0, shown |-> 0])
    /\ granted' = TRUE
    /\ call' = [call EXCEPT ![c].pc = "sent", ![c].space = Len(cp) + 1]
    /\ UNCHANGED <<rt, rotations, doubt, now>>

ProvisionedKept(s) == IF s = "suspended" THEN "pending" ELSE "active"   \* mutant
ProvisionedStatus(s) == "active"

MarkCloudSpaceProvisioned(c) ==
    /\ At(c, "provision", "answered")
    /\ cp' = [cp EXCEPT ![call[c].space].status = ProvisionedStatus(@),
                        ![call[c].space].runtime = call[c].runtime,
                        ![call[c].space].shown = call[c].shown]
    /\ End(c)
    /\ UNCHANGED <<granted, rt, rotations, doubt, now>>

\* rotateCloudRoomCodeForOwner: the idempotency key names the code it read.
StartRotate(c) ==
    /\ Idle(c)
    /\ \E i \in DOMAIN cp :
        /\ PrimarySpace(i)
        /\ cp[i].status = "active"
        /\ cp[i].runtime # 0
        /\ Begin(c, "rotate", "sent", i, 0)
    /\ UNCHANGED <<cp, granted, rt, rotations, doubt, now>>

UpdateRoomCodeDisplay(c) ==
    /\ At(c, "rotate", "answered")
    /\ cp' = [cp EXCEPT ![call[c].space].shown = call[c].shown]
    /\ End(c)
    /\ UNCHANGED <<granted, rt, rotations, doubt, now>>

\* deleteCloudSpaceForOwner
DeletableAny(i) == PrimarySpace(i)   \* mutant: runtime_details_missing dropped
Deletable(i) == PrimarySpace(i) /\ cp[i].runtime # 0

StartDelete(c) ==
    /\ Idle(c)
    /\ \E i \in DOMAIN cp : Deletable(i) /\ Begin(c, "delete", "mark", i, 0)
    /\ UNCHANGED <<cp, granted, rt, rotations, doubt, now>>

MayMarkAny(i) == i \in DOMAIN cp   \* mutant: WHERE status <> 'deleted' dropped
MayMark(i) == i \in DOMAIN cp /\ cp[i].status # "deleted"

MarkCloudSpaceDeletePending(c) ==
    /\ At(c, "delete", "mark")
    /\ MayMark(call[c].space)
    /\ cp' = [cp EXCEPT ![call[c].space].status = "delete_pending"]
    /\ Goto(c, "sent")
    /\ UNCHANGED <<granted, rt, rotations, doubt, now>>

ConfirmedEarly(c) == At(c, "delete", "sent") \/ At(c, "delete", "answered")   \* mutant
Confirmed(c) == At(c, "delete", "answered")

MarkCloudSpaceDeleted(c) ==
    /\ Confirmed(c)
    /\ cp' = [cp EXCEPT ![call[c].space].status = "deleted"]
    /\ End(c)
    /\ UNCHANGED <<granted, rt, rotations, doubt, now>>

\* overrideFreeCloudSpacePolicyForOperator: the runtime first, then the row.
StartOverride(c, t) ==
    /\ Idle(c)
    /\ \E i \in DOMAIN cp :
        /\ cp[i].status # "deleted"
        /\ cp[i].runtime # 0
        /\ call' = [d \in Calls |->
             IF d = c
             THEN [op |-> "override", pc |-> "sent", space |-> i, trial |-> t,
                   runtime |-> cp[i].runtime, shown |-> 0,
                   alone |-> ~\E e \in Calls : Overriding(e)]
             ELSE IF Overriding(d) THEN [call[d] EXCEPT !.alone = FALSE]
             ELSE call[d]]
    /\ doubt' = TRUE
    /\ UNCHANGED <<cp, granted, rt, rotations, now>>

Unsuspended(s, t) == IF s = "suspended" /\ t > now THEN "active" ELSE s

AppliedEarly(c) == At(c, "override", "sent") \/ At(c, "override", "answered")   \* mutant
Applied(c) == At(c, "override", "answered")

UpdateResolvedPolicy(c) ==
    /\ Applied(c)
    /\ cp' = [cp EXCEPT ![call[c].space].trial = call[c].trial,
                        ![call[c].space].status = Unsuspended(@, call[c].trial)]
    /\ doubt' = ~call[c].alone
    /\ End(c)
    /\ UNCHANGED <<granted, rt, rotations, now>>

\* getCloudDashboardState suspends a Space whose trial it read as expired;
\* the UPDATE looks at the status only.
StartDashboard(c) ==
    /\ Idle(c)
    /\ \E i \in DOMAIN cp :
        /\ PrimarySpace(i)
        /\ cp[i].status \in {"pending", "active"}
        /\ cp[i].trial <= now
        /\ Begin(c, "dashboard", "mark", i, 0)
    /\ UNCHANGED <<cp, granted, rt, rotations, doubt, now>>

MarkExpiredSuspended(c) ==
    /\ At(c, "dashboard", "mark")
    /\ cp' = [cp EXCEPT ![call[c].space].status =
                 IF @ \in {"pending", "active"} THEN "suspended" ELSE @]
    /\ End(c)
    /\ UNCHANGED <<granted, rt, rotations, doubt, now>>

-----------------------------------------------------------------------------
(***************************************************************************)
(* The runtime's cloud-admin routes, each one transaction.                 *)
(***************************************************************************)
Arrived(c, op) == At(c, op, "sent") \/ At(c, op, "orphan")
Stored(k) == k \in DOMAIN rt /\ rt[k].phase # "gone"

\* The answer reaches a caller that is still there.
AnswerWith(c, runtime, shown) ==
    call' = [call EXCEPT ![c] =
        IF @.pc = "orphan" THEN None
        ELSE [@ EXCEPT !.pc = "answered", !.runtime = runtime, !.shown = shown]]

\* An error status ends the call, with an audit event and nothing else.
Created(i) == {k \in DOMAIN rt : Stored(k) /\ rt[k].space = i}

CreateCloudAdminSpace(c) ==
    /\ Arrived(c, "provision")
    /\ Created(call[c].space) = {}
    /\ Len(rt) < MaxSpaces
    /\ rt' = Append(rt, [space |-> call[c].space, trial |-> call[c].trial,
                         suspended |-> FALSE, phase |-> "live", code |-> 1])
    /\ AnswerWith(c, Len(rt) + 1, 1)
    /\ UNCHANGED <<cp, granted, rotations, doubt, now>>

CreateAgain(c) ==
    /\ Arrived(c, "provision")
    /\ \E k \in Created(call[c].space) :
        IF rt[k].trial = call[c].trial
        THEN AnswerWith(c, k, rt[k].code)
        ELSE End(c)   \* idempotency_conflict
    /\ UNCHANGED <<cp, granted, rt, rotations, doubt, now>>

\* applyCloudFreeTrialSuspensionIfExpired
Expired(k) == rt[k].suspended \/ (rt[k].phase = "live" /\ rt[k].trial <= now)

KeyOnce(c) == [space |-> call[c].space, key |-> 0]   \* mutant: key without the code
KeyOf(c) == [space |-> call[c].space, key |-> call[c].shown]
RecordedFor(c) ==
    {r \in rotations : r.space = KeyOf(c).space /\ r.key = KeyOf(c).key}

RotateCloudAdminRoomCode(c) ==
    LET k == call[c].runtime
        new == rt[k].code + 1
    IN /\ Arrived(c, "rotate")
       /\ RecordedFor(c) = {}
       /\ Stored(k) /\ rt[k].phase = "live" /\ ~Expired(k)
       /\ new <= MaxCode
       /\ rt' = [rt EXCEPT ![k].code = new]
       /\ rotations' = rotations \union
            {[space |-> KeyOf(c).space, key |-> KeyOf(c).key, code |-> new]}
       /\ AnswerWith(c, k, new)
       /\ UNCHANGED <<cp, granted, doubt, now>>

RotateAgain(c) ==
    /\ Arrived(c, "rotate")
    /\ \E r \in RecordedFor(c) : AnswerWith(c, call[c].runtime, r.code)
    /\ UNCHANGED <<cp, granted, rt, rotations, doubt, now>>

RotateSuspended(c) ==
    LET k == call[c].runtime
    IN /\ Arrived(c, "rotate")
       /\ RecordedFor(c) = {}
       /\ Stored(k) /\ rt[k].phase = "live" /\ Expired(k)
       /\ rt' = [rt EXCEPT ![k].suspended = TRUE]
       /\ End(c)
       /\ UNCHANGED <<cp, granted, rotations, doubt, now>>

\* A repeated request is answered as the first was.
SoftDeleteCloudAdminSpace(c) ==
    LET k == call[c].runtime
    IN /\ Arrived(c, "delete")
       /\ Stored(k)
       /\ rt' = [rt EXCEPT ![k].phase = "disbanded"]
       /\ AnswerWith(c, k, call[c].shown)
       /\ UNCHANGED <<cp, granted, rotations, doubt, now>>

UpdateRuntimePolicy(c) ==
    LET k == call[c].runtime
        t == call[c].trial
    IN /\ Arrived(c, "override")
       /\ Stored(k)
       /\ rt' = [rt EXCEPT ![k].trial = t,
                           ![k].suspended =
                    IF t > now THEN FALSE ELSE @ \/ rt[k].phase = "live"]
       /\ AnswerWith(c, k, call[c].shown)
       /\ UNCHANGED <<cp, granted, rotations, doubt, now>>

\* Any member's request, a join or a status request of an expired Space.
SuspendExpired(k) ==
    /\ k \in DOMAIN rt
    /\ ~rt[k].suspended /\ Expired(k)
    /\ rt' = [rt EXCEPT ![k].suspended = TRUE]
    /\ UNCHANGED <<cp, granted, rotations, call, doubt, now>>

\* gcDisbandedSpaces, a grace period later; nobody holds a token that could
\* restore the Space.  Assumption: no call is in flight for seven days.
Collect(k) ==
    /\ k \in DOMAIN rt
    /\ rt[k].phase = "disbanded"
    /\ \A c \in Calls : Idle(c)
    /\ rt' = [rt EXCEPT ![k].phase = "gone"]
    /\ rotations' = {r \in rotations : r.space # rt[k].space}
    /\ UNCHANGED <<cp, granted, call, doubt, now>>

-----------------------------------------------------------------------------
(***************************************************************************)
(* Failures.  Any error, of the repository, the network or the runtime,    *)
(* ends the call; so does a crash of the web process.                      *)
(***************************************************************************)
Fail(c) ==
    /\ ~Idle(c)
    /\ End(c)
    /\ UNCHANGED <<cp, granted, rt, rotations, doubt, now>>

\* The caller is gone and the request is not.
Abandon(c) ==
    /\ ~Idle(c) /\ call[c].pc = "sent"
    /\ Goto(c, "orphan")
    /\ UNCHANGED <<cp, granted, rt, rotations, doubt, now>>

Tick ==
    /\ now < MaxTime
    /\ now' = now + 1
    /\ UNCHANGED <<cp, granted, rt, rotations, call, doubt>>

Web(c) ==
    \/ RetryProvision(c) \/ StartProvision(c) \/ CreateFreeCloudSpaceGrant(c)
    \/ MarkCloudSpaceProvisioned(c)
    \/ StartRotate(c) \/ UpdateRoomCodeDisplay(c)
    \/ StartDelete(c) \/ MarkCloudSpaceDeletePending(c) \/ MarkCloudSpaceDeleted(c)
    \/ \E t \in 0..MaxTime : StartOverride(c, t)
    \/ UpdateResolvedPolicy(c)
    \/ StartDashboard(c) \/ MarkExpiredSuspended(c)
    \/ Fail(c) \/ Abandon(c)

Runtime(c) ==
    \/ CreateCloudAdminSpace(c) \/ CreateAgain(c)
    \/ RotateCloudAdminRoomCode(c) \/ RotateAgain(c) \/ RotateSuspended(c)
    \/ SoftDeleteCloudAdminSpace(c) \/ UpdateRuntimePolicy(c)

Next ==
    \/ \E c \in Calls : Web(c) \/ Runtime(c)
    \/ \E k \in DOMAIN rt : SuspendExpired(k) \/ Collect(k)
    \/ Tick

Spec == Init /\ [][Next]_vars

-----------------------------------------------------------------------------
(***************************************************************************)
(* Properties.                                                             *)
(***************************************************************************)

\* docs/deploy/teamem-cloud.md:122: one free trial Space per account, and the
\* runtime keeps one Space for it, however creates are doubled, retried and
\* lost.
OneSpace ==
    /\ Len(cp) <= 1
    /\ \A k, l \in DOMAIN rt : rt[k].space = rt[l].space => k = l

\* A row that is past provisioning names the runtime Space made for it: no
\* order of late answers, suspensions and deletes loses the link.
NamesItsRuntime ==
    \A i \in DOMAIN cp :
        cp[i].status \in {"active", "delete_pending", "deleted"} =>
            /\ cp[i].runtime \in DOMAIN rt
            /\ rt[cp[i].runtime].space = i

\* The control plane never calls a Space deleted whose runtime Space still
\* admits members.
DeletedIsDisbanded ==
    \A i \in DOMAIN cp :
        cp[i].status = "deleted" =>
            \A k \in DOMAIN rt : rt[k].space = i => rt[k].phase # "live"

\* The displayed code may be old (a late answer overwrites a newer one), but
\* then its rotation is recorded: rotating again replays it, and draws no
\* code, until the display has caught up.
DisplayCatchesUp ==
    \A i \in DOMAIN cp : \A k \in DOMAIN rt :
        /\ cp[i].shown # 0 /\ rt[k].space = i /\ rt[k].phase # "gone"
        /\ cp[i].shown # rt[k].code
        => \E r \in rotations :
             r.space = i /\ r.key = cp[i].shown
             /\ cp[i].shown < r.code /\ r.code <= rt[k].code

\* After an override that ended well and met no other, both sides hold the
\* policy it set.
PolicyAgrees ==
    ~doubt => \A i \in DOMAIN cp :
        cp[i].runtime # 0 /\ Stored(cp[i].runtime)
          => rt[cp[i].runtime].trial = cp[i].trial

\* A deleted Space comes back by a late answer to a create only: neither a
\* suspension nor an override nor a second delete reopens it.
DeletedStays ==
    [][\A i \in DOMAIN cp :
         /\ cp[i].status = "deleted"
         /\ ~\E c \in Calls : At(c, "provision", "answered")
         => cp'[i].status = "deleted"]_vars
=============================================================================
