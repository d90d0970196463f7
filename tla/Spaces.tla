------------------------------- MODULE Spaces -------------------------------
(***************************************************************************)
(* The life of one Space on a self-hosted server: members come and go,     *)
(* the creator wipes and unwipes its content, disbands it, restores it     *)
(* within the grace period, and the hourly sweep collects it after.        *)
(* Every statement of server/spaces.ts selects by one Space id, so Spaces  *)
(* do not interact and one is enough.                                      *)
(*                                                                         *)
(* A request takes two steps: the auth middleware reads the Space and the  *)
(* member row, and the handler runs after an await (request body, wrapped  *)
(* middleware) in which other handlers run.                                *)
(***************************************************************************)
EXTENDS Integers, Sequences, FiniteSets

CONSTANTS
    Creator,     \* name of the member who creates the Space
    Joiners,     \* names others may join under
    Clients,     \* kinds of client process: "bridge", "channel"
    Requests,    \* requests that may be in flight at once
    Grace,       \* DISBAND_GRACE_SECONDS
    MaxTime,     \* bound on the clock
    MaxRows,     \* bound on content rows
    MaxMembers,  \* bound on member rows
    None         \* SQL NULL

ASSUME SpacesAssumption ==
    /\ {Grace, MaxTime, MaxRows, MaxMembers} \subseteq Nat \ {0}
    /\ Clients \subseteq {"bridge", "channel"}
    /\ None \notin Int

VARIABLES
    phase,    \* the spaces row: absent, live, disbanded, deleted for good
    grace,    \* disbanded_grace_until
    members,  \* rows of members, by insertion order
    code,     \* the Space has a row in room_codes that has not expired
    rows,     \* tombstoned_at of the projection rows, by insertion order
    wipes,    \* timestamps of the space_wiped events
    req,      \* requests between the middleware and their handler
    key,      \* the creator's entry in credentials.json exists
    running,  \* the creator's client processes, each with the JWT in memory
    now

space == <<phase, grace>>
content == <<rows, wipes>>
client == <<key, running>>
vars == <<phase, grace, members, code, rows, wipes, req, key, running, now>>

Time == 0..MaxTime
Names == Joiners \union {Creator}
Ops == {"leave", "kick", "disband", "wipe", "unwipe", "rotate", "write"}
CreatorOps == Ops \ {"leave", "write"}   \* behind createRequireCreatorMiddleware

MemberRow == [name : Names, creator : BOOLEAN, active : BOOLEAN]
Request == [op : Ops, by : 1..MaxMembers, at : Time]

(***************************************************************************)
(* Type invariant.                                                         *)
(***************************************************************************)
TypeOK ==
    /\ phase \in {"absent", "live", "disbanded", "gone"}
    /\ grace \in (0..(MaxTime + Grace)) \union {None}
    /\ members \in Seq(MemberRow)
    /\ Len(members) <= MaxMembers
    /\ code \in BOOLEAN
    /\ rows \in Seq(Time \union {None})
    /\ wipes \in SUBSET Time
    /\ req \in [Requests -> Request \union {None}]
    /\ key \in BOOLEAN
    /\ running \in SUBSET Clients
    /\ now \in Time
    /\ phase = "disbanded" <=> grace # None

Init ==
    /\ phase = "absent"
    /\ grace = None
    /\ members = <<>>
    /\ code = FALSE
    /\ rows = <<>>
    /\ wipes = {}
    /\ req = [r \in Requests |-> None]
    /\ key = FALSE
    /\ running = {}
    /\ now = 0

-----------------------------------------------------------------------------
Active(i) == i \in DOMAIN members /\ members[i].active
ActiveCreator(i) == Active(i) /\ members[i].creator
NameTaken(n) == \E i \in DOMAIN members : members[i].name = n /\ members[i].active

\* POST /spaces; setup stores the credential.
CreateSpace ==
    /\ phase = "absent"
    /\ phase' = "live"
    /\ members' = <<[name |-> Creator, creator |-> TRUE, active |-> TRUE]>>
    /\ code' = TRUE
    /\ key' = TRUE
    /\ UNCHANGED <<grace, rows, wipes, req, running, now>>

\* POST /spaces/join: one immediate transaction, no authentication but the code.
JoinSpace(n) ==
    /\ phase = "live"
    /\ code
    /\ ~NameTaken(n)
    /\ Len(members) < MaxMembers
    /\ members' = Append(members, [name |-> n, creator |-> FALSE, active |-> TRUE])
    /\ UNCHANGED <<space, code, content, req, client, now>>

\* The auth middleware admits a request of a live Space's member.  A request
\* of the creator needs a token: in the file, or in a process that read it.
Authenticate(r, i, op) ==
    /\ req[r] = None
    /\ phase = "live"
    /\ Active(i)
    /\ op \in CreatorOps => members[i].creator
    /\ members[i].creator => key \/ running # {}
    /\ req' = [req EXCEPT ![r] = [op |-> op, by |-> i, at |-> now]]
    /\ UNCHANGED <<space, members, code, content, client, now>>

Pending(r, op) == req[r] # None /\ req[r].op = op
Answer(r) == req' = [req EXCEPT ![r] = None]
EndMembership(i) == members' = [members EXCEPT ![i].active = FALSE]

MayLeaveAnybody(i) == Active(i)   \* mutant: creator_must_disband dropped
MayLeave(i) == Active(i) /\ ~members[i].creator

LeaveSpace(r) ==
    /\ Pending(r, "leave")
    /\ MayLeave(req[r].by)
    /\ EndMembership(req[r].by)
    /\ Answer(r)
    /\ UNCHANGED <<space, code, content, client, now>>

MayKick(by, i) ==
    /\ ActiveCreator(by)
    /\ i # by

\* The body names the member; active names are unique, so it names a row.
KickMember(r) ==
    /\ Pending(r, "kick")
    /\ \E i \in DOMAIN members :
        /\ Active(i)
        /\ MayKick(req[r].by, i)
        /\ EndMembership(i)
    /\ Answer(r)
    /\ UNCHANGED <<space, code, content, client, now>>

\* The update is a no-op on a Space that is disbanded already.
MayDisbandAgain == phase \in {"live", "disbanded"}   \* mutant: the no-op dropped
MayDisband == phase = "live"

DisbandSpace(r) ==
    /\ Pending(r, "disband")
    /\ ActiveCreator(req[r].by)
    /\ MayDisband
    /\ now + Grace <= MaxTime   \* bound: the grace period ends in the model
    /\ phase' = "disbanded"
    /\ grace' = now + Grace
    /\ Answer(r)
    /\ UNCHANGED <<members, code, content, client, now>>

\* wipe and unwipe read disbanded_at again in their transaction.
MayWipeAdmitted(by) == ActiveCreator(by)   \* mutant: trusts the middleware
MayWipe(by) == ActiveCreator(by) /\ phase = "live"

SoftWipe(r) ==
    /\ Pending(r, "wipe")
    /\ MayWipe(req[r].by)
    /\ rows' = [i \in DOMAIN rows |-> IF rows[i] = None THEN now ELSE rows[i]]
    /\ wipes' = wipes \union {now}
    /\ Answer(r)
    /\ UNCHANGED <<space, members, code, client, now>>

HardWipedVisible ==   \* mutant: deletes what a soft wipe would hide
    SelectSeq(rows, LAMBDA t : t # None)
HardWiped == <<>>

\* Events, projection rows and the room code go; spaces and members stay.
HardWipe(r) ==
    /\ Pending(r, "wipe")
    /\ MayWipe(req[r].by)
    /\ rows' = HardWiped
    /\ wipes' = {}
    /\ code' = FALSE
    /\ Answer(r)
    /\ UNCHANGED <<space, members, client, now>>

\* The tombstones that unwipe clears: the stamps of any wipe in the log.
ReversibleLast(t) ==   \* mutant: the last wipe only
    t \in wipes /\ \A w \in wipes : w <= t
Reversible(t) == t \in wipes

Unwipe(r) ==
    /\ Pending(r, "unwipe")
    /\ MayWipe(req[r].by)
    /\ \E i \in DOMAIN rows : Reversible(rows[i])
    /\ rows' = [i \in DOMAIN rows |-> IF Reversible(rows[i]) THEN None ELSE rows[i]]
    /\ Answer(r)
    /\ UNCHANGED <<space, members, code, wipes, client, now>>

\* rotateRoomCode reads the member row only, never whether the Space is live.
RotateRoomCode(r) ==
    /\ Pending(r, "rotate")
    /\ Active(req[r].by)
    /\ code' = TRUE
    /\ Answer(r)
    /\ UNCHANGED <<space, members, content, client, now>>

\* ROOM_CODE_TTL_SECONDS (30 days) pass: an expired code admits nobody, as
\* no code does.
ExpireCode ==
    /\ code
    /\ code' = FALSE
    /\ UNCHANGED <<space, members, content, req, client, now>>

\* Any tool that inserts a projection row; the tools read no disbanded_at.
WriteRow(r) ==
    /\ Pending(r, "write")
    /\ Len(rows) < MaxRows
    /\ rows' = Append(rows, None)
    /\ Answer(r)
    /\ UNCHANGED <<space, members, code, wipes, client, now>>

\* An error answer, an update that changes no row, or a request that is lost
\* with its connection or its server process.
Refuse(r) ==
    /\ req[r] # None
    /\ Answer(r)
    /\ UNCHANGED <<space, members, code, content, client, now>>

Restored == phase' = "live" /\ grace' = None

\* POST /spaces/restore passes by the middleware.  The creator needs the
\* token, from the file (CLI) or in the memory of a bridge that still runs.
RestoreSpace ==
    /\ phase = "disbanded"
    /\ now < grace
    /\ key \/ "bridge" \in running
    /\ Restored
    /\ UNCHANGED <<members, code, content, req, client, now>>

\* gcDisbandedSpaces.  The sweep selects and then reads again in the Space's
\* transaction with the same condition, which nothing can end: restore needs
\* the opposite one.  So the two are one step.
CollectableAfter == phase = "disbanded" /\ grace < now   \* mutant: off by one
Collectable == phase = "disbanded" /\ grace <= now

GcDisbandedSpaces ==
    /\ Collectable
    /\ phase' = "gone"
    /\ grace' = None
    /\ members' = <<>>
    /\ code' = FALSE
    /\ rows' = <<>>
    /\ wipes' = {}
    /\ UNCHANGED <<req, client, now>>

-----------------------------------------------------------------------------
(***************************************************************************)
(* The creator's clients.  Each reads the token from credentials.json when *)
(* it starts.  Any 410 makes createHttpClient remove the entry from the    *)
(* file; the bridge then exits, the channel logs and polls again.          *)
(***************************************************************************)
StartClient(k) ==
    /\ key
    /\ k \notin running
    /\ running' = running \union {k}
    /\ UNCHANGED <<space, members, code, content, req, key, now>>

StopClient(k) ==
    /\ k \in running
    /\ running' = running \ {k}
    /\ UNCHANGED <<space, members, code, content, req, key, now>>

CallGone(k) ==
    /\ k \in running
    /\ phase = "disbanded"
    /\ key' = FALSE
    /\ running' = running \ ({k} \intersect {"bridge"})
    /\ UNCHANGED <<space, members, code, content, req, now>>

\* Assumption: a request takes less than a grace period (seven days).
Tick ==
    /\ now < MaxTime
    /\ \A r \in Requests : req[r] # None => now < req[r].at + Grace - 1
    /\ now' = now + 1
    /\ UNCHANGED <<space, members, code, content, req, client>>

Handle(r) ==
    \/ LeaveSpace(r) \/ KickMember(r) \/ DisbandSpace(r)
    \/ SoftWipe(r) \/ HardWipe(r) \/ Unwipe(r)
    \/ RotateRoomCode(r) \/ WriteRow(r) \/ Refuse(r)

Next ==
    \/ CreateSpace
    \/ \E n \in Joiners : JoinSpace(n)
    \/ \E r \in Requests :
        \/ \E i \in DOMAIN members, op \in Ops : Authenticate(r, i, op)
        \/ Handle(r)
    \/ ExpireCode
    \/ RestoreSpace
    \/ GcDisbandedSpaces
    \/ \E k \in Clients : StartClient(k) \/ StopClient(k) \/ CallGone(k)
    \/ Tick

Spec == Init /\ [][Next]_vars

(***************************************************************************)
(* Fairness: time passes, the sweep is an interval timer of the server,    *)
(* and no request stays in flight for ever (its client gives up at last).  *)
(***************************************************************************)
FairSpec ==
    /\ Spec
    /\ WF_vars(Tick)
    /\ WF_vars(GcDisbandedSpaces)
    /\ WF_vars(\E r \in Requests : Refuse(r))

-----------------------------------------------------------------------------
(***************************************************************************)
(* Properties.                                                             *)
(***************************************************************************)

\* A Space that exists has exactly one creator among its active members, the
\* first row, however leave, kick and rejoin requests interleave; and no two
\* active members share a name (the name is what a token carries).
Membership ==
    phase \in {"live", "disbanded"} =>
        /\ {i \in DOMAIN members : ActiveCreator(i)} = {1}
        /\ \A i, j \in DOMAIN members :
              /\ members[i].active /\ members[j].active
              /\ members[i].name = members[j].name
              => i = j

\* Every hidden row can be brought back: its stamp is that of a wipe which is
\* still in the log, also after a hard wipe or several soft ones (unwipeSpace
\* finds what to clear by these stamps only).
TombstonesReversible ==
    \A i \in DOMAIN rows : rows[i] = None \/ rows[i] \in wipes

\* An unwipe that shows anything shows everything: no row stays behind from
\* an earlier wipe.
UnwipeShowsAll ==
    [][(\E i \in DOMAIN rows \intersect DOMAIN rows' :
            rows[i] # None /\ rows'[i] = None)
         => \A i \in DOMAIN rows' : rows'[i] = None]_vars

\* While a Space stays disbanded the end of its grace period stands, whatever
\* requests the middleware admitted before are handled now.
GraceStands ==
    [][phase = "disbanded" /\ phase' = "disbanded" => grace' = grace]_vars

\* Until it is collected, a disbanded Space keeps every row as it was: a
\* wipe admitted before the disband does not hide or delete what a restore
\* is to bring back.
DisbandedKeepsData ==
    [][phase = "disbanded" /\ phase' # "gone" =>
         /\ Len(rows') >= Len(rows)
         /\ \A i \in DOMAIN rows : rows'[i] = rows[i]]_vars

\* A disbanded Space does not stay so: at every instant either the creator
\* can restore it or the sweep takes it.
DisbandEnds == phase = "disbanded" ~> phase \in {"live", "gone"}

\* cli/space.ts:172-174 and docs: the creator's credential is kept through
\* the grace period, as the only key that can restore the Space.
CreatorKeepsKey == phase = "disbanded" /\ now < grace => key
=============================================================================
