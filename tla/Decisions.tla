------------------------------ MODULE Decisions ------------------------------
(***************************************************************************)
(* Decisions of the teams on one server: members publish, amend, supersede *)
(* and record decisions, plans among them, in the Sprint they are in or in *)
(* the whole Space.  Each call appends lifecycle events, projects them to  *)
(* the decisions table and leaves a notice for every other member, in one  *)
(* transaction.  Notices are handed out by three different calls.          *)
(*                                                                         *)
(* record_decision reads the current row before its transaction; with one  *)
(* server process nothing runs in between.                                 *)
(***************************************************************************)
EXTENDS Integers, Sequences, FiniteSets

CONSTANTS
    Spaces,
    Members,     \* active members, of all Spaces
    Home,        \* the Space of each
    Sprints,     \* active Sprints
    Team,        \* the context outside every Sprint: sprint_id IS NULL
    Ids,         \* decision ids, chosen by the callers
    MaxEvents,   \* bound on decision events
    OneServer,   \* one server process on the database
    None

ASSUME DecisionsAssumption ==
    /\ Home \in [Members -> Spaces]
    /\ Team \notin Sprints
    /\ MaxEvents \in Nat
    /\ OneServer \in BOOLEAN

VARIABLES
    log,     \* decision events, by decision and in order (also decision_history)
    rows,    \* the decisions table
    at,      \* readCurrentSprintId of each member
    unread,  \* unread_notifications rows with delivered_at NULL
    told,    \* events of others that were answered to a member
    record   \* record_decision calls between their read and their transaction

vars == <<log, rows, at, unread, told, record>>

Kinds == {"plan", "other"}
Scopes == {"current", "space"}
Contexts == Sprints \union {Team}
Event == [what : {"published", "amended", "superseded"}, space : Spaces,
          context : Contexts, kind : Kinds, version : Nat, author : Members]
Row == [space : Spaces, context : Contexts, kind : Kinds, open : BOOLEAN,
        version : Nat]
Record == [id : Ids, scope : Scopes, row : Row \union {None}]

ASSUME NoneAssumption == None \notin Row \union Record

\* An event is named by its decision and its place in that decision's log.
Events == UNION {{id} \X DOMAIN log[id] : id \in Ids}
EventOf(e) == log[e[1]][e[2]]

(***************************************************************************)
(* Type invariant.                                                         *)
(***************************************************************************)
TypeOK ==
    /\ log \in [Ids -> Seq(Event)]
    /\ rows \in [Ids -> Row \union {None}]
    /\ at \in [Members -> Contexts]
    /\ unread \union told \subseteq Members \X Events
    /\ record \in [Members -> Record \union {None}]

Init ==
    /\ log = [id \in Ids |-> <<>>]
    /\ rows = [id \in Ids |-> None]
    /\ at = [m \in Members |-> Team]
    /\ unread = {}
    /\ told = {}
    /\ record = [m \in Members |-> None]

-----------------------------------------------------------------------------
Ready == OneServer => \A m \in Members : record[m] = None
Target(m, scope) == IF scope = "space" THEN Team ELSE at[m]

\* readCurrentDecision, without and with a context.
Exists(id, s) == rows[id] # None /\ rows[id].space = s
Current(id, s, ctx) == Exists(id, s) /\ rows[id].context = ctx
OpenIn(id, s, ctx) == Current(id, s, ctx) /\ rows[id].open

\* applyProjectionUpdate: INSERT ... ON CONFLICT(decision_id) DO UPDATE sets
\* every column but space_id, and decision_id alone is the primary key.
Projected(e, row) ==
    [space |-> IF row = None THEN e.space ELSE row.space,
     context |-> e.context, kind |-> e.kind,
     open |-> e.what # "superseded", version |-> e.version]

Recipients(e) == {m \in Members : Home[m] = e.space /\ m # e.author}

\* appendDecisionEventInTx for the events new of one transaction, each about
\* a decision of its own.
Append1(new) ==
    /\ Cardinality(Events) + Cardinality(DOMAIN new) <= MaxEvents
    /\ log' = [id \in Ids |->
         IF id \in DOMAIN new THEN Append(log[id], new[id]) ELSE log[id]]
    /\ rows' = [id \in Ids |->
         IF id \in DOMAIN new THEN Projected(new[id], rows[id]) ELSE rows[id]]
    /\ unread' = unread \union UNION
         {Recipients(new[id]) \X {<<id, Len(log[id]) + 1>>} : id \in DOMAIN new}

NewEvent(m, what, scope, kind, version) ==
    [what |-> what, space |-> Home[m], context |-> Target(m, scope),
     kind |-> kind, version |-> version, author |-> m]

Superseding(m, scope, id) ==
    NewEvent(m, "superseded", scope, rows[id].kind, rows[id].version + 1)

\* What a new decision supersedes: the one it names, and all open plans of
\* its context if it is a plan.
ReplacedNamed(id, s, ctx, kind, old) == {old} \ {None}   \* mutant
Replaced(id, s, ctx, kind, old) ==
    ({old} \ {None}) \union
    {p \in Ids \ {id} : kind = "plan" /\ OpenIn(p, s, ctx) /\ rows[p].kind = "plan"}

Publish(m, id, scope, kind, old) ==
    LET gone == Replaced(id, Home[m], Target(m, scope), kind, old)
    IN Append1([d \in gone \union {id} |->
           IF d = id THEN NewEvent(m, "published", scope, kind, 1)
           ELSE Superseding(m, scope, d)])

PublishDecision(m, id, scope, kind, old) ==
    /\ Ready
    /\ ~Exists(id, Home[m])
    /\ old # None => OpenIn(old, Home[m], Target(m, scope))
    /\ Publish(m, id, scope, kind, old)
    /\ UNCHANGED <<at, told, record>>

AmendableAny(id, s, ctx) == Current(id, s, ctx)   \* mutant: superseded ones too
Amendable(id, s, ctx) == OpenIn(id, s, ctx)

AmendDecision(m, id, scope, kind) ==
    /\ Ready
    /\ Amendable(id, Home[m], Target(m, scope))
    /\ Append1([d \in {id} |->
           NewEvent(m, "amended", scope, kind, rows[id].version + 1)])
    /\ UNCHANGED <<at, told, record>>

SupersedeDecision(m, id, scope) ==
    /\ Ready
    /\ OpenIn(id, Home[m], Target(m, scope))
    /\ Append1([d \in {id} |-> Superseding(m, scope, id)])
    /\ UNCHANGED <<at, told, record>>

\* recordDecision: publishes what does not exist and amends what does, by the
\* row it read.  The kind of an amended decision may become "plan".
ReadForRecord(m, id, scope) ==
    /\ Ready
    /\ record[m] = None
    /\ Exists(id, Home[m]) => OpenIn(id, Home[m], Target(m, scope))
    /\ record' = [record EXCEPT ![m] =
         [id |-> id, scope |-> scope,
          row |-> IF Exists(id, Home[m]) THEN rows[id] ELSE None]]
    /\ UNCHANGED <<log, rows, at, unread, told>>

RecordDecision(m, kind) ==
    /\ record[m] # None
    /\ LET call == record[m]
       IN IF call.row = None
          THEN Publish(m, call.id, call.scope, kind, None)
          ELSE Append1([d \in {call.id} |->
                   NewEvent(m, "amended", call.scope, kind, call.row.version + 1)])
    /\ record' = [record EXCEPT ![m] = None]
    /\ UNCHANGED <<at, told>>

\* The transaction fails or the process stops; the call has done nothing.
RecordFails(m) ==
    /\ record[m] # None
    /\ record' = [record EXCEPT ![m] = None]
    /\ UNCHANGED <<log, rows, at, unread, told>>

\* join_sprint and leave_sprint.
Move(m, ctx) ==
    /\ Ready
    /\ at[m] # ctx
    /\ at' = [at EXCEPT ![m] = ctx]
    /\ UNCHANGED <<log, rows, unread, told, record>>

-----------------------------------------------------------------------------
(***************************************************************************)
(* Delivery.                                                               *)
(***************************************************************************)
Handed(notices) ==
    /\ told' = told \union notices
    /\ UNCHANGED <<log, rows, at, record>>

NoticesOf(m) == {n \in unread : n[1] = m}

AnswerHere(m) ==   \* mutant: marks all, answers those of the member's context
    {n \in NoticesOf(m) : EventOf(n[2]).context = at[m]}
Answer(m) == NoticesOf(m)

\* session_sync and fetch_unread_notifications hand out all that is unread.
TakeNotices(m) ==
    /\ Ready
    /\ NoticesOf(m) # {}
    /\ unread' = unread \ NoticesOf(m)
    /\ Handed(Answer(m))

\* get_updates answers a page of the events visible to the member now, and
\* markDecisionNotificationsDelivered marks the notices of that page.  A page
\* is taken here as one call per event, which leads to the same states.
VisibleTo(m) ==
    {e \in Events : m \in Recipients(EventOf(e)) /\ EventOf(e).context = at[m]}

GetUpdates(m) ==
    /\ Ready
    /\ \E e \in VisibleTo(m) :
        /\ unread' = unread \ {<<m, e>>}
        /\ Handed({<<m, e>>})

Next ==
    \E m \in Members :
        \/ \E id \in Ids, scope \in Scopes, kind \in Kinds :
            \/ \E old \in Ids \union {None} : PublishDecision(m, id, scope, kind, old)
            \/ AmendDecision(m, id, scope, kind)
        \/ \E id \in Ids, scope \in Scopes :
            \/ SupersedeDecision(m, id, scope)
            \/ ReadForRecord(m, id, scope)
        \/ \E kind \in Kinds : RecordDecision(m, kind)
        \/ RecordFails(m)
        \/ \E ctx \in Contexts : Move(m, ctx)
        \/ TakeNotices(m) \/ GetUpdates(m)

Spec == Init /\ [][Next]_vars

-----------------------------------------------------------------------------
(***************************************************************************)
(* Properties.  The first two hold of one Space on one server process.     *)
(***************************************************************************)

\* A decision's history is one line: published once, versions without gap or
\* repetition, nothing after it was superseded; and the decisions table
\* shows its last event.
OrderlyHistory ==
    \A id \in Ids :
        /\ \A k \in DOMAIN log[id] :
            /\ log[id][k].version = k
            /\ log[id][k].what = "published" <=> k = 1
            /\ log[id][k].what = "superseded" => k = Len(log[id])
        /\ IF log[id] = <<>> THEN rows[id] = None
           ELSE rows[id] = Projected(log[id][Len(log[id])], None)

\* publish_decision and record_decision (decision-tools.ts:99 and 311): a plan
\* supersedes the open plans of its own context, that is of its Sprint, or of
\* those outside any Sprint.  So no two open decisions of one context have been
\* plans since they were published.  Plans of two contexts stay open beside each
\* other, and an amendment may make a plan of another decision.
AlwaysPlan(id) == \A k \in DOMAIN log[id] : log[id][k].kind = "plan"

PlansAreExclusive ==
    \A i, j \in Ids :
        /\ rows[i] # None /\ rows[i].open /\ AlwaysPlan(i)
        /\ rows[j] # None /\ rows[j].open /\ AlwaysPlan(j)
        /\ rows[i].space = rows[j].space /\ rows[i].context = rows[j].context
        => i = j

\* Whatever calls hand notices out, in whatever order, and whatever Sprints
\* the members move through: a member who was not answered an event of
\* another member still has its notice.
EveryoneTold ==
    \A e \in Events : \A m \in Recipients(EventOf(e)) :
        <<m, e>> \in unread \union told

\* CONTEXT.md:92: members of different Spaces are completely isolated: the
\* last event of a row comes from its own Space.
RowsStayHome ==
    \A id \in Ids : rows[id] # None =>
        log[id][Len(log[id])].space = rows[id].space
=============================================================================
