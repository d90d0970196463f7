--------------------------- MODULE DecisionsProofs ---------------------------
(***************************************************************************)
(* Theorems about Decisions for any Spaces, members, Sprints and ids.      *)
(* Every step either appends a batch of events (Append1) or leaves log and *)
(* rows alone; the lemmas say what each call puts into its batch.          *)
(***************************************************************************)
EXTENDS Decisions, TLAPS

\* A batch of events as the calls make them: each about its decision.
Batch(new) == DOMAIN new \subseteq Ids /\ \A id \in DOMAIN new : new[id] \in Event

\* What a batch leaves: types, and every event and notice there was before.
LEMMA BatchKeeps ==
    ASSUME TypeOK, NEW new, Batch(new), Append1(new)
    PROVE  /\ log' \in [Ids -> Seq(Event)]
           /\ rows' \in [Ids -> Row \union {None}]
           /\ Events \subseteq Events'
           /\ \A e \in Events : EventOf(e)' = EventOf(e)
           /\ unread \subseteq unread'
           /\ unread' \subseteq Members \X Events'
           /\ \A e \in Events' \ Events :
                Recipients(EventOf(e)') \X {e} \subseteq unread'
<1> USE DecisionsAssumption
<1>1. log' \in [Ids -> Seq(Event)]
  BY DEF TypeOK, Batch, Append1
<1>2. rows' \in [Ids -> Row \union {None}]
  <2>1. ASSUME NEW id \in DOMAIN new
        PROVE  Projected(new[id], rows[id]) \in Row
    BY <2>1 DEF TypeOK, Batch, Projected, Row, Event
  <2> QED BY <2>1 DEF TypeOK, Batch, Append1
<1>3. Events \subseteq Events' /\ \A e \in Events : EventOf(e)' = EventOf(e)
  BY <1>1 DEF TypeOK, Batch, Append1, Events, EventOf
<1>4. unread \subseteq unread'
  BY DEF Append1
<1>5. ASSUME NEW id \in DOMAIN new
      PROVE  <<id, Len(log[id]) + 1>> \in Events'
  BY <1>1 DEF TypeOK, Batch, Append1, Events
<1>6. unread' \subseteq Members \X Events'
  <2>1. unread \subseteq Members \X Events'
    BY <1>3 DEF TypeOK
  <2>2. ASSUME NEW id \in DOMAIN new
        PROVE  Recipients(new[id]) \X {<<id, Len(log[id]) + 1>>} \subseteq Members \X Events'
    BY <1>5 DEF Recipients
  <2> QED BY <2>1, <2>2 DEF Append1
<1>7. ASSUME NEW e \in Events' \ Events
      PROVE  Recipients(EventOf(e)') \X {e} \subseteq unread'
  <2>0. PICK id \in Ids : e \in {id} \X DOMAIN log'[id]
    BY DEF Events
  <2>1. PICK k \in DOMAIN log'[id] : e = <<id, k>>
    BY <2>0
  <2>2. k \notin DOMAIN log[id]
    BY <1>7, <2>1 DEF Events
  <2>3. id \in DOMAIN new /\ k = Len(log[id]) + 1 /\ log'[id][k] = new[id]
    BY <1>1, <2>1, <2>2 DEF TypeOK, Append1
  <2>4. EventOf(e)' = new[id]
    BY <2>1, <2>3 DEF EventOf
  <2>5. Recipients(EventOf(e)') = Recipients(new[id])
    BY <2>4
  <2> QED BY <2>1, <2>3, <2>5 DEF Append1
<1> QED BY <1>1, <1>2, <1>3, <1>4, <1>6, <1>7

-----------------------------------------------------------------------------
\* A step of the module: a batch, or nothing in the log.
Untouched == UNCHANGED <<log, rows>>

\* The batch of a new decision.
Published(m, id, scope, kind, old) ==
    [d \in Replaced(id, Home[m], Target(m, scope), kind, old) \union {id} |->
        IF d = id THEN NewEvent(m, "published", scope, kind, 1)
        ELSE Superseding(m, scope, d)]

Amended(m, id, scope, kind, version) ==
    [d \in {id} |-> NewEvent(m, "amended", scope, kind, version)]

Superseded(m, id, scope) == [d \in {id} |-> Superseding(m, scope, id)]

LEMMA NewEventType ==
    ASSUME TypeOK, NEW m \in Members, NEW scope \in Scopes, NEW kind \in Kinds,
           NEW v \in Nat, NEW what \in {"published", "amended", "superseded"}
    PROVE  NewEvent(m, what, scope, kind, v) \in Event
BY DecisionsAssumption DEF TypeOK, NewEvent, Event, Target, Contexts

LEMMA SupersedingType ==
    ASSUME TypeOK, NEW m \in Members, NEW scope \in Scopes,
           NEW id \in Ids, rows[id] # None
    PROVE  Superseding(m, scope, id) \in Event
<1>1. rows[id] \in Row BY DEF TypeOK
<1>2. rows[id].kind \in Kinds /\ rows[id].version + 1 \in Nat BY <1>1 DEF Row
<1> QED BY <1>2, NewEventType DEF Superseding

LEMMA ReplacedOpen ==
    ASSUME TypeOK, NEW m \in Members, NEW id \in Ids, NEW scope \in Scopes,
           NEW kind \in Kinds, NEW old \in Ids \union {None},
           old # None => OpenIn(old, Home[m], Target(m, scope)),
           NEW d \in Replaced(id, Home[m], Target(m, scope), kind, old)
    PROVE  d \in Ids /\ OpenIn(d, Home[m], Target(m, scope))
BY DEF Replaced

LEMMA PublishedBatch ==
    ASSUME TypeOK, NEW m \in Members, NEW id \in Ids, NEW scope \in Scopes,
           NEW kind \in Kinds, NEW old \in Ids \union {None},
           old # None => OpenIn(old, Home[m], Target(m, scope))
    PROVE  Batch(Published(m, id, scope, kind, old))
<1> DEFINE new == Published(m, id, scope, kind, old)
<1>1. DOMAIN new \subseteq Ids
  BY ReplacedOpen DEF Published
<1>2. ASSUME NEW d \in DOMAIN new PROVE new[d] \in Event
  <2>1. CASE d = id
    <3>1. new[d] = NewEvent(m, "published", scope, kind, 1) BY <2>1 DEF Published
    <3> QED BY <3>1, NewEventType
  <2>2. CASE d # id
    <3>1. new[d] = Superseding(m, scope, d) BY <2>2 DEF Published
    <3>2. d \in Ids /\ rows[d] # None
      BY <2>2, ReplacedOpen DEF Published, OpenIn, Current, Exists
    <3> QED BY <3>1, <3>2, SupersedingType
  <2> QED BY <2>1, <2>2
<1> QED BY <1>1, <1>2 DEF Batch

LEMMA AmendedBatch ==
    ASSUME TypeOK, NEW m \in Members, NEW id \in Ids, NEW scope \in Scopes,
           NEW kind \in Kinds, NEW v \in Nat
    PROVE  Batch(Amended(m, id, scope, kind, v))
BY NewEventType DEF Amended, Batch

LEMMA SupersededBatch ==
    ASSUME TypeOK, NEW m \in Members, NEW id \in Ids, NEW scope \in Scopes,
           rows[id] # None
    PROVE  Batch(Superseded(m, id, scope))
BY SupersedingType DEF Superseded, Batch

-----------------------------------------------------------------------------
\* Every step of the module is one of these.
Appends(new) == Batch(new) /\ Append1(new) /\ UNCHANGED <<at, told>>
Records == Untouched /\ record' \in [Members -> Record \union {None}]
                     /\ UNCHANGED <<at, unread, told>>
Moves == Untouched /\ at' \in [Members -> Contexts] /\ UNCHANGED <<unread, told, record>>
Delivers ==
    /\ Untouched
    /\ unread' \subseteq unread
    /\ told \subseteq told'
    /\ told' \subseteq Members \X Events
    /\ unread \subseteq unread' \union told'
    /\ UNCHANGED <<at, record>>

LEMMA PublishStep ==
    ASSUME TypeOK, NEW m \in Members, NEW id \in Ids, NEW scope \in Scopes,
           NEW kind \in Kinds, NEW old \in Ids \union {None},
           PublishDecision(m, id, scope, kind, old)
    PROVE  /\ Appends(Published(m, id, scope, kind, old))
           /\ UNCHANGED record
<1>1. Batch(Published(m, id, scope, kind, old))
  BY PublishedBatch DEF PublishDecision
<1> QED BY <1>1 DEF PublishDecision, Publish, Published, Appends

LEMMA AmendStep ==
    ASSUME TypeOK, NEW m \in Members, NEW id \in Ids, NEW scope \in Scopes,
           NEW kind \in Kinds, AmendDecision(m, id, scope, kind)
    PROVE  /\ Appends(Amended(m, id, scope, kind, rows[id].version + 1))
           /\ UNCHANGED record
<1>1. rows[id] \in Row
  BY DEF TypeOK, AmendDecision, Amendable, OpenIn, Current, Exists
<1>2. rows[id].version + 1 \in Nat
  BY <1>1 DEF Row
<1>3. Batch(Amended(m, id, scope, kind, rows[id].version + 1))
  BY <1>2, AmendedBatch
<1> QED BY <1>3 DEF AmendDecision, Amended, Appends

LEMMA SupersedeStep ==
    ASSUME TypeOK, NEW m \in Members, NEW id \in Ids, NEW scope \in Scopes,
           SupersedeDecision(m, id, scope)
    PROVE  Appends(Superseded(m, id, scope)) /\ UNCHANGED record
<1>1. Batch(Superseded(m, id, scope))
  BY SupersededBatch DEF SupersedeDecision, OpenIn, Current, Exists
<1> QED BY <1>1 DEF SupersedeDecision, Superseded, Appends

\* A record_decision call publishes or amends, by the row it read.
LEMMA RecordStep ==
    ASSUME TypeOK, NEW m \in Members, NEW kind \in Kinds, RecordDecision(m, kind)
    PROVE  /\ record[m] \in Record
           /\ record' = [record EXCEPT ![m] = None]
           /\ \/ /\ record[m].row = None
                 /\ Appends(Published(m, record[m].id, record[m].scope, kind, None))
              \/ /\ record[m].row \in Row
                 /\ Appends(Amended(m, record[m].id, record[m].scope, kind,
                                    record[m].row.version + 1))
<1>1. record[m] \in Record
  BY DEF TypeOK, RecordDecision
<1> DEFINE call == record[m]
<1>2. call.id \in Ids /\ call.scope \in Scopes /\ call.row \in Row \union {None}
  BY <1>1 DEF Record
<1>3. CASE call.row = None
  <2>1. Batch(Published(m, call.id, call.scope, kind, None))
    BY <1>2, PublishedBatch
  <2> QED BY <1>1, <1>3, <2>1 DEF RecordDecision, Publish, Published, Appends
<1>4. CASE call.row # None
  <2>1. call.row \in Row /\ call.row.version + 1 \in Nat
    BY <1>2, <1>4 DEF Row
  <2>2. Batch(Amended(m, call.id, call.scope, kind, call.row.version + 1))
    BY <1>2, <2>1, AmendedBatch
  <2> QED BY <1>1, <1>4, <2>1, <2>2 DEF RecordDecision, Amended, Appends
<1> QED BY <1>3, <1>4

LEMMA ReadStep ==
    ASSUME TypeOK, NEW m \in Members, NEW id \in Ids, NEW scope \in Scopes,
           ReadForRecord(m, id, scope)
    PROVE  Records
<1>1. [id |-> id, scope |-> scope,
       row |-> IF Exists(id, Home[m]) THEN rows[id] ELSE None] \in Record
  BY DEF TypeOK, Record
<1> QED BY <1>1 DEF ReadForRecord, Records, Untouched, TypeOK

LEMMA RecordFailsStep ==
    ASSUME TypeOK, NEW m \in Members, RecordFails(m)
    PROVE  Records
BY DEF RecordFails, Records, Untouched, TypeOK

LEMMA MoveStep ==
    ASSUME TypeOK, NEW m \in Members, NEW ctx \in Contexts, Move(m, ctx)
    PROVE  Moves
BY DEF Move, Moves, Untouched, TypeOK

LEMMA TakeNoticesStep ==
    ASSUME TypeOK, NEW m \in Members, TakeNotices(m)
    PROVE  Delivers
BY DEF TakeNotices, NoticesOf, Answer, Handed, Delivers, Untouched, TypeOK

LEMMA GetUpdatesStep ==
    ASSUME TypeOK, NEW m \in Members, GetUpdates(m)
    PROVE  Delivers
BY DEF GetUpdates, VisibleTo, Handed, Delivers, Untouched, TypeOK

LEMMA EveryStep ==
    ASSUME TypeOK, Next
    PROVE  \/ \E new : Appends(new) /\ record' \in [Members -> Record \union {None}]
           \/ Records
           \/ Moves
           \/ Delivers
<1> SUFFICES ASSUME NEW m \in Members,
        \/ \E id \in Ids, scope \in Scopes, kind \in Kinds :
            \/ \E old \in Ids \union {None} : PublishDecision(m, id, scope, kind, old)
            \/ AmendDecision(m, id, scope, kind)
        \/ \E id \in Ids, scope \in Scopes :
            \/ SupersedeDecision(m, id, scope)
            \/ ReadForRecord(m, id, scope)
        \/ \E kind \in Kinds : RecordDecision(m, kind)
        \/ RecordFails(m)
        \/ \E ctx \in Contexts : Move(m, ctx)
        \/ TakeNotices(m) \/ GetUpdates(m)
    PROVE  \/ \E new : Appends(new) /\ record' \in [Members -> Record \union {None}]
           \/ Records
           \/ Moves
           \/ Delivers
  BY DEF Next
<1>0. record \in [Members -> Record \union {None}]
  BY DEF TypeOK
<1>1. ASSUME NEW id \in Ids, NEW scope \in Scopes, NEW kind \in Kinds,
             NEW old \in Ids \union {None}, PublishDecision(m, id, scope, kind, old)
      PROVE  \E new : Appends(new) /\ record' \in [Members -> Record \union {None}]
  BY <1>0, <1>1, PublishStep
<1>2. ASSUME NEW id \in Ids, NEW scope \in Scopes, NEW kind \in Kinds,
             AmendDecision(m, id, scope, kind)
      PROVE  \E new : Appends(new) /\ record' \in [Members -> Record \union {None}]
  BY <1>0, <1>2, AmendStep
<1>3. ASSUME NEW id \in Ids, NEW scope \in Scopes, SupersedeDecision(m, id, scope)
      PROVE  \E new : Appends(new) /\ record' \in [Members -> Record \union {None}]
  BY <1>0, <1>3, SupersedeStep
<1>4. ASSUME NEW kind \in Kinds, RecordDecision(m, kind)
      PROVE  \E new : Appends(new) /\ record' \in [Members -> Record \union {None}]
  <2>1. record' \in [Members -> Record \union {None}]
    BY <1>0, <1>4, RecordStep
  <2> QED BY <1>4, <2>1, RecordStep
<1>5. ASSUME NEW id \in Ids, NEW scope \in Scopes, ReadForRecord(m, id, scope)
      PROVE  Records
  BY <1>5, ReadStep
<1> QED BY <1>1, <1>2, <1>3, <1>4, <1>5, RecordFailsStep, MoveStep,
           TakeNoticesStep, GetUpdatesStep

-----------------------------------------------------------------------------
LEMMA TypeStep == TypeOK /\ [Next]_vars => TypeOK'
<1> SUFFICES ASSUME TypeOK, [Next]_vars PROVE TypeOK'
  OBVIOUS
<1>1. ASSUME NEW new, Appends(new), record' \in [Members -> Record \union {None}]
      PROVE  TypeOK'
  <2>1. /\ log' \in [Ids -> Seq(Event)]
        /\ rows' \in [Ids -> Row \union {None}]
        /\ Events \subseteq Events'
        /\ unread' \subseteq Members \X Events'
    BY <1>1, BatchKeeps DEF Appends
  <2>2. told' \subseteq Members \X Events'
    BY <1>1, <2>1 DEF Appends, TypeOK
  <2>3. at' \in [Members -> Contexts]
    BY <1>1 DEF Appends, TypeOK
  <2> QED BY <1>1, <2>1, <2>2, <2>3 DEF TypeOK
<1>2. ASSUME Untouched PROVE Events' = Events
  BY <1>2 DEF Untouched, Events
<1>3. CASE Records
  BY <1>2, <1>3 DEF Records, Untouched, TypeOK
<1>4. CASE Moves
  BY <1>2, <1>4 DEF Moves, Untouched, TypeOK
<1>5. CASE Delivers
  <2>1. unread' \union told' \subseteq Members \X Events'
    BY <1>2, <1>5 DEF Delivers, TypeOK
  <2> QED BY <1>5, <2>1 DEF Delivers, Untouched, TypeOK
<1>6. CASE UNCHANGED vars
  <2>1. Events' = Events
    BY <1>2, <1>6 DEF Untouched, vars
  <2> QED BY <1>6, <2>1 DEF vars, TypeOK
<1> QED BY <1>1, <1>3, <1>4, <1>5, <1>6, EveryStep

\* The tables keep their types, and every notice names an event that exists.
THEOREM DecisionsTypeCorrect == Spec => []TypeOK
<1>1. Init => TypeOK
  BY DecisionsAssumption DEF Init, TypeOK, Events, Contexts
<1> QED BY <1>1, TypeStep, PTL DEF Spec

-----------------------------------------------------------------------------
LEMMA ToldStep == TypeOK /\ EveryoneTold /\ [Next]_vars => EveryoneTold'
<1> SUFFICES ASSUME TypeOK, EveryoneTold, [Next]_vars,
                    NEW e \in Events', NEW m \in Recipients(EventOf(e)')
             PROVE  <<m, e>> \in unread' \union told'
  BY DEF EveryoneTold, Recipients
<1>1. ASSUME NEW new, Appends(new)
      PROVE  <<m, e>> \in unread' \union told'
  <2>1. CASE e \in Events
    <3>1. EventOf(e)' = EventOf(e) /\ unread \subseteq unread'
      BY <1>1, <2>1, BatchKeeps DEF Appends
    <3>2. <<m, e>> \in unread \union told
      BY <2>1, <3>1 DEF EveryoneTold
    <3> QED BY <1>1, <3>1, <3>2 DEF Appends
  <2>2. CASE e \notin Events
    <3>1. Recipients(EventOf(e)') \X {e} \subseteq unread'
      BY <1>1, <2>2, BatchKeeps DEF Appends
    <3> QED BY <3>1
  <2> QED BY <2>1, <2>2
<1>2. ASSUME Untouched
      PROVE  <<m, e>> \in unread \union told
  BY <1>2 DEF Untouched, EveryoneTold, Events, EventOf, Recipients
<1>3. CASE Records
  BY <1>2, <1>3 DEF Records
<1>4. CASE Moves
  BY <1>2, <1>4 DEF Moves
<1>5. CASE Delivers
  BY <1>2, <1>5 DEF Delivers
<1>6. CASE UNCHANGED vars
  BY <1>2, <1>6 DEF vars, Untouched
<1> QED BY <1>1, <1>3, <1>4, <1>5, <1>6, EveryStep

\* However many members, calls and Sprints: whoever was not answered an event
\* of another member still has its notice.
THEOREM EveryoneToldHolds == Spec => []EveryoneTold
<1>1. Init => EveryoneTold
  BY DEF Init, EveryoneTold, Events
<1> QED BY <1>1, ToldStep, DecisionsTypeCorrect, PTL DEF Spec

-----------------------------------------------------------------------------
(***************************************************************************)
(* One Space on one server process: orderly histories, exclusive plans.    *)
(***************************************************************************)
OneSpace == \A m, n \in Members : Home[m] = Home[n]

\* Every event is of the members' Space.
AtHome == \A id \in Ids, m \in Members :
    \A k \in DOMAIN log[id] : log[id][k].space = Home[m]

\* While a record_decision call is between its read and its transaction, no
\* other call runs, and the row it read is the row there is.
Waits == \A m \in Members : record[m] # None =>
    /\ \A n \in Members : record[n] # None => n = m
    /\ record[m].row = rows[record[m].id]
    /\ record[m].row # None =>
         OpenIn(record[m].id, Home[m], Target(m, record[m].scope))

\* A batch as the calls make it in one Space: a decision that does not exist is
\* published, one that does is open and is amended in its context or superseded,
\* and a plan that is published supersedes the open plans of its context.
Continues(new) == \A id \in DOMAIN new :
    /\ \A m \in Members : new[id].space = Home[m]
    /\ rows[id] = None => new[id].what = "published" /\ new[id].version = 1
    /\ rows[id] # None =>
         /\ rows[id].open
         /\ new[id].what \in {"amended", "superseded"}
         /\ new[id].version = rows[id].version + 1
         /\ new[id].context = rows[id].context
    /\ new[id].what = "published" =>
         /\ \A d \in DOMAIN new \ {id} : new[d].what = "superseded"
         /\ new[id].kind = "plan" =>
              \A p \in Ids \ {id} :
                /\ rows[p] # None /\ rows[p].open /\ rows[p].kind = "plan"
                /\ rows[p].context = new[id].context
                => p \in DOMAIN new

\* A row is that of the Space, so a decision of it exists for every member.
LEMMA RowsAtHome ==
    ASSUME TypeOK, OrderlyHistory, AtHome, NEW m \in Members,
           NEW id \in Ids, rows[id] # None
    PROVE  rows[id].space = Home[m] /\ Exists(id, Home[m])
<1>1. log[id] # <<>> /\ log[id] \in Seq(Event)
  BY DEF TypeOK, OrderlyHistory
<1>2. Len(log[id]) \in DOMAIN log[id]
  BY <1>1
<1>3. rows[id] = Projected(log[id][Len(log[id])], None)
  BY <1>1 DEF OrderlyHistory
<1> QED BY <1>2, <1>3 DEF Projected, AtHome, Exists

\* What a step appends to a decision in its batch.
LEMMA BatchAppends ==
    ASSUME TypeOK, NEW new, Appends(new), NEW id \in Ids
    PROVE  /\ id \in DOMAIN new =>
                /\ Len(log'[id]) = Len(log[id]) + 1
                /\ DOMAIN log'[id] = DOMAIN log[id] \union {Len(log[id]) + 1}
                /\ log'[id][Len(log[id]) + 1] = new[id]
                /\ \A k \in DOMAIN log[id] : log'[id][k] = log[id][k]
                /\ log'[id] # <<>>
                /\ rows'[id] = Projected(new[id], rows[id])
                /\ new[id] \in Event
           /\ id \notin DOMAIN new => log'[id] = log[id] /\ rows'[id] = rows[id]
           /\ log[id] \in Seq(Event) /\ Len(log[id]) \in Nat
           /\ DOMAIN log[id] = 1 .. Len(log[id])
<1>1. log[id] \in Seq(Event)
  BY DEF TypeOK
<1>2. ASSUME id \in DOMAIN new
      PROVE  log'[id] = Append(log[id], new[id]) /\ new[id] \in Event
             /\ rows'[id] = Projected(new[id], rows[id])
  BY <1>2 DEF Appends, Append1, Batch
<1>3. id \notin DOMAIN new => log'[id] = log[id] /\ rows'[id] = rows[id]
  BY DEF Appends, Append1
<1> QED BY <1>1, <1>2, <1>3

LEMMA ProjectedOpen ==
    ASSUME NEW e \in Event, NEW r \in Row \union {None}
    PROVE  /\ Projected(e, r) \in Row /\ Projected(e, r) # None
           /\ Projected(e, r).context = e.context
           /\ Projected(e, r).kind = e.kind
           /\ Projected(e, r).open = (e.what # "superseded")
           /\ Projected(e, r).version = e.version
<1>1. Projected(e, r) \in Row
  BY DEF Projected, Row, Event
<1> QED BY <1>1, NoneAssumption DEF Projected

\* An open row ends a history in which nothing was superseded.
LEMMA OpenHistory ==
    ASSUME TypeOK, OrderlyHistory, NEW id \in Ids, rows[id] # None
    PROVE  /\ log[id] # <<>> /\ Len(log[id]) \in Nat /\ Len(log[id]) > 0
           /\ DOMAIN log[id] = 1 .. Len(log[id])
           /\ rows[id].version = Len(log[id])
           /\ rows[id].kind = log[id][Len(log[id])].kind
           /\ rows[id].context = log[id][Len(log[id])].context
           /\ rows[id].open =>
                \A k \in DOMAIN log[id] : log[id][k].what # "superseded"
<1>1. log[id] # <<>> /\ log[id] \in Seq(Event)
  BY DEF TypeOK, OrderlyHistory
<1>2. /\ Len(log[id]) \in Nat /\ Len(log[id]) > 0
      /\ DOMAIN log[id] = 1 .. Len(log[id]) /\ Len(log[id]) \in DOMAIN log[id]
      /\ log[id][Len(log[id])] \in Event
  BY <1>1
<1>3. rows[id] = Projected(log[id][Len(log[id])], None)
  BY <1>1 DEF OrderlyHistory
<1>4. log[id][Len(log[id])].version = Len(log[id])
  BY <1>2 DEF OrderlyHistory
<1>5. rows[id].open => log[id][Len(log[id])].what # "superseded"
  BY <1>2, <1>3, ProjectedOpen
<1>6. \A k \in DOMAIN log[id] : log[id][k].what = "superseded" => k = Len(log[id])
  BY DEF OrderlyHistory
<1> QED BY <1>1, <1>2, <1>3, <1>4, <1>5, <1>6, ProjectedOpen

LEMMA OrderlyAppend ==
    ASSUME TypeOK, OrderlyHistory, AtHome, NEW new, Appends(new), Continues(new)
    PROVE  OrderlyHistory' /\ AtHome'
<1>1. ASSUME NEW id \in Ids, id \in DOMAIN new
      PROVE  /\ \A k \in DOMAIN log'[id] :
                  /\ log'[id][k].version = k
                  /\ log'[id][k].what = "published" <=> k = 1
                  /\ log'[id][k].what = "superseded" => k = Len(log'[id])
             /\ log'[id] # <<>>
             /\ rows'[id] = Projected(log'[id][Len(log'[id])], None)
             /\ \A m \in Members : \A k \in DOMAIN log'[id] : log'[id][k].space = Home[m]
  <2> DEFINE last == Len(log[id]) + 1
  <2>1. /\ Len(log'[id]) = last
        /\ DOMAIN log'[id] = DOMAIN log[id] \union {last}
        /\ log'[id][last] = new[id]
        /\ \A k \in DOMAIN log[id] : log'[id][k] = log[id][k]
        /\ log'[id] # <<>> /\ rows'[id] = Projected(new[id], rows[id])
        /\ new[id] \in Event
        /\ DOMAIN log[id] = 1 .. Len(log[id]) /\ Len(log[id]) \in Nat
    BY <1>1, BatchAppends
  <2>2. \A m \in Members : new[id].space = Home[m]
    BY <1>1 DEF Continues
  <2>3. \A k \in DOMAIN log[id] :
          /\ log[id][k].version = k /\ (log[id][k].what = "published" <=> k = 1)
          /\ \A m \in Members : log[id][k].space = Home[m]
    BY DEF OrderlyHistory, AtHome
  <2>4. /\ new[id].version = last
        /\ new[id].what = "published" <=> last = 1
        /\ \A k \in DOMAIN log[id] : log[id][k].what # "superseded"
    <3>1. CASE rows[id] = None
      <4>1. log[id] = <<>>
        <5>1. SUFFICES ASSUME log[id] # <<>>
                       PROVE  FALSE
          OBVIOUS
        <5>2. log[id][Len(log[id])] \in Event
          BY <5>1 DEF TypeOK
        <5>3. rows[id] = Projected(log[id][Len(log[id])], None)
          BY <5>1 DEF OrderlyHistory
        <5> QED BY <3>1, <5>2, <5>3, ProjectedOpen
      <4>2. new[id].what = "published" /\ new[id].version = 1
        BY <1>1, <3>1 DEF Continues
      <4> QED BY <2>1, <4>1, <4>2
    <3>2. CASE rows[id] # None
      <4>1. /\ rows[id].open /\ new[id].what # "published"
            /\ new[id].version = rows[id].version + 1
        BY <1>1, <3>2 DEF Continues
      <4> QED BY <2>1, <3>2, <4>1, OpenHistory
    <3> QED BY <3>1, <3>2
  <2>5. Projected(new[id], rows[id]) = Projected(new[id], None)
    <3>1. rows[id] # None => rows[id].space = new[id].space
      <4>1. new[id].author \in Members
        BY <2>1 DEF Event
      <4> QED BY <2>2, <4>1, RowsAtHome
    <3> QED BY <3>1 DEF Projected
  <2> HIDE DEF last
  <2>6. \A k \in DOMAIN log'[id] :
          /\ log'[id][k].version = k
          /\ log'[id][k].what = "published" <=> k = 1
          /\ log'[id][k].what = "superseded" => k = last
    BY <2>1, <2>3, <2>4
  <2>7. \A m \in Members : \A k \in DOMAIN log'[id] : log'[id][k].space = Home[m]
    BY <2>1, <2>2, <2>3
  <2> QED BY <2>1, <2>5, <2>6, <2>7
<1>2. ASSUME NEW id \in Ids, id \notin DOMAIN new
      PROVE  log'[id] = log[id] /\ rows'[id] = rows[id]
  BY <1>2, BatchAppends
<1>3. OrderlyHistory'
  <2> SUFFICES ASSUME NEW id \in Ids
      PROVE  /\ \A k \in DOMAIN log'[id] :
                  /\ log'[id][k].version = k
                  /\ log'[id][k].what = "published" <=> k = 1
                  /\ log'[id][k].what = "superseded" => k = Len(log'[id])
             /\ IF log'[id] = <<>> THEN rows'[id] = None
                ELSE rows'[id] = Projected(log'[id][Len(log'[id])], None)
    BY DEF OrderlyHistory, Projected
  <2>1. CASE id \in DOMAIN new
    BY <1>1, <2>1
  <2>2. CASE id \notin DOMAIN new
    BY <1>2, <2>2 DEF OrderlyHistory
  <2> QED BY <2>1, <2>2
<1>4. AtHome'
  BY <1>1, <1>2 DEF AtHome
<1> QED BY <1>3, <1>4

LEMMA ExclusiveAppend ==
    ASSUME TypeOK, OrderlyHistory, AtHome, PlansAreExclusive,
           NEW new, Appends(new), Continues(new)
    PROVE  PlansAreExclusive'
<1> SUFFICES ASSUME NEW i \in Ids, NEW j \in Ids,
                    rows'[i] # None, rows'[i].open, AlwaysPlan(i)',
                    rows'[j] # None, rows'[j].open, AlwaysPlan(j)',
                    rows'[i].context = rows'[j].context
             PROVE  i = j
  BY DEF PlansAreExclusive
<1>1. ASSUME NEW id \in Ids, rows'[id] # None, rows'[id].open, AlwaysPlan(id)',
             rows[id] # None
      PROVE  /\ rows[id].open /\ rows[id].kind = "plan" /\ AlwaysPlan(id)
             /\ rows[id].context = rows'[id].context
             /\ id \in DOMAIN new => new[id].what # "superseded"
  <2>1. AlwaysPlan(id)
    BY <1>1, BatchAppends DEF AlwaysPlan
  <2>2. rows[id].kind = "plan"
    BY <1>1, <2>1, OpenHistory DEF AlwaysPlan
  <2>3. CASE id \in DOMAIN new
    <3>1. /\ rows'[id] = Projected(new[id], rows[id]) /\ new[id] \in Event
          /\ rows[id] \in Row \union {None}
      BY <2>3, BatchAppends DEF TypeOK
    <3>2. rows[id].open /\ new[id].context = rows[id].context
      BY <1>1, <2>3 DEF Continues
    <3>3. /\ rows'[id].context = new[id].context
          /\ rows'[id].open = (new[id].what # "superseded")
      BY <3>1, ProjectedOpen
    <3>4. new[id].what # "superseded"
      BY <1>1, <3>3
    <3> QED BY <2>1, <2>2, <3>2, <3>3, <3>4
  <2>4. CASE id \notin DOMAIN new
    BY <1>1, <2>1, <2>2, <2>4, BatchAppends
  <2> QED BY <2>3, <2>4
<1>2. ASSUME NEW id \in Ids, rows'[id] # None, AlwaysPlan(id)', rows[id] = None
      PROVE  /\ id \in DOMAIN new /\ new[id].what = "published"
             /\ new[id].kind = "plan" /\ new[id].context = rows'[id].context
  <2>1. id \in DOMAIN new
    BY <1>2, BatchAppends
  <2>2. /\ rows'[id] = Projected(new[id], rows[id]) /\ new[id] \in Event
        /\ rows[id] \in Row \union {None}
    BY <2>1, BatchAppends DEF TypeOK
  <2>3. new[id].kind = "plan"
    BY <1>2, <2>1, BatchAppends DEF AlwaysPlan
  <2> QED BY <1>2, <2>1, <2>2, <2>3, ProjectedOpen DEF Continues
\* A plan that is published is the only one left open in its context.
<1>3. ASSUME NEW a \in Ids, NEW b \in Ids, rows[a] = None, a # b,
             rows'[a] # None, AlwaysPlan(a)',
             rows'[b] # None, rows'[b].open, AlwaysPlan(b)',
             rows'[a].context = rows'[b].context
      PROVE  FALSE
  <2>1. /\ a \in DOMAIN new /\ new[a].what = "published"
        /\ new[a].kind = "plan" /\ new[a].context = rows'[a].context
    BY <1>2, <1>3
  <2>2. \A d \in DOMAIN new \ {a} : new[d].what = "superseded"
    BY <2>1 DEF Continues
  <2>3. CASE rows[b] = None
    BY <1>2, <1>3, <2>2, <2>3
  <2>4. CASE rows[b] # None
    <3>1. /\ rows[b].open /\ rows[b].kind = "plan"
          /\ rows[b].context = rows'[b].context
          /\ b \in DOMAIN new => new[b].what # "superseded"
      BY <1>1, <1>3, <2>4
    <3>2. b \in DOMAIN new
      BY <1>3, <2>1, <2>4, <3>1 DEF Continues
    <3> QED BY <1>3, <2>2, <3>1, <3>2
  <2> QED BY <2>3, <2>4
<1>4. CASE rows[i] = None \/ rows[j] = None
  BY <1>3, <1>4
<1>5. CASE rows[i] # None /\ rows[j] # None
  <2>1. rows[i].space = rows[j].space
    <3>1. log[i] # <<>> /\ log[i] \in Seq(Event)
      BY <1>5 DEF TypeOK, OrderlyHistory
    <3>2. log[i][1] \in Event
      BY <3>1
    <3>3. PICK m \in Members : TRUE
      BY <3>2 DEF Event
    <3> QED BY <1>5, <3>3, RowsAtHome
  <2> QED BY <1>1, <1>5, <2>1 DEF PlansAreExclusive
<1> QED BY <1>4, <1>5

-----------------------------------------------------------------------------
\* The batches of the calls continue the histories.
LEMMA PublishContinues ==
    ASSUME OneSpace, TypeOK, OrderlyHistory, AtHome,
           NEW m \in Members, NEW id \in Ids, NEW scope \in Scopes,
           NEW kind \in Kinds, NEW old \in Ids \union {None}, rows[id] = None,
           old # None => OpenIn(old, Home[m], Target(m, scope))
    PROVE  Continues(Published(m, id, scope, kind, old))
<1> DEFINE new == Published(m, id, scope, kind, old)
           gone == Replaced(id, Home[m], Target(m, scope), kind, old)
<1>1. DOMAIN new = gone \union {id} /\ id \notin gone
  BY ReplacedOpen DEF Published, OpenIn, Current, Exists
<1>2. /\ new[id].space = Home[m] /\ new[id].what = "published"
      /\ new[id].version = 1 /\ new[id].kind = kind
      /\ new[id].context = Target(m, scope)
  BY DEF Published, NewEvent
<1>3. ASSUME NEW d \in gone
      PROVE  /\ new[d].space = Home[m] /\ new[d].what = "superseded"
             /\ new[d].version = rows[d].version + 1
             /\ new[d].context = rows[d].context
             /\ rows[d] # None /\ rows[d].open
  <2>1. d \in Ids /\ d # id /\ OpenIn(d, Home[m], Target(m, scope))
    BY <1>1, ReplacedOpen
  <2>2. new[d] = Superseding(m, scope, d)
    BY <1>1, <2>1 DEF Published
  <2> QED BY <2>1, <2>2 DEF Superseding, NewEvent, OpenIn, Current, Exists
<1>4. \A n \in Members : Home[n] = Home[m]
  BY DEF OneSpace
<1>5. ASSUME kind = "plan", NEW p \in Ids \ {id}, rows[p] # None,
             rows[p].open, rows[p].kind = "plan", rows[p].context = Target(m, scope)
      PROVE  p \in gone
  <2>1. Exists(p, Home[m])
    BY <1>5, RowsAtHome
  <2> QED BY <1>5, <2>1 DEF Replaced, OpenIn, Current
<1> HIDE DEF new, gone
<1>6. \A d \in DOMAIN new : d = id \/ d \in gone
  BY <1>1
<1>7. \A d \in DOMAIN new \ {id} : new[d].what = "superseded"
  BY <1>3, <1>6
<1>8. Continues(new)
  BY <1>1, <1>2, <1>3, <1>4, <1>5, <1>6, <1>7 DEF Continues
<1> QED BY <1>8 DEF new

LEMMA AmendContinues ==
    ASSUME OneSpace, NEW m \in Members, NEW id \in Ids, NEW scope \in Scopes,
           NEW kind \in Kinds, OpenIn(id, Home[m], Target(m, scope))
    PROVE  Continues(Amended(m, id, scope, kind, rows[id].version + 1))
BY DEF OneSpace, Continues, Amended, NewEvent, OpenIn, Current, Exists

LEMMA SupersedeContinues ==
    ASSUME OneSpace, NEW m \in Members, NEW id \in Ids, NEW scope \in Scopes,
           OpenIn(id, Home[m], Target(m, scope))
    PROVE  Continues(Superseded(m, id, scope))
BY DEF OneSpace, Continues, Superseded, Superseding, NewEvent, OpenIn, Current, Exists

-----------------------------------------------------------------------------
\* The steps, for one Space and one process: a batch that continues, after which
\* no call is in between; the read of record_decision; or neither.
NoneWaits == \A m \in Members : record[m] = None
Continued == \E new : Appends(new) /\ Continues(new)

LEMMA ExistsIsRow ==
    ASSUME TypeOK, OrderlyHistory, AtHome, NEW m \in Members, NEW id \in Ids
    PROVE  Exists(id, Home[m]) <=> rows[id] # None
BY RowsAtHome DEF Exists

LEMMA OrderlySteps ==
    ASSUME OneServer, OneSpace, TypeOK, OrderlyHistory, AtHome, Waits, Next
    PROVE  \/ Continued /\ NoneWaits'
           \/ Untouched /\ Waits'
<1> SUFFICES ASSUME NEW m \in Members,
        \/ \E id \in Ids, scope \in Scopes, kind \in Kinds :
            \/ \E old \in Ids \union {None} : PublishDecision(m, id, scope, kind, old)
            \/ AmendDecision(m, id, scope, kind)
        \/ \E id \in Ids, scope \in Scopes :
            \/ SupersedeDecision(m, id, scope)
            \/ ReadForRecord(m, id, scope)
        \/ \E kind \in Kinds : RecordDecision(m, kind)
        \/ RecordFails(m)
        \/ \E ctx \in Contexts : Move(m, ctx)
        \/ TakeNotices(m) \/ GetUpdates(m)
    PROVE  \/ Continued /\ NoneWaits'
           \/ Untouched /\ Waits'
  BY DEF Next
<1>0. record \in [Members -> Record \union {None}]
  BY DEF TypeOK
<1>1. ASSUME NEW id \in Ids, NEW scope \in Scopes, NEW kind \in Kinds,
             NEW old \in Ids \union {None}, PublishDecision(m, id, scope, kind, old)
      PROVE  Continued /\ NoneWaits'
  <2>1. rows[id] = None
    BY <1>1, ExistsIsRow DEF PublishDecision
  <2>2. Continues(Published(m, id, scope, kind, old))
    BY <1>1, <2>1, PublishContinues DEF PublishDecision
  <2>3. NoneWaits /\ record' = record
    BY <1>1 DEF PublishDecision, Ready, NoneWaits
  <2> QED BY <1>1, <2>2, <2>3, PublishStep DEF Continued, NoneWaits
<1>2. ASSUME NEW id \in Ids, NEW scope \in Scopes, NEW kind \in Kinds,
             AmendDecision(m, id, scope, kind)
      PROVE  Continued /\ NoneWaits'
  <2>1. Continues(Amended(m, id, scope, kind, rows[id].version + 1))
    BY <1>2, AmendContinues DEF AmendDecision, Amendable
  <2>2. NoneWaits /\ record' = record
    BY <1>2 DEF AmendDecision, Ready, NoneWaits
  <2> QED BY <1>2, <2>1, <2>2, AmendStep DEF Continued, NoneWaits
<1>3. ASSUME NEW id \in Ids, NEW scope \in Scopes, SupersedeDecision(m, id, scope)
      PROVE  Continued /\ NoneWaits'
  <2>1. Continues(Superseded(m, id, scope))
    BY <1>3, SupersedeContinues DEF SupersedeDecision
  <2>2. NoneWaits /\ record' = record
    BY <1>3 DEF SupersedeDecision, Ready, NoneWaits
  <2> QED BY <1>3, <2>1, <2>2, SupersedeStep DEF Continued, NoneWaits
<1>4. ASSUME NEW id \in Ids, NEW scope \in Scopes, ReadForRecord(m, id, scope)
      PROVE  Untouched /\ Waits'
  <2> DEFINE call == [id |-> id, scope |-> scope,
                      row |-> IF Exists(id, Home[m]) THEN rows[id] ELSE None]
  <2>1. /\ NoneWaits /\ record' = [record EXCEPT ![m] = call]
        /\ UNCHANGED <<log, rows, at>>
    BY <1>4 DEF ReadForRecord, Ready, NoneWaits
  <2>2. call.id = id /\ call.scope = scope /\ call.row = rows[id]
    BY ExistsIsRow
  <2>3. rows[id] # None => OpenIn(id, Home[m], Target(m, scope))
    BY <1>4, ExistsIsRow DEF ReadForRecord
  <2> HIDE DEF call
  <2>4. \A n \in Members : record'[n] # None => n = m
    BY <1>0, <2>1 DEF NoneWaits
  <2>5. record'[m] = call
    BY <1>0, <2>1
  <2>6. ASSUME NEW n \in Members, record'[n] # None
        PROVE  /\ record'[n].row = rows[record'[n].id]
               /\ record'[n].row # None =>
                    OpenIn(record'[n].id, Home[n], Target(n, record'[n].scope))
    BY <2>2, <2>3, <2>4, <2>5, <2>6
  <2> QED BY <2>1, <2>4, <2>6
          DEF Waits, Untouched, OpenIn, Current, Exists, Target
<1>5. ASSUME NEW kind \in Kinds, RecordDecision(m, kind)
      PROVE  Continued /\ NoneWaits'
  <2> DEFINE call == record[m]
  <2>1. /\ call \in Record /\ call # None
        /\ record' = [record EXCEPT ![m] = None]
    BY <1>5, RecordStep DEF RecordDecision
  <2>2. call.id \in Ids /\ call.scope \in Scopes
    BY <2>1 DEF Record
  <2>3. /\ \A n \in Members : record[n] # None => n = m
        /\ call.row = rows[call.id]
        /\ call.row # None => OpenIn(call.id, Home[m], Target(m, call.scope))
    BY <2>1 DEF Waits
  <2>4. NoneWaits'
    BY <1>0, <2>1, <2>3 DEF NoneWaits
  <2>5. CASE call.row = None /\ Appends(Published(m, call.id, call.scope, kind, None))
    <3>1. rows[call.id] = None
      BY <2>3, <2>5
    <3>2. Continues(Published(m, call.id, call.scope, kind, None))
      BY <2>2, <3>1, PublishContinues
    <3> QED BY <2>4, <2>5, <3>2 DEF Continued
  <2>6. CASE call.row \in Row
               /\ Appends(Amended(m, call.id, call.scope, kind, call.row.version + 1))
    <3>1. call.row # None
      BY <2>6, NoneAssumption
    <3>2. Continues(Amended(m, call.id, call.scope, kind, rows[call.id].version + 1))
      BY <2>2, <2>3, <3>1, AmendContinues
    <3> QED BY <2>3, <2>4, <2>6, <3>2 DEF Continued
  <2> QED BY <1>5, <2>5, <2>6, RecordStep
<1>6. CASE RecordFails(m)
  BY <1>0, <1>6 DEF RecordFails, Untouched, Waits, OpenIn, Current, Exists, Target
<1>7. ASSUME NEW ctx \in Contexts, Move(m, ctx)
      PROVE  Untouched /\ Waits'
  BY <1>7 DEF Move, Ready, Untouched, Waits
<1>8. CASE TakeNotices(m) \/ GetUpdates(m)
  BY <1>8 DEF TakeNotices, GetUpdates, Handed, Ready, Untouched, Waits
<1> QED BY <1>1, <1>2, <1>3, <1>4, <1>5, <1>6, <1>7, <1>8

Orderly == TypeOK /\ OrderlyHistory /\ AtHome /\ Waits /\ PlansAreExclusive

LEMMA OrderlyInit == Init => Orderly
<1> SUFFICES ASSUME Init PROVE Orderly
  OBVIOUS
<1>1. TypeOK
  BY DecisionsAssumption DEF Init, TypeOK, Events, Contexts
<1>2. \A id \in Ids : log[id] = <<>> /\ rows[id] = None
  BY DEF Init
<1>3. OrderlyHistory /\ AtHome
  BY <1>2 DEF OrderlyHistory, AtHome
<1>4. Waits /\ PlansAreExclusive
  BY <1>2 DEF Init, Waits, PlansAreExclusive
<1> QED BY <1>1, <1>3, <1>4 DEF Orderly

LEMMA OrderlyStep ==
    ASSUME OneServer, OneSpace
    PROVE  Orderly /\ [Next]_vars => Orderly'
<1> SUFFICES ASSUME Orderly, [Next]_vars PROVE Orderly'
  OBVIOUS
<1> USE DEF Orderly
<1>1. TypeOK'
  BY TypeStep
<1>2. ASSUME Untouched
      PROVE  OrderlyHistory' /\ AtHome' /\ PlansAreExclusive'
  BY <1>2 DEF Untouched, OrderlyHistory, AtHome, PlansAreExclusive, AlwaysPlan,
     Projected
<1>3. CASE Continued /\ NoneWaits'
  <2>1. OrderlyHistory' /\ AtHome' /\ PlansAreExclusive'
    BY <1>3, OrderlyAppend, ExclusiveAppend DEF Continued
  <2>2. Waits'
    BY <1>3 DEF NoneWaits, Waits
  <2> QED BY <1>1, <2>1, <2>2
<1>4. CASE Untouched /\ Waits'
  BY <1>1, <1>2, <1>4
<1>5. CASE UNCHANGED vars
  <2>1. Waits'
    BY <1>5 DEF vars, Waits, OpenIn, Current, Exists, Target
  <2> QED BY <1>1, <1>2, <1>5, <2>1 DEF vars, Untouched
<1> QED BY <1>3, <1>4, <1>5, OrderlySteps

\* In one Space, on one server process: every history is published once, has
\* versions without gap or repetition, goes on after nothing that superseded it,
\* and the decisions table shows its end, also when record_decision decides by
\* a row it read before its transaction (decision-tools.ts).
THEOREM OrderlyHistoryHolds ==
    ASSUME OneServer, OneSpace
    PROVE  Spec => []OrderlyHistory
<1>1. Orderly => OrderlyHistory
  BY DEF Orderly
<1> QED BY <1>1, OrderlyInit, OrderlyStep, PTL DEF Spec

\* There, no two open decisions of a context have been plans since they were
\* published (decision-tools.ts: a plan supersedes the open plans of its own
\* Sprint, or of those outside any; plans of other contexts it leaves open).
THEOREM PlansAreExclusiveHolds ==
    ASSUME OneServer, OneSpace
    PROVE  Spec => []PlansAreExclusive
<1>1. Orderly => PlansAreExclusive
  BY DEF Orderly
<1> QED BY <1>1, OrderlyInit, OrderlyStep, PTL DEF Spec
=============================================================================
