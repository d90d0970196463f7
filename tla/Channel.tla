------------------------------ MODULE Channel ------------------------------
(***************************************************************************)
(* Live delivery to one member: the channel process polls get_updates on a *)
(* timer, emits a notification per event worth one, and keeps a cursor in  *)
(* memory and in a file of the session.  The server pages its event log by *)
(* event id.  The timer starts a poll whether or not the last one is done, *)
(* so polls overlap; requests and notifications fail; the process stops at *)
(* any point and starts again from the file.                               *)
(***************************************************************************)
EXTENDS Integers, FiniteSets

CONSTANTS
    Polls,       \* polls that may be running at once
    Kinds,       \* kinds of events other members append
    Burst,       \* event ids that one millisecond can yield
    PageLimit,   \* events of a page (50)
    PrimeLimit,  \* events of a page while priming (100)
    ScanLimit,   \* events the server looks at for one page (1000)
    MaxLog,      \* bound on events
    Faults,      \* bound on failures and restarts
    OverlapPriming,  \* the timer may fire before the first poll has returned
    None         \* no cursor, no poll

\* "hidden": addressed to others, left out by the server; "urgent": a
\* permission request to this member; "chat": any other event that is shown.
ASSUME ChannelAssumption ==
    /\ {Burst, PageLimit, PrimeLimit, ScanLimit, MaxLog} \subseteq Nat \ {0}
    /\ Faults \in Nat
    /\ OverlapPriming \in BOOLEAN
    /\ Kinds \subseteq {"hidden", "chat", "urgent"}
    /\ None \notin Int

VARIABLES
    log,      \* the Space's events: their kinds by id
    ms,       \* the server's clock in milliseconds
    file,     \* CURSOR_FILE
    cursor,   \* the cursor in memory
    up,       \* the channel process runs
    poll,     \* its polls
    shown,    \* ids of the events a notification was sent for
    dropped,  \* ids of the events the rate limiter dropped
    first,    \* newest id when the session's first poll began
    base,     \* the cursor that the first priming to return came to
    faults

disk == <<log, ms>>
history == <<shown, dropped>>
vars == <<log, ms, file, cursor, up, poll, shown, dropped, first, base, faults>>

Empty == 0   \* EMPTY_CHANNEL_CURSOR: primed while there was no event
Ids == 1..(MaxLog * Burst)
Cursor == Ids \union {Empty, None}

\* A poll works from the cursor it began with.  A poll without one primes:
\* "at" is how far it has read.  An answer is the events still to emit and
\* the next cursor.
Poll == [pc : {"ask", "page"}, from : Cursor, at : Cursor,
         todo : SUBSET Ids, next : Cursor]

(***************************************************************************)
(* Type invariant.                                                         *)
(***************************************************************************)
TypeOK ==
    /\ DOMAIN log \subseteq Ids /\ Cardinality(DOMAIN log) <= MaxLog
    /\ \A id \in DOMAIN log : log[id] \in Kinds
    /\ ms \in 0..MaxLog
    /\ {file, cursor, first, base} \subseteq Cursor
    /\ up \in BOOLEAN
    /\ poll \in [Polls -> Poll \union {None}]
    /\ shown \union dropped \subseteq Ids
    /\ faults \in 0..Faults
    /\ ~up => cursor = None /\ \A p \in Polls : poll[p] = None
    /\ cursor # None => file # None

Init ==
    /\ log = [id \in {} |-> None]
    /\ ms = 0
    /\ file = None
    /\ cursor = None
    /\ up = TRUE
    /\ poll = [p \in Polls |-> None]
    /\ shown = {}
    /\ dropped = {}
    /\ first = None
    /\ base = None
    /\ faults = Faults

-----------------------------------------------------------------------------
(***************************************************************************)
(* The server.                                                             *)
(***************************************************************************)

\* newEventId is a ULID: a millisecond, then random bits.  So the ids of one
\* millisecond, Burst of them in the model, are drawn in any order.
IdsOf(m) == {((m - 1) * Burst) + b : b \in 1..Burst}

AppendEvent(kind) ==
    /\ Cardinality(DOMAIN log) < MaxLog
    /\ \E m \in {ms, ms + 1} \ {0} :
        /\ ms' = m
        /\ \E new \in IdsOf(m) \ DOMAIN log :
             log' = [id \in DOMAIN log \union {new} |->
                        IF id = new THEN kind ELSE log[id]]
    /\ UNCHANGED <<file, cursor, up, poll, history, first, base, faults>>

\* getUpdates looks at the rows after a cursor in id order until the page is
\* full of visible events or ScanLimit rows are read; its next cursor is the
\* last row looked at, if there is one.
Visible(ids) == {id \in ids : log[id] # "hidden"}
LookedAgain(since, c) == {id \in DOMAIN log : since <= id /\ id <= c}   \* mutant: >=
Looked(since, c) == {id \in DOMAIN log : since < id /\ id <= c}

Fits(c, since, limit) ==
    /\ c > since
    /\ Cardinality(Looked(since, c)) <= ScanLimit
    /\ Cardinality(Visible(Looked(since, c) \ {c})) < limit

NextCursor(c, since, limit) ==
    LET ends == {d \in DOMAIN log : Fits(d, since, limit)}
    IN IF ends = {} THEN c = None ELSE c \in ends /\ \A d \in ends : d <= c

-----------------------------------------------------------------------------
(***************************************************************************)
(* pollChannelOnce.                                                        *)
(***************************************************************************)
Idle(p) == poll[p] = None
Primes(p) == poll[p].from = None
Since(c) == IF c = None THEN Empty ELSE c
End(p) == poll' = [poll EXCEPT ![p] = None]

IsLatest(c) == \A id \in DOMAIN log : id <= c

StartPoll(p) ==
    /\ up
    /\ Idle(p)
    /\ cursor = None => OverlapPriming \/ \A q \in Polls : Idle(q)
    /\ poll' = [poll EXCEPT ![p] =
         [pc |-> "ask", from |-> cursor, at |-> Since(cursor),
          todo |-> {}, next |-> None]]
    /\ IF first = None
       THEN \E c \in DOMAIN log \union {Empty} : IsLatest(c) /\ first' = c
       ELSE UNCHANGED first
    /\ UNCHANGED <<disk, file, cursor, up, history, base, faults>>

\* The poll returns c, which becomes the cursor in memory; a cursor that was
\* read from the server goes to the file as well.
Return(p, c) ==
    /\ cursor' = c
    /\ End(p)

WrittenId(c) == IF c = Empty THEN file ELSE c   \* mutant: the sentinel is not written
Written(c) == c

Persist(p, c) ==
    /\ file' = Written(c)
    /\ Return(p, c)

PageTo(c, since) == IF c = None THEN {} ELSE Visible(Looked(since, c))

\* get_updates answers a page.
GetUpdates(p) ==
    /\ ~Idle(p) /\ poll[p].pc = "ask"
    /\ \E c \in DOMAIN log \union {None} :
        /\ NextCursor(c, poll[p].at, IF Primes(p) THEN PrimeLimit ELSE PageLimit)
        /\ poll' = [poll EXCEPT ![p].pc = "page", ![p].todo = PageTo(c, poll[p].at),
                                ![p].next = c]
    /\ UNCHANGED <<disk, file, cursor, up, history, first, base, faults>>

\* primeCursorToLatest: page after page, until one is short.
LastOne(p) == TRUE   \* mutant: one page
Last(p) == Cardinality(poll[p].todo) < PrimeLimit
Primed(p) == ~Idle(p) /\ Primes(p) /\ poll[p].pc = "page"
ReadTo(p) == IF poll[p].next = None THEN poll[p].at ELSE poll[p].next

PrimeOn(p) ==
    /\ Primed(p)
    /\ ~Last(p)
    /\ poll' = [poll EXCEPT ![p].pc = "ask", ![p].at = ReadTo(p),
                            ![p].todo = {}, ![p].next = None]
    /\ UNCHANGED <<disk, file, cursor, up, history, first, base, faults>>

FinishPriming(p) ==
    /\ Primed(p)
    /\ Last(p)
    /\ Persist(p, ReadTo(p))
    /\ base' = IF base = None THEN ReadTo(p) ELSE base
    /\ UNCHANGED <<disk, up, history, first, faults>>

Emitting(p) == ~Idle(p) /\ ~Primes(p) /\ poll[p].pc = "page" /\ poll[p].todo # {}
Head(p) == CHOOSE id \in poll[p].todo : \A other \in poll[p].todo : id <= other
Skip(p) == poll' = [poll EXCEPT ![p].todo = @ \ {Head(p)}]

EmitEvent(p) ==
    /\ Emitting(p)
    /\ shown' = shown \union {Head(p)}
    /\ Skip(p)
    /\ UNCHANGED <<disk, file, cursor, up, dropped, first, base, faults>>

\* The limiter's budget depends on the last minute; the model lets it be
\* spent at any time.
MayDrop(id) == log[id] # "urgent"

DropEvent(p) ==
    /\ Emitting(p)
    /\ MayDrop(Head(p))
    /\ dropped' = dropped \union {Head(p)}
    /\ Skip(p)
    /\ UNCHANGED <<disk, file, cursor, up, shown, first, base, faults>>

DoneEarly(p) == ~Idle(p) /\ ~Primes(p) /\ poll[p].pc = "page"   \* mutant: not awaited
Done(p) == ~Idle(p) /\ ~Primes(p) /\ poll[p].pc = "page" /\ poll[p].todo = {}

FinishPage(p) ==
    /\ Done(p)
    /\ IF poll[p].next = None
       THEN Return(p, poll[p].from) /\ UNCHANGED file
       ELSE Persist(p, poll[p].next)
    /\ UNCHANGED <<disk, up, history, first, base, faults>>

-----------------------------------------------------------------------------
(***************************************************************************)
(* Failures, at most Faults of them.                                       *)
(***************************************************************************)
Fault ==
    /\ faults > 0
    /\ faults' = faults - 1

\* get_updates answers with an error: the poll returns the cursor it began
\* with.
UpdatesNotOk(p) ==
    /\ Fault
    /\ ~Idle(p) /\ poll[p].pc = "ask"
    /\ Return(p, poll[p].from)
    /\ UNCHANGED <<disk, file, up, history, first, base>>

\* A request or a notification throws: the assignment of cursor is skipped.
PollThrows(p) ==
    /\ Fault
    /\ ~Idle(p)
    /\ End(p)
    /\ UNCHANGED <<disk, file, cursor, up, history, first, base>>

Stop ==
    /\ Fault
    /\ up
    /\ up' = FALSE
    /\ cursor' = None
    /\ poll' = [p \in Polls |-> None]
    /\ UNCHANGED <<disk, file, history, first, base>>

Loaded == file

Start ==
    /\ ~up
    /\ up' = TRUE
    /\ cursor' = Loaded
    /\ UNCHANGED <<disk, file, poll, history, first, base, faults>>

-----------------------------------------------------------------------------
Work(p) ==
    \/ GetUpdates(p)
    \/ PrimeOn(p) \/ FinishPriming(p)
    \/ EmitEvent(p) \/ DropEvent(p) \/ FinishPage(p)

Next ==
    \/ \E k \in Kinds : AppendEvent(k)
    \/ \E p \in Polls :
        \/ StartPoll(p)
        \/ Work(p)
        \/ UpdatesNotOk(p) \/ PollThrows(p)
    \/ Stop
    \/ Start

Spec == Init /\ [][Next]_vars

(***************************************************************************)
(* Fairness: the timer fires; of the polls that wait some goes on (one may *)
(* hang, requests have no timeout); a stopped session is started again.    *)
(***************************************************************************)
FairSpec ==
    /\ Spec
    /\ WF_vars(\E p \in Polls : StartPoll(p))
    /\ WF_vars(\E p \in Polls : Work(p))
    /\ WF_vars(Start)

-----------------------------------------------------------------------------
(***************************************************************************)
(* Properties.                                                             *)
(***************************************************************************)
Due == IF base = None THEN {} ELSE Visible({id \in DOMAIN log : id > base})
Settled == shown \union {id \in dropped : log[id] # "urgent"}

\* Whatever polls overlap, fail or are cut off: the cursor, in the file and
\* in memory, has passed no event that was not shown or dropped as chatter.
NothingSkipped ==
    \A id \in Due \ Settled :
        /\ file # None => file < id
        /\ cursor # None => cursor < id

\* A session that starts does not replay the Space's past: nothing that was in
\* the log when its first poll began is announced.
NoReplay == \A id \in shown : first # None /\ id > first

\* Delivery catches up again and again: every event due is shown or dropped
\* at last (the log is bounded), after any faults, and also if one of the
\* polls hangs for ever.
AllSettled == []<>(Due \subseteq Settled)
=============================================================================
