--------------------------- MODULE ChannelProofs ---------------------------
(***************************************************************************)
(* Theorems about module Channel: its safety properties, for any polls,    *)
(* page sizes, log and failures.                                           *)
(***************************************************************************)
EXTENDS Channel, FiniteSetTheorems, WellFoundedInduction, NaturalsInduction, TLAPS

-----------------------------------------------------------------------------
(***************************************************************************)
(* Sets of event ids.                                                      *)
(***************************************************************************)
LEMMA Bounds ==
  /\ Burst \in Nat /\ Burst > 0 /\ PageLimit \in Nat /\ PageLimit > 0
  /\ PrimeLimit \in Nat /\ PrimeLimit > 0 /\ ScanLimit \in Nat /\ ScanLimit > 0
  /\ MaxLog \in Nat /\ MaxLog > 0 /\ Faults \in Nat
  BY ChannelAssumption

LEMMA IdsAreNumbers ==
  /\ Ids \subseteq Nat
  /\ \A id \in Ids : id > 0
  /\ \A c \in Cursor : c = None \/ c \in Nat
  /\ Empty \in Nat /\ None \notin Nat
  /\ IsFiniteSet(Ids)
<1>1. MaxLog * Burst \in Nat
  BY Bounds
<1>2. IsFiniteSet(Ids)
  BY <1>1, FS_Interval DEF Ids
<1>. QED
  BY <1>1, <1>2, ChannelAssumption DEF Ids, Cursor, Empty

\* A set of numbers that is not empty has a least one.
LEMMA LeastOf ==
  ASSUME NEW S \in SUBSET Nat, S # {}
  PROVE  \E m \in S : \A n \in S : m <= n
<1>1. PICK m \in S : \A n \in S : ~ (<<n, m>> \in OpToRel(<, Nat))
  BY WFMin, NatLessThanWellFounded, Zenon
<1>2. \A n \in S : ~ (n < m)
  BY <1>1, Zenon DEF OpToRel
<1>. QED
  BY <1>2

\* A set of events of the log is finite.
LEMMA LogIsFinite ==
  ASSUME TypeOK, NEW S \in SUBSET (DOMAIN log)
  PROVE  /\ IsFiniteSet(S) /\ Cardinality(S) \in Nat
         /\ Cardinality(S) <= Cardinality(DOMAIN log)
         /\ Cardinality(DOMAIN log) \in Nat
<1>1. IsFiniteSet(DOMAIN log)
  BY IdsAreNumbers, FS_Subset DEF TypeOK
<1>. QED
  BY <1>1, FS_Subset, FS_CardinalityType

\* An id of the milliseconds that the clock may show is an id.
LEMMA IdsOfAreIds ==
  ASSUME NEW m \in 1 .. MaxLog
  PROVE  IdsOf(m) \subseteq Ids
<1>. SUFFICES ASSUME NEW b \in 1 .. Burst
              PROVE  ((m - 1) * Burst) + b \in Ids
  BY DEF IdsOf
<1>1. /\ m \in Nat /\ m > 0 /\ m <= MaxLog /\ MaxLog \in Nat
      /\ Burst \in Nat /\ b \in Nat /\ b > 0 /\ b <= Burst
  BY Bounds
<1>2. \A n \in Nat : n * Burst \in Nat
  BY <1>1
<1>3. PICK d \in Nat : MaxLog = m + d
  <2>1. MaxLog - m \in Nat /\ MaxLog = m + (MaxLog - m)
    BY <1>1
  <2>. QED
    BY <2>1
<1>4. (m - 1) * Burst + Burst = m * Burst
  BY <1>1
<1>5. MaxLog * Burst = m * Burst + d * Burst
  BY <1>1, <1>3
<1>6. (m - 1) * Burst \in Nat /\ m * Burst \in Nat /\ d * Burst \in Nat
  BY <1>1, <1>2
<1>7. (m - 1) * Burst + b <= MaxLog * Burst
  BY <1>1, <1>4, <1>5, <1>6
<1>. QED
  BY <1>1, <1>6, <1>7 DEF Ids

-----------------------------------------------------------------------------
(***************************************************************************)
(* What the steps of a poll do to it.                                      *)
(***************************************************************************)
OthersStay(p) == \A q \in Polls \ {p} : poll'[q] = poll[q]

LEMMA PollTyped ==
  ASSUME TypeOK, NEW p \in Polls, ~Idle(p)
  PROVE  /\ poll[p] \in Poll
         /\ poll[p].pc \in {"ask", "page"}
         /\ poll[p].from \in Cursor /\ poll[p].at \in Cursor
         /\ poll[p].next \in Cursor /\ poll[p].todo \subseteq Ids
<1>1. poll[p] \in Poll
  BY DEF TypeOK, Idle
<1>. QED
  BY <1>1 DEF Poll

LEMMA PollSet ==
  ASSUME TypeOK, NEW p \in Polls, NEW x, poll' = [poll EXCEPT ![p] = x],
         x \in Poll \union {None}
  PROVE  /\ poll' \in [Polls -> Poll \union {None}]
         /\ poll'[p] = x /\ OthersStay(p)
<1>1. poll \in [Polls -> Poll \union {None}]
  BY DEF TypeOK
<1>. QED
  BY <1>1 DEF OthersStay

LEMMA Ended ==
  ASSUME TypeOK, NEW p \in Polls, End(p)
  PROVE  /\ poll' \in [Polls -> Poll \union {None}]
         /\ poll'[p] = None /\ OthersStay(p)
  BY PollSet DEF End

LEMMA Started ==
  ASSUME TypeOK, NEW p \in Polls, StartPoll(p)
  PROVE  /\ poll' \in [Polls -> Poll \union {None}] /\ OthersStay(p)
         /\ poll'[p].pc = "ask" /\ poll'[p].from = cursor
         /\ poll'[p].at = Since(cursor)
         /\ poll'[p].todo = {} /\ poll'[p].next = None
<1>. DEFINE x == [pc |-> "ask", from |-> cursor, at |-> Since(cursor),
                  todo |-> {}, next |-> None]
<1>1. cursor \in Cursor /\ Since(cursor) \in Cursor /\ None \in Cursor
  BY DEF TypeOK, Since, Cursor
<1>2. x \in Poll
  BY <1>1 DEF Poll
<1>3. poll' = [poll EXCEPT ![p] = x]
  BY DEF StartPoll
<1>4. poll' \in [Polls -> Poll \union {None}] /\ OthersStay(p) /\ poll'[p] = x
  <2>. HIDE DEF x
  <2>. QED
    BY <1>2, <1>3, PollSet
<1>. QED
  BY <1>4

LEMMA Answered ==
  ASSUME TypeOK, NEW p \in Polls, GetUpdates(p)
  PROVE  /\ poll' \in [Polls -> Poll \union {None}] /\ OthersStay(p)
         /\ poll'[p].pc = "page" /\ poll'[p].from = poll[p].from
         /\ poll'[p].at = poll[p].at
         /\ \E c \in DOMAIN log \union {None} :
              /\ NextCursor(c, poll[p].at,
                            IF Primes(p) THEN PrimeLimit ELSE PageLimit)
              /\ poll'[p].next = c /\ poll'[p].todo = PageTo(c, poll[p].at)
<1>1. PICK c \in DOMAIN log \union {None} :
        /\ NextCursor(c, poll[p].at,
                      IF Primes(p) THEN PrimeLimit ELSE PageLimit)
        /\ poll' = [poll EXCEPT ![p].pc = "page",
                                ![p].todo = PageTo(c, poll[p].at), ![p].next = c]
  BY DEF GetUpdates
<1>. DEFINE x == [poll[p] EXCEPT !.pc = "page",
                                 !.todo = PageTo(c, poll[p].at), !.next = c]
<1>2. PageTo(c, poll[p].at) \subseteq Ids
  BY DEF PageTo, Visible, Looked, TypeOK
<1>3. c \in Cursor
  BY DEF TypeOK, Cursor
<1>4. poll[p] \in Poll
  BY PollTyped DEF GetUpdates
<1>5. x \in Poll
  BY <1>2, <1>3, <1>4 DEF Poll
<1>6. /\ x.pc = "page" /\ x.from = poll[p].from /\ x.at = poll[p].at
      /\ x.next = c /\ x.todo = PageTo(c, poll[p].at)
  BY <1>4 DEF Poll
<1>7. poll' = [poll EXCEPT ![p] = x]
  BY <1>1 DEF TypeOK
<1>8. poll' \in [Polls -> Poll \union {None}] /\ OthersStay(p) /\ poll'[p] = x
  <2>. HIDE DEF x
  <2>. QED
    BY <1>5, <1>7, PollSet
<1>. QED
  BY <1>1, <1>6, <1>8

LEMMA PrimedOn ==
  ASSUME TypeOK, NEW p \in Polls, PrimeOn(p)
  PROVE  /\ poll' \in [Polls -> Poll \union {None}] /\ OthersStay(p)
         /\ poll'[p].pc = "ask" /\ poll'[p].from = poll[p].from
         /\ poll'[p].at = ReadTo(p)
         /\ poll'[p].todo = {} /\ poll'[p].next = None
<1>. DEFINE x == [poll[p] EXCEPT !.pc = "ask", !.at = ReadTo(p),
                                 !.todo = {}, !.next = None]
<1>1. poll[p] \in Poll /\ ReadTo(p) \in Cursor
  BY PollTyped DEF PrimeOn, Primed, ReadTo
<1>2. x \in Poll
  BY <1>1 DEF Poll, Cursor
<1>3. /\ x.pc = "ask" /\ x.from = poll[p].from /\ x.at = ReadTo(p)
      /\ x.todo = {} /\ x.next = None
  BY <1>1 DEF Poll
<1>4. poll' = [poll EXCEPT ![p] = x]
  BY DEF PrimeOn, TypeOK
<1>5. poll' \in [Polls -> Poll \union {None}] /\ OthersStay(p) /\ poll'[p] = x
  <2>. HIDE DEF x
  <2>. QED
    BY <1>2, <1>4, PollSet
<1>. QED
  BY <1>3, <1>5

LEMMA Skipped ==
  ASSUME TypeOK, NEW p \in Polls, ~Idle(p), Skip(p)
  PROVE  /\ poll' \in [Polls -> Poll \union {None}] /\ OthersStay(p)
         /\ poll'[p].pc = poll[p].pc /\ poll'[p].from = poll[p].from
         /\ poll'[p].at = poll[p].at /\ poll'[p].next = poll[p].next
         /\ poll'[p].todo = poll[p].todo \ {Head(p)}
<1>. DEFINE x == [poll[p] EXCEPT !.todo = @ \ {Head(p)}]
<1>1. poll[p] \in Poll /\ poll[p].todo \subseteq Ids
  BY PollTyped
<1>2. x \in Poll
  BY <1>1 DEF Poll
<1>3. /\ x.pc = poll[p].pc /\ x.from = poll[p].from /\ x.at = poll[p].at
      /\ x.next = poll[p].next /\ x.todo = poll[p].todo \ {Head(p)}
  BY <1>1 DEF Poll
<1>4. poll' = [poll EXCEPT ![p] = x]
  BY DEF Skip, TypeOK
<1>5. poll' \in [Polls -> Poll \union {None}] /\ OthersStay(p) /\ poll'[p] = x
  <2>. HIDE DEF x
  <2>. QED
    BY <1>2, <1>4, PollSet
<1>. QED
  BY <1>3, <1>5

\* The event that is next to be emitted is one of those to emit.
LEMMA HeadToDo ==
  ASSUME TypeOK, NEW p \in Polls, Emitting(p)
  PROVE  Head(p) \in poll[p].todo
<1>1. poll[p].todo \subseteq Nat /\ poll[p].todo # {}
  BY PollTyped, IdsAreNumbers DEF Emitting
<1>2. \E id \in poll[p].todo : \A other \in poll[p].todo : id <= other
  BY <1>1, LeastOf
<1>. QED
  BY <1>2, Zenon DEF Head

-----------------------------------------------------------------------------
(***************************************************************************)
(* Type correctness.                                                       *)
(***************************************************************************)

\* The clock has not ticked more often than events were appended.
Counted == ms <= Cardinality(DOMAIN log)

\* A poll reads from an id; one that began with a cursor reads from there, and
\* then the session's file has a cursor too.
Held == \A p \in Polls :
  ~Idle(p) =>
    /\ poll[p].at # None
    /\ ~Primes(p) => file # None /\ poll[p].at = poll[p].from

Typed == TypeOK /\ Counted /\ Held

LEMMA TypedInit == Init => Typed
<1>. SUFFICES ASSUME Init
              PROVE  Typed
  OBVIOUS
<1>1. DOMAIN log = {} /\ Cardinality({}) = 0
  BY FS_EmptySet DEF Init
<1>2. TypeOK
  BY <1>1, Bounds DEF Init, TypeOK, Cursor
<1>3. Counted /\ Held
  BY <1>1, Bounds DEF Init, Counted, Held, Idle
<1>. QED
  BY <1>2, <1>3 DEF Typed

\* A step of one poll keeps Held when it does so for that poll.
LEMMA HeldKept ==
  ASSUME Held, NEW p \in Polls, OthersStay(p), file # None => file' # None,
         poll'[p] = None
           \/ /\ poll'[p].at # None
              /\ poll'[p].from # None => file' # None /\ poll'[p].at = poll'[p].from
  PROVE  Held'
<1>. SUFFICES ASSUME NEW q \in Polls, poll'[q] # None
              PROVE  /\ poll'[q].at # None
                     /\ poll'[q].from # None
                          => file' # None /\ poll'[q].at = poll'[q].from
  BY DEF Held, Idle, Primes
<1>1. CASE q = p
  BY <1>1
<1>2. CASE q # p
  BY <1>2 DEF OthersStay, Held, Idle, Primes
<1>. QED
  BY <1>1, <1>2

LEMMA TypeKept ==
  ASSUME Typed, UNCHANGED disk, {file', cursor', first', base'} \subseteq Cursor,
         up' \in BOOLEAN, poll' \in [Polls -> Poll \union {None}],
         shown' \union dropped' \subseteq Ids, faults' \in 0 .. Faults,
         ~up' => cursor' = None /\ \A q \in Polls : poll'[q] = None,
         cursor' # None => file' # None
  PROVE  TypeOK' /\ Counted'
  BY DEF Typed, TypeOK, Counted, disk

LEMMA FaultTyped ==
  ASSUME TypeOK, Fault
  PROVE  faults' \in 0 .. Faults
<1>1. faults \in 0 .. Faults /\ faults > 0 /\ faults' = faults - 1
  BY DEF TypeOK, Fault
<1>. QED
  BY <1>1, Bounds

\* A poll that runs belongs to a process that does.
LEMMA RunsUp ==
  ASSUME TypeOK, NEW p \in Polls, ~Idle(p)
  PROVE  up
  BY DEF TypeOK, Idle

\* What an appended event changes: the log has one id more.
LEMMA Appended ==
  ASSUME Typed, NEW k \in Kinds, AppendEvent(k)
  PROVE  \E new \in Ids \ DOMAIN log :
           /\ ms' \in {ms, ms + 1} \ {0} /\ ms' \in 1 .. MaxLog
           /\ new \in IdsOf(ms')
           /\ log' = [id \in DOMAIN log \union {new} |->
                        IF id = new THEN k ELSE log[id]]
           /\ DOMAIN log' = DOMAIN log \union {new}
           /\ log'[new] = k /\ \A id \in DOMAIN log : log'[id] = log[id]
           /\ Cardinality(DOMAIN log') = Cardinality(DOMAIN log) + 1
<1>1. /\ Cardinality(DOMAIN log) < MaxLog /\ Cardinality(DOMAIN log) \in Nat
      /\ IsFiniteSet(DOMAIN log)
  BY LogIsFinite DEF Typed, AppendEvent
<1>2. ms \in Nat /\ MaxLog \in Nat /\ ms <= Cardinality(DOMAIN log)
  BY Bounds DEF Typed, TypeOK, Counted
<1>3. /\ ms' \in {ms, ms + 1} \ {0}
      /\ \E new \in IdsOf(ms') \ DOMAIN log :
           log' = [id \in DOMAIN log \union {new} |->
                     IF id = new THEN k ELSE log[id]]
  BY DEF AppendEvent
<1>4. ms' \in 1 .. MaxLog
  BY <1>1, <1>2, <1>3
<1>5. PICK new \in IdsOf(ms') \ DOMAIN log :
        log' = [id \in DOMAIN log \union {new} |->
                  IF id = new THEN k ELSE log[id]]
  BY <1>3
<1>6. new \in Ids
  BY <1>4, <1>5, IdsOfAreIds
<1>7. /\ DOMAIN log' = DOMAIN log \union {new}
      /\ log'[new] = k /\ \A id \in DOMAIN log : log'[id] = log[id]
  BY <1>5
<1>8. Cardinality(DOMAIN log') = Cardinality(DOMAIN log) + 1
  BY <1>1, <1>5, <1>7, FS_AddElement
<1>. QED
  BY <1>3, <1>4, <1>5, <1>6, <1>7, <1>8

LEMMA TypedAppend ==
  ASSUME Typed, NEW k \in Kinds, AppendEvent(k)
  PROVE  Typed'
<1>1. PICK new \in Ids \ DOMAIN log :
        /\ ms' \in {ms, ms + 1} \ {0} /\ ms' \in 1 .. MaxLog
        /\ DOMAIN log' = DOMAIN log \union {new}
        /\ log'[new] = k /\ \A id \in DOMAIN log : log'[id] = log[id]
        /\ Cardinality(DOMAIN log') = Cardinality(DOMAIN log) + 1
  BY Appended
<1>2. /\ Cardinality(DOMAIN log) < MaxLog /\ Cardinality(DOMAIN log) \in Nat
      /\ ms \in Nat /\ ms <= Cardinality(DOMAIN log) /\ MaxLog \in Nat
  BY LogIsFinite, Bounds DEF Typed, TypeOK, Counted, AppendEvent
<1>3. UNCHANGED <<file, cursor, up, poll, shown, dropped, first, base, faults>>
  BY DEF AppendEvent, history
<1>4. DOMAIN log' \subseteq Ids /\ Cardinality(DOMAIN log') <= MaxLog
  BY <1>1, <1>2 DEF Typed, TypeOK
<1>5. \A id \in DOMAIN log' : log'[id] \in Kinds
  BY <1>1 DEF Typed, TypeOK
<1>6. ms' \in 0 .. MaxLog
  BY <1>1, <1>2
<1>7. TypeOK'
  BY <1>3, <1>4, <1>5, <1>6 DEF Typed, TypeOK
<1>8. Counted'
  BY <1>1, <1>2 DEF Counted
<1>9. Held'
  BY <1>3 DEF Typed, Held, Idle, Primes
<1>. QED
  BY <1>7, <1>8, <1>9 DEF Typed

LEMMA TypedStartPoll ==
  ASSUME Typed, NEW p \in Polls, StartPoll(p)
  PROVE  Typed'
<1>. TypeOK /\ Held
  BY DEF Typed
<1>1. /\ UNCHANGED disk /\ up
      /\ UNCHANGED <<file, cursor, up, shown, dropped, base, faults>>
  BY DEF StartPoll, history
<1>2. first' \in Cursor
  BY DEF StartPoll, TypeOK, Cursor
<1>3. /\ {file', cursor', first', base'} \subseteq Cursor /\ up' \in BOOLEAN
      /\ shown' \union dropped' \subseteq Ids /\ faults' \in 0 .. Faults
      /\ cursor' # None => file' # None
  BY <1>1, <1>2 DEF TypeOK
<1>4. TypeOK' /\ Counted'
  BY <1>1, <1>3, Started, TypeKept
<1>5. Since(cursor) # None /\ (cursor # None => Since(cursor) = cursor /\ file # None)
  BY IdsAreNumbers DEF Since, TypeOK
<1>6. Held'
  BY <1>1, <1>5, Started, HeldKept
<1>. QED
  BY <1>4, <1>6 DEF Typed

LEMMA TypedGetUpdates ==
  ASSUME Typed, NEW p \in Polls, GetUpdates(p)
  PROVE  Typed'
<1>. TypeOK /\ Held
  BY DEF Typed
<1>1. UNCHANGED disk /\ up
      /\ UNCHANGED <<file, cursor, up, shown, dropped, first, base, faults>>
  BY RunsUp DEF GetUpdates, history
<1>2. /\ {file', cursor', first', base'} \subseteq Cursor /\ up' \in BOOLEAN
      /\ shown' \union dropped' \subseteq Ids /\ faults' \in 0 .. Faults
      /\ cursor' # None => file' # None
  BY <1>1 DEF TypeOK
<1>3. TypeOK' /\ Counted'
  BY <1>1, <1>2, Answered, TypeKept
<1>4. /\ poll[p].at # None
      /\ poll[p].from # None => file # None /\ poll[p].at = poll[p].from
  BY DEF Held, Primes, GetUpdates
<1>5. Held'
  <2>1. /\ OthersStay(p)
        /\ poll'[p].at = poll[p].at /\ poll'[p].from = poll[p].from
    BY Answered
  <2>. QED
    BY <1>1, <1>4, <2>1, HeldKept
<1>. QED
  BY <1>3, <1>5 DEF Typed

LEMMA TypedPrimeOn ==
  ASSUME Typed, NEW p \in Polls, PrimeOn(p)
  PROVE  Typed'
<1>. TypeOK /\ Held
  BY DEF Typed
<1>1. UNCHANGED disk /\ up
      /\ UNCHANGED <<file, cursor, up, shown, dropped, first, base, faults>>
  BY RunsUp DEF PrimeOn, Primed, history
<1>2. /\ {file', cursor', first', base'} \subseteq Cursor /\ up' \in BOOLEAN
      /\ shown' \union dropped' \subseteq Ids /\ faults' \in 0 .. Faults
      /\ cursor' # None => file' # None
  BY <1>1 DEF TypeOK
<1>3. TypeOK' /\ Counted'
  BY <1>1, <1>2, PrimedOn, TypeKept
<1>4. ReadTo(p) # None /\ poll[p].from = None
  BY DEF PrimeOn, Primed, Primes, ReadTo, Held
<1>5. Held'
  BY <1>1, <1>4, PrimedOn, HeldKept
<1>. QED
  BY <1>3, <1>5 DEF Typed

\* A poll that returns c, with the file as it was or at an id.
LEMMA TypedReturn ==
  ASSUME Typed, NEW p \in Polls, ~Idle(p), NEW c \in Cursor, Return(p, c),
         UNCHANGED <<log, ms, up, shown, dropped, first>>,
         file' \in Cursor, file # None => file' # None,
         c # None => file' # None, base' \in Cursor, faults' \in 0 .. Faults
  PROVE  Typed'
<1>. TypeOK /\ Held
  BY DEF Typed
<1>1. End(p) /\ cursor' = c /\ UNCHANGED disk /\ up
  BY RunsUp DEF Return, disk
<1>2. /\ {file', cursor', first', base'} \subseteq Cursor /\ up' \in BOOLEAN
      /\ shown' \union dropped' \subseteq Ids
      /\ cursor' # None => file' # None
  BY <1>1 DEF TypeOK
<1>3. TypeOK' /\ Counted'
  BY <1>1, <1>2, Ended, TypeKept
<1>4. Held'
  BY <1>1, Ended, HeldKept
<1>. QED
  BY <1>3, <1>4 DEF Typed

LEMMA TypedFinishPriming ==
  ASSUME Typed, NEW p \in Polls, FinishPriming(p)
  PROVE  Typed'
<1>. TypeOK /\ Held
  BY DEF Typed
<1>1. ~Idle(p) /\ ReadTo(p) \in Cursor /\ ReadTo(p) # None
  BY PollTyped DEF FinishPriming, Primed, Primes, ReadTo, Held
<1>2. /\ Return(p, ReadTo(p)) /\ file' = ReadTo(p)
      /\ base' = IF base = None THEN ReadTo(p) ELSE base
      /\ UNCHANGED <<log, ms, up, shown, dropped, first, faults>>
  BY DEF FinishPriming, Persist, Written, disk, history
<1>3. base' \in Cursor /\ faults' \in 0 .. Faults
  BY <1>1, <1>2 DEF TypeOK
<1>. QED
  BY <1>1, <1>2, <1>3, TypedReturn

LEMMA TypedSkip ==
  ASSUME Typed, NEW p \in Polls, EmitEvent(p) \/ DropEvent(p)
  PROVE  Typed'
<1>. TypeOK /\ Held
  BY DEF Typed
<1>1. /\ ~Idle(p) /\ up /\ Head(p) \in Ids /\ Skip(p) /\ UNCHANGED disk
      /\ UNCHANGED <<file, cursor, up, first, base, faults>>
      /\ shown' \union dropped' = shown \union dropped \union {Head(p)}
  <2>1. ~Idle(p) /\ Emitting(p)
    BY DEF EmitEvent, DropEvent, Emitting
  <2>2. up /\ Head(p) \in Ids
    BY <2>1, HeadToDo, PollTyped, RunsUp
  <2>. QED
    BY <2>1, <2>2 DEF EmitEvent, DropEvent
<1>2. /\ {file', cursor', first', base'} \subseteq Cursor /\ up' \in BOOLEAN
      /\ shown' \union dropped' \subseteq Ids /\ faults' \in 0 .. Faults
      /\ cursor' # None => file' # None
  BY <1>1 DEF TypeOK
<1>3. TypeOK' /\ Counted'
  BY <1>1, <1>2, Skipped, TypeKept
<1>4. Held'
  BY <1>1, Skipped, HeldKept DEF Held, Primes
<1>. QED
  BY <1>3, <1>4 DEF Typed

LEMMA TypedFinishPage ==
  ASSUME Typed, NEW p \in Polls, FinishPage(p)
  PROVE  Typed'
<1>. TypeOK /\ Held
  BY DEF Typed
<1>1. ~Idle(p) /\ poll[p].from \in Cursor /\ poll[p].next \in Cursor
  BY PollTyped DEF FinishPage, Done
<1>2. UNCHANGED <<log, ms, up, shown, dropped, first, base, faults>>
  BY DEF FinishPage, disk, history
<1>3. base' \in Cursor /\ faults' \in 0 .. Faults /\ file \in Cursor
  BY <1>2 DEF TypeOK
<1>4. CASE poll[p].next = None
  <2>1. Return(p, poll[p].from) /\ file' = file /\ file # None
    BY <1>4 DEF FinishPage, Done, Held
  <2>. QED
    BY <1>1, <1>2, <1>3, <2>1, TypedReturn
<1>5. CASE poll[p].next # None
  <2>1. Return(p, poll[p].next) /\ file' = poll[p].next
    BY <1>5 DEF FinishPage, Persist, Written
  <2>. QED
    BY <1>1, <1>2, <1>3, <1>5, <2>1, TypedReturn
<1>. QED
  BY <1>4, <1>5

LEMMA TypedFaults ==
  ASSUME Typed, NEW p \in Polls, UpdatesNotOk(p) \/ PollThrows(p)
  PROVE  Typed'
<1>. TypeOK /\ Held
  BY DEF Typed
<1>1. /\ ~Idle(p) /\ poll[p].from \in Cursor /\ cursor \in Cursor
      /\ file \in Cursor /\ base \in Cursor
  BY PollTyped DEF UpdatesNotOk, PollThrows, TypeOK
<1>2. UNCHANGED <<log, ms, up, shown, dropped, first, base, file>>
  BY DEF UpdatesNotOk, PollThrows, disk, history
<1>3. faults' \in 0 .. Faults
  BY FaultTyped DEF UpdatesNotOk, PollThrows
<1>4. CASE UpdatesNotOk(p)
  <2>1. Return(p, poll[p].from) /\ (poll[p].from # None => file # None)
    BY <1>1, <1>4 DEF UpdatesNotOk, Held, Primes
  <2>. QED
    BY <1>1, <1>2, <1>3, <2>1, TypedReturn
<1>5. CASE PollThrows(p)
  <2>1. Return(p, cursor) /\ (cursor # None => file # None)
    BY <1>5 DEF PollThrows, Return, TypeOK
  <2>. QED
    BY <1>1, <1>2, <1>3, <2>1, TypedReturn
<1>. QED
  BY <1>4, <1>5

LEMMA TypedProcess ==
  ASSUME Typed, Stop \/ Start
  PROVE  Typed'
<1>. TypeOK /\ Held
  BY DEF Typed
<1>1. UNCHANGED disk /\ UNCHANGED <<file, shown, dropped, first, base>>
  BY DEF Stop, Start, disk, history
<1>2. CASE Stop
  <2>1. /\ up' = FALSE /\ cursor' = None /\ poll' = [q \in Polls |-> None]
        /\ faults' \in 0 .. Faults
    BY <1>2, FaultTyped DEF Stop
  <2>2. TypeOK' /\ Counted'
    <3>1. /\ {file', cursor', first', base'} \subseteq Cursor /\ up' \in BOOLEAN
          /\ poll' \in [Polls -> Poll \union {None}]
          /\ shown' \union dropped' \subseteq Ids
      BY <1>1, <2>1 DEF TypeOK, Cursor
    <3>. QED
      BY <1>1, <2>1, <3>1, TypeKept
  <2>3. Held'
    BY <2>1 DEF Held, Idle
  <2>. QED
    BY <2>2, <2>3 DEF Typed
<1>3. CASE Start
  <2>1. up' = TRUE /\ cursor' = file /\ poll' = poll /\ faults' = faults
    BY <1>3 DEF Start, Loaded
  <2>2. TypeOK' /\ Counted'
    <3>1. /\ {file', cursor', first', base'} \subseteq Cursor /\ up' \in BOOLEAN
          /\ poll' \in [Polls -> Poll \union {None}]
          /\ shown' \union dropped' \subseteq Ids /\ faults' \in 0 .. Faults
          /\ cursor' # None => file' # None
      BY <1>1, <2>1 DEF TypeOK, Cursor
    <3>. QED
      BY <1>1, <2>1, <3>1, TypeKept
  <2>3. Held'
    BY <1>1, <2>1 DEF Held, Idle, Primes
  <2>. QED
    BY <2>2, <2>3 DEF Typed
<1>. QED
  BY <1>2, <1>3

LEMMA TypedStep == Typed /\ [Next]_vars => Typed'
<1>. SUFFICES ASSUME Typed, [Next]_vars
              PROVE  Typed'
  OBVIOUS
<1>1. ASSUME NEW k \in Kinds, AppendEvent(k)
      PROVE  Typed'
  BY <1>1, TypedAppend
<1>2. ASSUME NEW p \in Polls, StartPoll(p) \/ Work(p)
      PROVE  Typed'
  BY <1>2, TypedStartPoll, TypedGetUpdates, TypedPrimeOn, TypedFinishPriming,
     TypedSkip, TypedFinishPage DEF Work
<1>3. ASSUME NEW p \in Polls, UpdatesNotOk(p) \/ PollThrows(p)
      PROVE  Typed'
  BY <1>3, TypedFaults
<1>4. CASE Stop \/ Start
  BY <1>4, TypedProcess
<1>5. CASE UNCHANGED vars
  BY <1>5 DEF vars, Typed, TypeOK, Counted, Held, Idle, Primes
<1>. QED
  BY <1>1, <1>2, <1>3, <1>4, <1>5 DEF Next

\* Every state of the channel has the types the code gives it, whatever the
\* page sizes and however the polls overlap and fail: among others, a process
\* that stopped leaves no poll, and a cursor in memory comes from the file or is
\* in it (the values of pollChannelOnce and its callers).
THEOREM TypeCorrect == Spec => []TypeOK
<1>1. Spec => []Typed
  BY TypedInit, TypedStep, PTL DEF Spec
<1>2. Typed => TypeOK
  BY DEF Typed
<1>. QED
  BY <1>1, <1>2, PTL

-----------------------------------------------------------------------------
(***************************************************************************)
(* Every cursor is an event of the log, or the one of the empty log.       *)
(***************************************************************************)
Cursors == DOMAIN log \union {Empty, None}

AllKnown ==
  /\ {file, cursor, base, first} \subseteq Cursors
  /\ \A p \in Polls :
       ~Idle(p) => {poll[p].from, poll[p].at, poll[p].next} \subseteq Cursors

LEMMA KnownKept ==
  ASSUME AllKnown, log' = log, NEW p \in Polls, OthersStay(p),
         {file', cursor', base', first'} \subseteq Cursors,
         poll'[p] = None
           \/ {poll'[p].from, poll'[p].at, poll'[p].next} \subseteq Cursors
  PROVE  AllKnown'
<1>1. Cursors' = Cursors
  BY DEF Cursors
<1>2. ASSUME NEW q \in Polls, poll'[q] # None
      PROVE  {poll'[q].from, poll'[q].at, poll'[q].next} \subseteq Cursors
  <2>1. CASE q = p
    BY <1>2, <2>1
  <2>2. CASE q # p
    BY <1>2, <2>2 DEF OthersStay, AllKnown, Idle
  <2>. QED
    BY <2>1, <2>2
<1>. QED
  BY <1>1, <1>2 DEF AllKnown, Idle

LEMMA KnownInit == Init => AllKnown
  BY DEF Init, AllKnown, Cursors, Idle

LEMMA KnownStep == Typed /\ AllKnown /\ [Next]_vars => AllKnown'
<1>. SUFFICES ASSUME Typed, AllKnown, [Next]_vars
              PROVE  AllKnown'
  OBVIOUS
<1>. TypeOK
  BY DEF Typed
<1>a. {file, cursor, base, first, None, Empty} \subseteq Cursors
  BY DEF AllKnown, Cursors
<1>b. ASSUME NEW p \in Polls, ~Idle(p)
      PROVE  {poll[p].from, poll[p].at, poll[p].next, ReadTo(p)} \subseteq Cursors
  BY <1>b DEF AllKnown, ReadTo
<1>1. ASSUME NEW k \in Kinds, AppendEvent(k)
      PROVE  AllKnown'
  <2>1. DOMAIN log \subseteq DOMAIN log'
    BY <1>1, Appended
  <2>2. UNCHANGED <<file, cursor, poll, first, base>>
    BY <1>1 DEF AppendEvent
  <2>. QED
    BY <2>1, <2>2 DEF AllKnown, Cursors, Idle
<1>2. ASSUME NEW p \in Polls, StartPoll(p)
      PROVE  AllKnown'
  <2>1. UNCHANGED <<log, file, cursor, base>>
    BY <1>2 DEF StartPoll, disk
  <2>2. first' \in Cursors /\ Since(cursor) \in Cursors
    BY <1>a, <1>2 DEF StartPoll, Cursors, Since
  <2>3. /\ OthersStay(p) /\ poll'[p].from = cursor
        /\ poll'[p].at = Since(cursor) /\ poll'[p].next = None
    BY <1>2, Started
  <2>. QED
    BY <1>a, <2>1, <2>2, <2>3, KnownKept
<1>3. ASSUME NEW p \in Polls, GetUpdates(p)
      PROVE  AllKnown'
  <2>1. UNCHANGED <<log, file, cursor, base, first>> /\ ~Idle(p)
    BY <1>3 DEF GetUpdates, disk
  <2>2. /\ OthersStay(p) /\ poll'[p].from = poll[p].from
        /\ poll'[p].at = poll[p].at /\ poll'[p].next \in DOMAIN log \union {None}
    BY <1>3, Answered
  <2>3. poll'[p].next \in Cursors
    BY <2>2 DEF Cursors
  <2>. QED
    BY <1>a, <1>b, <2>1, <2>2, <2>3, KnownKept
<1>4. ASSUME NEW p \in Polls, PrimeOn(p)
      PROVE  AllKnown'
  <2>1. UNCHANGED <<log, file, cursor, base, first>> /\ ~Idle(p)
    BY <1>4 DEF PrimeOn, Primed, disk
  <2>2. /\ OthersStay(p) /\ poll'[p].from = poll[p].from
        /\ poll'[p].at = ReadTo(p) /\ poll'[p].next = None
    BY <1>4, PrimedOn
  <2>. QED
    BY <1>a, <1>b, <2>1, <2>2, KnownKept
<1>5. ASSUME NEW p \in Polls, FinishPriming(p)
      PROVE  AllKnown'
  <2>1. UNCHANGED <<log, first>> /\ ~Idle(p) /\ End(p)
    BY <1>5 DEF FinishPriming, Primed, Persist, Return, disk
  <2>2. {file', cursor', base'} \subseteq Cursors
    BY <1>a, <1>b, <1>5, <2>1 DEF FinishPriming, Persist, Return, Written
  <2>. QED
    BY <1>a, <2>1, <2>2, Ended, KnownKept
<1>6. ASSUME NEW p \in Polls, EmitEvent(p) \/ DropEvent(p)
      PROVE  AllKnown'
  <2>1. UNCHANGED <<log, file, cursor, base, first>> /\ ~Idle(p) /\ Skip(p)
    BY <1>6 DEF EmitEvent, DropEvent, Emitting, disk
  <2>2. /\ OthersStay(p) /\ poll'[p].from = poll[p].from
        /\ poll'[p].at = poll[p].at /\ poll'[p].next = poll[p].next
    BY <2>1, Skipped
  <2>. QED
    BY <1>a, <1>b, <2>1, <2>2, KnownKept
<1>7. ASSUME NEW p \in Polls, FinishPage(p) \/ UpdatesNotOk(p) \/ PollThrows(p)
      PROVE  AllKnown'
  <2>1. UNCHANGED <<log, base, first>> /\ ~Idle(p) /\ End(p)
    BY <1>7 DEF FinishPage, Done, UpdatesNotOk, PollThrows, Persist, Return, disk
  <2>2. {file', cursor'} \subseteq Cursors
    BY <1>a, <1>b, <1>7, <2>1
    DEF FinishPage, UpdatesNotOk, PollThrows, Persist, Return, Written
  <2>. QED
    BY <1>a, <2>1, <2>2, Ended, KnownKept
<1>8. CASE Stop \/ Start
  <2>1. UNCHANGED <<log, file, base, first>> /\ cursor' \in {None, file}
    BY <1>8 DEF Stop, Start, Loaded, disk
  <2>2. poll' = poll \/ \A q \in Polls : poll'[q] = None
    BY <1>8 DEF Stop, Start
  <2>. QED
    BY <2>1, <2>2 DEF AllKnown, Cursors, Idle
<1>9. CASE UNCHANGED vars
  BY <1>9 DEF vars, AllKnown, Cursors, Idle
<1>. QED
  BY <1>1, <1>2, <1>3, <1>4, <1>5, <1>6, <1>7, <1>8, <1>9 DEF Next, Work

-----------------------------------------------------------------------------
(***************************************************************************)
(* Priming: with no overlap a poll that primes runs alone, and the session *)
(* has a file once its first priming has returned.                         *)
(***************************************************************************)
PrimesAlone == \A p \in Polls :
  ~Idle(p) /\ Primes(p) => cursor = None /\ \A q \in Polls \ {p} : Idle(q)

FileHasBase ==
  /\ up /\ cursor = None => file = None
  /\ file = None <=> base = None

LEMMA AloneInit == Init => PrimesAlone /\ FileHasBase
  BY DEF Init, PrimesAlone, FileHasBase, Idle

\* A poll that goes on keeps its kind.
LEMMA AloneKept ==
  ASSUME PrimesAlone, NEW p \in Polls, ~Idle(p), OthersStay(p),
         cursor' = cursor, poll'[p].from = poll[p].from
  PROVE  PrimesAlone'
<1>. SUFFICES ASSUME NEW q \in Polls, poll'[q] # None, poll'[q].from = None
              PROVE  cursor' = None /\ \A r \in Polls \ {q} : poll'[r] = None
  BY DEF PrimesAlone, Idle, Primes
<1>1. CASE q = p
  BY <1>1 DEF PrimesAlone, OthersStay, Idle, Primes
<1>2. CASE q # p
  BY <1>2 DEF PrimesAlone, OthersStay, Idle, Primes
<1>. QED
  BY <1>1, <1>2

\* When a poll has returned, none that is left primes.
LEMMA AloneEnded ==
  ASSUME TypeOK, PrimesAlone, NEW p \in Polls, ~Idle(p), End(p)
  PROVE  PrimesAlone'
<1>1. poll'[p] = None /\ OthersStay(p)
  BY Ended
<1>. SUFFICES ASSUME NEW q \in Polls, poll'[q] # None, poll'[q].from = None
              PROVE  FALSE
  BY DEF PrimesAlone, Idle, Primes
<1>2. q # p /\ poll[q] # None /\ poll[q].from = None
  BY <1>1 DEF OthersStay
<1>. QED
  BY <1>2 DEF PrimesAlone, Idle, Primes

LEMMA AloneStep ==
  ASSUME ~OverlapPriming
  PROVE  Typed /\ PrimesAlone /\ FileHasBase /\ [Next]_vars
           => PrimesAlone' /\ FileHasBase'
<1>. SUFFICES ASSUME Typed, PrimesAlone, FileHasBase, [Next]_vars
              PROVE  PrimesAlone' /\ FileHasBase'
  OBVIOUS
<1>. TypeOK
  BY DEF Typed
<1>1. ASSUME NEW k \in Kinds, AppendEvent(k)
      PROVE  PrimesAlone' /\ FileHasBase'
  BY <1>1 DEF AppendEvent, PrimesAlone, FileHasBase, Idle, Primes
<1>2. ASSUME NEW p \in Polls, StartPoll(p)
      PROVE  PrimesAlone' /\ FileHasBase'
  <2>1. UNCHANGED <<file, cursor, up, base>>
    BY <1>2 DEF StartPoll
  <2>2. OthersStay(p) /\ poll'[p].from = cursor
    BY <1>2, Started
  <2>3. CASE cursor = None
    <3>1. \A q \in Polls : Idle(q)
      BY <1>2, <2>3 DEF StartPoll
    <3>2. \A q \in Polls \ {p} : poll'[q] = None
      BY <2>2, <3>1 DEF OthersStay, Idle
    <3>. QED
      BY <2>1, <2>3, <3>2 DEF PrimesAlone, FileHasBase, Idle, Primes
  <2>4. CASE cursor # None
    <3>1. \A q \in Polls : poll'[q] # None => poll'[q].from # None
      BY <2>2, <2>4 DEF OthersStay, PrimesAlone, Idle, Primes
    <3>. QED
      BY <2>1, <3>1 DEF PrimesAlone, FileHasBase, Idle, Primes
  <2>. QED
    BY <2>3, <2>4
<1>3. ASSUME NEW p \in Polls,
             GetUpdates(p) \/ PrimeOn(p) \/ EmitEvent(p) \/ DropEvent(p)
      PROVE  PrimesAlone' /\ FileHasBase'
  <2>1. UNCHANGED <<file, cursor, up, base>> /\ ~Idle(p)
    BY <1>3 DEF GetUpdates, PrimeOn, Primed, EmitEvent, DropEvent, Emitting
  <2>2. OthersStay(p) /\ poll'[p].from = poll[p].from
    BY <1>3, <2>1, Answered, PrimedOn, Skipped DEF EmitEvent, DropEvent
  <2>. QED
    BY <2>1, <2>2, AloneKept DEF FileHasBase
<1>4. ASSUME NEW p \in Polls, FinishPriming(p)
      PROVE  PrimesAlone' /\ FileHasBase'
  <2>1. ~Idle(p) /\ End(p) /\ ReadTo(p) # None
    BY <1>4 DEF FinishPriming, Primed, Persist, Return, ReadTo, Typed, Held
  <2>2. file' # None /\ cursor' # None /\ base' # None
    BY <1>4, <2>1 DEF FinishPriming, Persist, Return, Written
  <2>. QED
    BY <2>1, <2>2, AloneEnded DEF FileHasBase
<1>5. ASSUME NEW p \in Polls, FinishPage(p)
      PROVE  PrimesAlone' /\ FileHasBase'
  <2>1. ~Idle(p) /\ End(p) /\ poll[p].from # None /\ base' = base /\ file # None
    BY <1>5 DEF FinishPage, Done, Primes, Persist, Return, Typed, Held
  <2>2. file' # None /\ cursor' # None
    BY <1>5, <2>1 DEF FinishPage, Persist, Return, Written
  <2>. QED
    BY <2>1, <2>2, AloneEnded DEF FileHasBase
<1>6. ASSUME NEW p \in Polls, UpdatesNotOk(p) \/ PollThrows(p)
      PROVE  PrimesAlone' /\ FileHasBase'
  <2>1. ~Idle(p) /\ End(p) /\ UNCHANGED <<file, base, up>>
    BY <1>6 DEF UpdatesNotOk, PollThrows, Return
  <2>2. cursor' = cursor \/ cursor' = poll[p].from
    BY <1>6 DEF UpdatesNotOk, PollThrows, Return
  <2>3. up
    BY <2>1, RunsUp
  <2>4. cursor' = None => file = None
    BY <2>1, <2>2, <2>3 DEF FileHasBase, PrimesAlone, Primes
  <2>. QED
    BY <2>1, <2>4, AloneEnded DEF FileHasBase
<1>7. CASE Stop \/ Start
  BY <1>7 DEF Stop, Start, Loaded, PrimesAlone, FileHasBase, Idle, TypeOK
<1>8. CASE UNCHANGED vars
  BY <1>8 DEF vars, PrimesAlone, FileHasBase, Idle, Primes
<1>. QED
  BY <1>1, <1>2, <1>3, <1>4, <1>5, <1>6, <1>7, <1>8 DEF Next, Work

-----------------------------------------------------------------------------
(***************************************************************************)
(* Nothing is skipped, while ids ascend and the first priming runs alone.  *)
(***************************************************************************)

\* An event that is appended has a greater id than those before it.
IdsAscend ==
  \A new \in DOMAIN log' \ DOMAIN log : \A id \in DOMAIN log : id < new

Pending == Due \ Settled

\* What poll p still owes of the pending event id: it began before the event,
\* and a page that reaches it has it to emit.
Owes(p, id) ==
  /\ ~Primes(p) => poll[p].from < id
  /\ poll[p].pc = "page" /\ poll[p].next # None =>
       id \in poll[p].todo \/ poll[p].next < id

Behind == \A id \in Pending :
  /\ file # None => file < id
  /\ cursor # None => cursor < id
  /\ \A p \in Polls : ~Idle(p) => Owes(p, id)

LEMMA BehindInit == Init => Behind
  BY DEF Init, Behind, Pending, Due

LEMMA PendingTyped ==
  ASSUME TypeOK
  PROVE  Pending \subseteq DOMAIN log /\ Pending \subseteq Ids
  BY DEF TypeOK, Pending, Due, Visible

\* Events leave Pending, and one enters it only by being appended or when the
\* first priming returns.
LEMMA PendingShrinks ==
  ASSUME log' = log, base' = base, shown \subseteq shown', dropped \subseteq dropped'
  PROVE  Pending' \subseteq Pending
  BY DEF Pending, Due, Settled, Visible

LEMMA BehindKept ==
  ASSUME TypeOK, Behind, Pending' \subseteq Pending, NEW p \in Polls, OthersStay(p),
         \A id \in Pending' :
           /\ file' # None => file' < id
           /\ cursor' # None => cursor' < id
           /\ poll'[p] # None =>
                /\ poll'[p].from # None => poll'[p].from < id
                /\ poll'[p].pc = "page" /\ poll'[p].next # None =>
                     id \in poll'[p].todo \/ poll'[p].next < id
  PROVE  Behind'
<1>. SUFFICES ASSUME NEW id \in Pending', NEW q \in Polls, poll'[q] # None
              PROVE  /\ poll'[q].from # None => poll'[q].from < id
                     /\ poll'[q].pc = "page" /\ poll'[q].next # None =>
                          id \in poll'[q].todo \/ poll'[q].next < id
  BY DEF Behind, Owes, Idle, Primes
<1>1. CASE q = p
  BY <1>1
<1>2. CASE q # p
  BY <1>2 DEF OthersStay, Behind, Owes, Idle, Primes
<1>. QED
  BY <1>1, <1>2

LEMMA BehindAppend ==
  ASSUME Typed, AllKnown, Behind, IdsAscend, NEW k \in Kinds, AppendEvent(k)
  PROVE  Behind'
<1>. TypeOK
  BY DEF Typed
<1>1. PICK new \in Ids \ DOMAIN log :
        /\ DOMAIN log' = DOMAIN log \union {new}
        /\ log'[new] = k /\ \A id \in DOMAIN log : log'[id] = log[id]
  BY Appended
<1>2. UNCHANGED <<file, cursor, poll, shown, dropped, base>>
  BY DEF AppendEvent, history
<1>3. Pending' \subseteq Pending \union {new}
  <2>. SUFFICES ASSUME NEW id \in Pending', id # new
                PROVE  id \in Pending
    OBVIOUS
  <2>1. id \in DOMAIN log /\ log'[id] = log[id]
    BY <1>1 DEF Pending, Due, Visible
  <2>. QED
    BY <1>2, <2>1 DEF Pending, Due, Settled, Visible
<1>4. \A c \in Cursors : c # None => c < new
  BY <1>1, IdsAreNumbers DEF IdsAscend, Cursors, Empty
<1>5. ASSUME NEW id \in Pending'
      PROVE  /\ file # None => file < id
             /\ cursor # None => cursor < id
             /\ \A p \in Polls : ~Idle(p) => Owes(p, id)
  <2>1. CASE id \in Pending
    BY <2>1 DEF Behind
  <2>2. CASE id = new
    BY <1>4, <2>2 DEF AllKnown, Owes, Primes
  <2>. QED
    BY <1>3, <2>1, <2>2
<1>. QED
  BY <1>2, <1>5 DEF Behind, Owes, Idle, Primes

LEMMA BehindStartPoll ==
  ASSUME Typed, Behind, NEW p \in Polls, StartPoll(p)
  PROVE  Behind'
<1>. TypeOK
  BY DEF Typed
<1>1. UNCHANGED <<log, file, cursor, base, shown, dropped>>
  BY DEF StartPoll, disk, history
<1>2. /\ OthersStay(p) /\ poll'[p].pc = "ask" /\ poll'[p].from = cursor
      /\ poll'[p].next = None
  BY Started
<1>3. Pending' \subseteq Pending
  BY <1>1, PendingShrinks
<1>. QED
  BY <1>1, <1>2, <1>3, BehindKept DEF Behind

\* While a poll primes alone nothing is due, or the poll is not a priming one.
LEMMA NoneDueWhilePriming ==
  ASSUME TypeOK, PrimesAlone, FileHasBase, NEW p \in Polls, ~Idle(p), Primes(p)
  PROVE  Pending = {} /\ base = None
<1>1. base = None
  BY RunsUp DEF PrimesAlone, FileHasBase
<1>. QED
  BY <1>1 DEF Pending, Due

LEMMA BehindGetUpdates ==
  ASSUME Typed, PrimesAlone, FileHasBase, Behind, NEW p \in Polls, GetUpdates(p)
  PROVE  Behind'
<1>. TypeOK
  BY DEF Typed
<1>1. UNCHANGED <<log, file, cursor, base, shown, dropped>> /\ ~Idle(p)
  BY DEF GetUpdates, disk, history
<1>2. Pending' \subseteq Pending
  BY <1>1, PendingShrinks
<1>3. PICK c \in DOMAIN log \union {None} :
        /\ OthersStay(p) /\ poll'[p].from = poll[p].from
        /\ poll'[p].next = c /\ poll'[p].todo = PageTo(c, poll[p].at)
  BY Answered
<1>4. ASSUME NEW id \in Pending'
      PROVE  /\ poll[p].from # None /\ poll[p].from < id
             /\ c # None => id \in PageTo(c, poll[p].at) \/ c < id
  <2>1. /\ ~Primes(p) /\ poll[p].from < id /\ poll[p].at = poll[p].from
    BY <1>1, <1>2, NoneDueWhilePriming DEF Behind, Owes, Typed, Held
  <2>2. id \in DOMAIN log /\ id \in Nat /\ log[id] # "hidden"
    BY <1>2, PendingTyped, IdsAreNumbers DEF Pending, Due, Visible
  <2>3. CASE c # None
    <3>1. c \in DOMAIN log /\ c \in Nat
      BY <2>3, IdsAreNumbers DEF TypeOK
    <3>2. CASE id <= c
      <4>1. id \in Looked(poll[p].at, c)
        BY <2>1, <2>2, <3>2 DEF Looked
      <4>2. id \in Visible(Looked(poll[p].at, c))
        BY <2>2, <4>1 DEF Visible
      <4>. QED
        BY <2>1, <2>3, <4>2 DEF PageTo, Primes
    <3>3. CASE c < id
      BY <2>1, <3>3 DEF Primes
    <3>. QED
      BY <2>1, <2>2, <3>1, <3>2, <3>3 DEF Primes
  <2>4. CASE c = None
    BY <2>1, <2>4 DEF Primes
  <2>. QED
    BY <2>3, <2>4
<1>. QED
  BY <1>1, <1>2, <1>3, <1>4, BehindKept DEF Behind

LEMMA BehindPrimeOn ==
  ASSUME Typed, Behind, NEW p \in Polls, PrimeOn(p)
  PROVE  Behind'
<1>. TypeOK
  BY DEF Typed
<1>1. UNCHANGED <<log, file, cursor, base, shown, dropped>> /\ Primes(p)
  BY DEF PrimeOn, Primed, disk, history
<1>2. /\ OthersStay(p) /\ poll'[p].pc = "ask" /\ poll'[p].from = None
      /\ poll'[p].next = None
  BY <1>1, PrimedOn DEF Primes
<1>3. Pending' \subseteq Pending
  BY <1>1, PendingShrinks
<1>. QED
  BY <1>1, <1>2, <1>3, BehindKept DEF Behind

\* The first priming to return leaves due what comes after the cursor that it
\* returns, which is in memory and in the file.
LEMMA BehindFinishPriming ==
  ASSUME Typed, PrimesAlone, FileHasBase, NEW p \in Polls, FinishPriming(p)
  PROVE  Behind'
<1>. TypeOK
  BY DEF Typed
<1>1. ~Idle(p) /\ Primes(p)
  BY DEF FinishPriming, Primed
<1>2. base = None /\ \A q \in Polls \ {p} : Idle(q)
  BY <1>1, NoneDueWhilePriming DEF PrimesAlone
<1>3. /\ base' = ReadTo(p) /\ file' = ReadTo(p) /\ cursor' = ReadTo(p) /\ End(p)
      /\ log' = log
  BY <1>2 DEF FinishPriming, Persist, Return, Written, disk
<1>4. ReadTo(p) # None
  BY <1>1 DEF ReadTo, Typed, Held
<1>5. \A q \in Polls : poll'[q] = None
  BY <1>2, <1>3, Ended DEF OthersStay, Idle
<1>6. \A id \in Pending' : id > ReadTo(p)
  BY <1>3, <1>4 DEF Pending, Due, Visible
<1>7. /\ \A id \in Pending' : id \in Nat
      /\ ReadTo(p) \in Nat
  <2>1. Pending' \subseteq DOMAIN log
    BY <1>3 DEF Pending, Due, Visible
  <2>2. ReadTo(p) \in Cursor
    BY <1>1, PollTyped DEF ReadTo
  <2>. QED
    BY <1>4, <2>1, <2>2, IdsAreNumbers DEF TypeOK
<1>. QED
  BY <1>3, <1>5, <1>6, <1>7 DEF Behind, Idle

\* The event that is emitted, or dropped as chatter, is pending no more.
LEMMA BehindSkip ==
  ASSUME Typed, Behind, NEW p \in Polls, EmitEvent(p) \/ DropEvent(p)
  PROVE  Behind'
<1>. TypeOK
  BY DEF Typed
<1>1. UNCHANGED <<log, file, cursor, base>> /\ ~Idle(p) /\ Skip(p)
  BY DEF EmitEvent, DropEvent, Emitting, disk
<1>2. shown \subseteq shown' /\ dropped \subseteq dropped'
  BY DEF EmitEvent, DropEvent
<1>3. Pending' \subseteq Pending
  BY <1>1, <1>2, PendingShrinks
<1>4. Head(p) \notin Pending'
  BY <1>1 DEF EmitEvent, DropEvent, MayDrop, Pending, Settled
<1>5. /\ OthersStay(p) /\ poll'[p].pc = poll[p].pc
      /\ poll'[p].from = poll[p].from /\ poll'[p].next = poll[p].next
      /\ poll'[p].todo = poll[p].todo \ {Head(p)}
  BY <1>1, Skipped
<1>6. ASSUME NEW id \in Pending'
      PROVE  /\ poll[p].from # None => poll[p].from < id
             /\ poll[p].pc = "page" /\ poll[p].next # None =>
                  id \in poll[p].todo \ {Head(p)} \/ poll[p].next < id
  BY <1>1, <1>3, <1>4 DEF Behind, Owes, Primes
<1>. QED
  BY <1>1, <1>3, <1>5, <1>6, BehindKept DEF Behind

\* A poll that has returned leaves the cursors behind what is pending if those
\* it sets are.
LEMMA BehindEnded ==
  ASSUME TypeOK, Behind, NEW p \in Polls, End(p),
         UNCHANGED <<log, base, shown, dropped>>,
         \A id \in Pending : /\ file' # None => file' < id
                             /\ cursor' # None => cursor' < id
  PROVE  Behind'
<1>1. Pending' \subseteq Pending
  BY PendingShrinks
<1>. QED
  BY <1>1, Ended, BehindKept

LEMMA BehindReturns ==
  ASSUME Typed, Behind,
         NEW p \in Polls, FinishPage(p) \/ UpdatesNotOk(p) \/ PollThrows(p)
  PROVE  Behind'
<1>. TypeOK
  BY DEF Typed
<1>1. /\ UNCHANGED <<log, base, shown, dropped>> /\ ~Idle(p) /\ End(p)
  BY DEF FinishPage, Done, UpdatesNotOk, PollThrows, Persist, Return, disk, history
<1>2. CASE FinishPage(p) /\ poll[p].next # None
  <2>1. file' = poll[p].next /\ cursor' = poll[p].next
    BY <1>2 DEF FinishPage, Persist, Return, Written
  <2>2. \A id \in Pending : poll[p].next < id
    BY <1>1, <1>2 DEF FinishPage, Done, Behind, Owes
  <2>. QED
    BY <1>1, <2>1, <2>2, BehindEnded
<1>3. CASE file' = file /\ cursor' \in {cursor, poll[p].from}
  <2>1. \A id \in Pending : poll[p].from # None => poll[p].from < id
    BY <1>1 DEF Behind, Owes, Primes
  <2>. QED
    BY <1>1, <1>3, <2>1, BehindEnded DEF Behind
<1>. QED
  BY <1>2, <1>3 DEF FinishPage, UpdatesNotOk, PollThrows, Return

LEMMA BehindProcess ==
  ASSUME Behind, Stop \/ Start
  PROVE  Behind'
<1>1. UNCHANGED <<log, file, base, shown, dropped>> /\ cursor' \in {None, file}
  BY DEF Stop, Start, Loaded, disk, history
<1>2. Pending' \subseteq Pending
  BY <1>1, PendingShrinks
<1>3. poll' = poll \/ \A q \in Polls : poll'[q] = None
  BY DEF Stop, Start
<1>. QED
  BY <1>1, <1>2, <1>3 DEF Behind, Owes, Idle, Primes

LEMMA BehindStep ==
  Typed /\ AllKnown /\ PrimesAlone /\ FileHasBase /\ Behind /\ [Next]_vars /\ IdsAscend
    => Behind'
<1>. SUFFICES ASSUME Typed, AllKnown, PrimesAlone, FileHasBase, Behind,
                     [Next]_vars, IdsAscend
              PROVE  Behind'
  OBVIOUS
<1>1. ASSUME NEW k \in Kinds, AppendEvent(k)
      PROVE  Behind'
  BY <1>1, BehindAppend
<1>2. ASSUME NEW p \in Polls, StartPoll(p) \/ Work(p)
      PROVE  Behind'
  BY <1>2, BehindStartPoll, BehindGetUpdates, BehindPrimeOn, BehindFinishPriming,
     BehindSkip, BehindReturns DEF Work
<1>3. ASSUME NEW p \in Polls, UpdatesNotOk(p) \/ PollThrows(p)
      PROVE  Behind'
  BY <1>3, BehindReturns
<1>4. CASE Stop \/ Start
  BY <1>4, BehindProcess
<1>5. CASE UNCHANGED vars
  BY <1>5 DEF vars, Behind, Pending, Due, Settled, Visible, Owes, Idle, Primes
<1>. QED
  BY <1>1, <1>2, <1>3, <1>4, <1>5 DEF Next

\* As long as ids ascend and the timer waits for the first priming, no cursor of
\* channel.ts passes an event that was neither shown nor dropped as chatter,
\* whatever polls overlap, throw, are answered with errors or are cut off by a
\* restart (pollChannelOnce, its tick, and the cursor file).
THEOREM NothingSkippedAscending ==
  ASSUME ~OverlapPriming
  PROVE  Spec /\ [][IdsAscend]_vars => []NothingSkipped
<1>. DEFINE Inv == Typed /\ AllKnown /\ PrimesAlone /\ FileHasBase /\ Behind
<1>1. Init => Inv
  BY TypedInit, KnownInit, AloneInit, BehindInit
<1>2. Inv /\ [Next]_vars /\ [IdsAscend]_vars => Inv'
  <2>. SUFFICES ASSUME Inv, [Next]_vars, [IdsAscend]_vars
                PROVE  Inv'
    OBVIOUS
  <2>1. CASE IdsAscend
    BY <2>1, TypedStep, KnownStep, AloneStep, BehindStep
  <2>2. CASE UNCHANGED vars
    <3>1. IdsAscend
      BY <2>2 DEF IdsAscend, vars
    <3>. QED
      BY <3>1, TypedStep, KnownStep, AloneStep, BehindStep
  <2>. QED
    BY <2>1, <2>2
<1>3. Inv => NothingSkipped
  BY DEF Behind, Pending, NothingSkipped
<1>. QED
  BY <1>1, <1>2, <1>3, PTL DEF Spec

\* With one id a millisecond ids do ascend: the log is dense.
Dense == DOMAIN log = 1 .. ms

LEMMA DenseStep ==
  ASSUME Burst = 1
  PROVE  Typed /\ Dense /\ [Next]_vars => Dense' /\ IdsAscend
<1>. SUFFICES ASSUME Typed, Dense, [Next]_vars
              PROVE  Dense' /\ IdsAscend
  OBVIOUS
<1>1. ms \in Nat
  BY DEF Typed, TypeOK
<1>2. ASSUME NEW k \in Kinds, AppendEvent(k)
      PROVE  Dense' /\ IdsAscend
  <2>1. PICK new \in Ids \ DOMAIN log :
          /\ ms' \in {ms, ms + 1} \ {0} /\ new \in IdsOf(ms')
          /\ DOMAIN log' = DOMAIN log \union {new}
    BY <1>2, Appended
  <2>2. ms' \in Nat /\ new = ms'
    <3>1. ms' \in Nat
      BY <1>1, <2>1
    <3>2. PICK b \in 1 .. 1 : new = ((ms' - 1) * 1) + b
      BY <2>1 DEF IdsOf
    <3>3. \A m \in Nat : \A a \in 1 .. 1 : ((m - 1) * 1) + a = m
      OBVIOUS
    <3>. QED
      BY <3>1, <3>2, <3>3
  <2>3. ms' = ms + 1
    BY <1>1, <2>1, <2>2 DEF Dense
  <2>. QED
    BY <1>1, <2>1, <2>2, <2>3 DEF Dense, IdsAscend
<1>3. ASSUME UNCHANGED <<log, ms>>
      PROVE  Dense' /\ IdsAscend
  BY <1>3 DEF Dense, IdsAscend
<1>4. (\E k \in Kinds : AppendEvent(k)) \/ UNCHANGED <<log, ms>>
  BY DEF Next, Work, StartPoll, GetUpdates, PrimeOn, FinishPriming, EmitEvent,
     DropEvent, FinishPage, UpdatesNotOk, PollThrows, Stop, Start, vars, disk
<1>. QED
  BY <1>2, <1>3, <1>4

\* The same for a server that draws one id a millisecond.
THEOREM NothingSkippedCorrect ==
  ASSUME ~OverlapPriming, Burst = 1
  PROVE  Spec => []NothingSkipped
<1>1. Init => Typed /\ Dense
  BY TypedInit DEF Init, Dense
<1>2. Typed /\ Dense /\ [Next]_vars => (Typed /\ Dense)' /\ IdsAscend
  BY TypedStep, DenseStep
<1>3. Spec => [][IdsAscend]_vars
  BY <1>1, <1>2, PTL DEF Spec
<1>. QED
  BY <1>3, NothingSkippedAscending, PTL

-----------------------------------------------------------------------------
(***************************************************************************)
(* No replay, while the server's scan reaches the end of a priming page.   *)
(***************************************************************************)
Hidden == {id \in DOMAIN log : log[id] = "hidden"}

\* The rows looked at for one page are enough for the whole log, or for a
\* priming page and every event that is hidden from this member.
ScanReaches ==
  \/ Cardinality(DOMAIN log) <= ScanLimit
  \/ PrimeLimit + Cardinality(Hidden) <= ScanLimit

LEMMA LookedTyped ==
  ASSUME TypeOK, NEW since, NEW c
  PROVE  /\ Looked(since, c) \subseteq DOMAIN log
         /\ Visible(Looked(since, c)) \subseteq DOMAIN log
         /\ Visible(Looked(since, c) \ {c}) \subseteq DOMAIN log
         /\ Hidden \subseteq DOMAIN log
  BY DEF Looked, Visible, Hidden

\* A priming page goes on to an event as long as it has room for one more.
LEMMA FitsOneMore ==
  ASSUME TypeOK, ScanReaches, NEW since, NEW d \in DOMAIN log, d > since,
         Cardinality(Visible(Looked(since, d) \ {d})) < PrimeLimit
  PROVE  Fits(d, since, PrimeLimit)
<1>. DEFINE L == Looked(since, d)
            V == Visible(Looked(since, d) \ {d})
<1>1. Cardinality(L) <= ScanLimit
  <2>1. CASE Cardinality(DOMAIN log) <= ScanLimit
    <3>1. /\ Cardinality(L) <= Cardinality(DOMAIN log)
          /\ Cardinality(L) \in Nat /\ Cardinality(DOMAIN log) \in Nat
      BY LookedTyped, LogIsFinite
    <3>. QED
      BY <2>1, <3>1, Bounds
  <2>2. CASE PrimeLimit + Cardinality(Hidden) <= ScanLimit
    <3>1. /\ IsFiniteSet(V) /\ Cardinality(V) \in Nat
          /\ IsFiniteSet(Hidden) /\ Cardinality(Hidden) \in Nat
      BY LookedTyped, LogIsFinite
    <3>2. /\ IsFiniteSet(V \union {d})
          /\ Cardinality(V \union {d}) <= Cardinality(V) + 1
          /\ Cardinality(V \union {d}) \in Nat
      <4>1. /\ IsFiniteSet(V \union {d})
            /\ Cardinality(V \union {d})
                 = IF d \in V THEN Cardinality(V) ELSE Cardinality(V) + 1
        BY <3>1, FS_AddElement
      <4>. HIDE DEF V
      <4>2. Cardinality(V \union {d}) <= Cardinality(V) + 1
        BY <3>1, <4>1
      <4>. QED
        BY <4>1, <4>2, FS_CardinalityType
    <3>3. /\ IsFiniteSet((V \union {d}) \union Hidden)
          /\ Cardinality((V \union {d}) \union Hidden)
               = Cardinality(V \union {d}) + Cardinality(Hidden)
                   - Cardinality((V \union {d}) \cap Hidden)
      BY <3>1, <3>2, FS_Union
    <3>4. Cardinality((V \union {d}) \cap Hidden) \in Nat
      BY <3>1, <3>2, FS_Intersection, FS_CardinalityType
    <3>5. L \subseteq (V \union {d}) \union Hidden
      BY DEF Visible, Hidden, Looked
    <3>6. /\ Cardinality(L) <= Cardinality((V \union {d}) \union Hidden)
          /\ Cardinality(L) \in Nat
      BY <3>3, <3>5, FS_Subset, FS_CardinalityType
    <3>7. Cardinality(V) < PrimeLimit
      OBVIOUS
    <3>. HIDE DEF L, V
    <3>. QED
      BY <2>2, <3>1, <3>2, <3>3, <3>4, <3>6, <3>7, Bounds
  <2>. QED
    BY <2>1, <2>2 DEF ScanReaches
<1>. QED
  BY <1>1 DEF Fits

\* When a priming page is short, the log has nothing after it.
LEMMA ShortPageIsLast ==
  ASSUME TypeOK, ScanReaches, NEW since \in Nat, NEW c,
         NextCursor(c, since, PrimeLimit),
         Cardinality(PageTo(c, since)) < PrimeLimit
  PROVE  \A id \in DOMAIN log : id <= IF c = None THEN since ELSE c
<1>. DEFINE r == IF c = None THEN since ELSE c
            After == {id \in DOMAIN log : id > r}
<1>1. DOMAIN log \subseteq Nat
  BY IdsAreNumbers DEF TypeOK
<1>2. c # None => c \in DOMAIN log /\ c > since
  BY IdsAreNumbers DEF NextCursor, Fits, TypeOK
<1>3. r \in Nat /\ r >= since
  BY <1>1, <1>2
<1>4. SUFFICES ASSUME After # {}
               PROVE  FALSE
  BY <1>1, <1>3
<1>5. PICK d \in After : \A e \in After : d <= e
  BY <1>1, <1>4, LeastOf
<1>6. d \in DOMAIN log /\ d \in Nat /\ d > r
  BY <1>1, <1>5
<1>7. Visible(Looked(since, d) \ {d}) \subseteq PageTo(c, since)
  <2>. SUFFICES ASSUME NEW id \in DOMAIN log, log[id] # "hidden",
                       since < id, id <= d, id # d
                PROVE  id \in PageTo(c, since)
    BY DEF Visible, Looked
  <2>1. id \in Nat /\ id < d
    BY <1>1, <1>6
  <2>2. id <= r
    <3>1. CASE id > r
      <4>1. id \in After
        BY <3>1
      <4>. QED
        BY <1>5, <1>6, <2>1, <4>1
    <3>. HIDE DEF r
    <3>. QED
      BY <1>3, <2>1, <3>1
  <2>3. c # None /\ id <= c
    BY <2>1, <2>2
  <2>4. id \in Looked(since, c)
    BY <2>3 DEF Looked
  <2>. QED
    BY <2>3, <2>4 DEF PageTo, Visible
<1>8. /\ Cardinality(Visible(Looked(since, d) \ {d})) < PrimeLimit
  <2>1. PageTo(c, since) \subseteq DOMAIN log
    BY LookedTyped DEF PageTo
  <2>2. IsFiniteSet(PageTo(c, since)) /\ Cardinality(PageTo(c, since)) \in Nat
    BY <2>1, LogIsFinite
  <2>3. /\ Cardinality(Visible(Looked(since, d) \ {d}))
             <= Cardinality(PageTo(c, since))
        /\ Cardinality(Visible(Looked(since, d) \ {d})) \in Nat
    BY <1>7, <2>2, FS_Subset, FS_CardinalityType
  <2>. QED
    BY <2>2, <2>3, Bounds
<1>9. Fits(d, since, PrimeLimit)
  BY <1>3, <1>6, <1>8, FitsOneMore
<1>10. c # None /\ d <= c
  <2>. DEFINE ends == {e \in DOMAIN log : Fits(e, since, PrimeLimit)}
  <2>1. d \in ends
    BY <1>6, <1>9
  <2>2. c \in ends /\ \A e \in ends : e <= c
    BY <2>1, Zenon DEF NextCursor
  <2>3. c \in DOMAIN log /\ None \notin DOMAIN log
    BY <1>1, <2>2, IdsAreNumbers
  <2>. QED
    BY <2>1, <2>2, <2>3
<1>. QED
  BY <1>1, <1>2, <1>6, <1>10

\* Once the first poll has begun, no cursor is older than what it found.
Past(c) == c # None => first # None /\ c >= first

PollPast(p) ==
  /\ first # None
  /\ Past(poll[p].from)
  /\ poll[p].pc = "page" =>
       /\ poll[p].next # None => poll[p].next > poll[p].at
       /\ \A id \in poll[p].todo : id > poll[p].at
       /\ Primes(p) /\ Last(p) => ReadTo(p) >= first

AllPast ==
  /\ Past(file) /\ Past(cursor)
  /\ \A p \in Polls : ~Idle(p) => PollPast(p)

LEMMA PastInit == Init => AllPast /\ NoReplay
  BY DEF Init, AllPast, Past, NoReplay, Idle

LEMMA PastKept ==
  ASSUME AllPast, NEW p \in Polls, OthersStay(p), first' = first,
         Past(file'), Past(cursor'),
         poll'[p] # None =>
           /\ first # None
           /\ Past(poll'[p].from)
           /\ poll'[p].pc = "page" =>
                /\ poll'[p].next # None => poll'[p].next > poll'[p].at
                /\ \A id \in poll'[p].todo : id > poll'[p].at
                /\ poll'[p].from = None /\ Cardinality(poll'[p].todo) < PrimeLimit
                     => (IF poll'[p].next = None THEN poll'[p].at
                         ELSE poll'[p].next) >= first
  PROVE  AllPast'
<1>1. ASSUME NEW q \in Polls, poll'[q] # None
      PROVE  PollPast(q)'
  <2>1. CASE q = p
    BY <1>1, <2>1 DEF PollPast, Past, Primes, Last, ReadTo
  <2>2. CASE q # p
    BY <1>1, <2>2 DEF OthersStay, AllPast, PollPast, Past, Primes, Last, ReadTo, Idle
  <2>. QED
    BY <2>1, <2>2
<1>2. Past(file)' /\ Past(cursor)'
  BY DEF Past
<1>. QED
  BY <1>1, <1>2 DEF AllPast, Idle

LEMMA PastStartPoll ==
  ASSUME Typed, AllPast, NEW p \in Polls, StartPoll(p)
  PROVE  AllPast'
<1>. TypeOK
  BY DEF Typed
<1>1. UNCHANGED <<log, file, cursor>> /\ first' # None
  BY IdsAreNumbers DEF StartPoll, disk, TypeOK
<1>2. first # None => first' = first
  BY DEF StartPoll
<1>3. /\ OthersStay(p) /\ poll'[p].pc = "ask" /\ poll'[p].from = cursor
  BY Started
<1>4. CASE first # None
  BY <1>1, <1>2, <1>3, <1>4, PastKept DEF AllPast
<1>5. CASE first = None
  <2>1. file = None /\ cursor = None /\ \A q \in Polls : poll[q] = None
    BY <1>5 DEF AllPast, PollPast, Past, Idle
  <2>2. \A q \in Polls \ {p} : poll'[q] = None
    BY <1>3, <2>1 DEF OthersStay
  <2>. QED
    BY <1>1, <1>3, <2>1, <2>2 DEF AllPast, PollPast, Past, Idle
<1>. QED
  BY <1>4, <1>5

LEMMA PastGetUpdates ==
  ASSUME Typed, AllKnown, AllPast, ScanReaches, NEW p \in Polls, GetUpdates(p)
  PROVE  AllPast'
<1>. TypeOK
  BY DEF Typed
<1>1. UNCHANGED <<log, file, cursor, first>> /\ ~Idle(p)
  BY DEF GetUpdates, disk
<1>2. PICK c \in DOMAIN log \union {None} :
        /\ OthersStay(p) /\ poll'[p].from = poll[p].from
        /\ poll'[p].at = poll[p].at
        /\ NextCursor(c, poll[p].at,
                      IF Primes(p) THEN PrimeLimit ELSE PageLimit)
        /\ poll'[p].next = c /\ poll'[p].todo = PageTo(c, poll[p].at)
  BY Answered
<1>3. first # None /\ Past(poll[p].from)
  BY <1>1 DEF AllPast, PollPast
<1>4. poll[p].at \in Nat /\ DOMAIN log \subseteq Nat
  BY <1>1, PollTyped, IdsAreNumbers DEF Typed, Held, TypeOK
<1>5. c # None => c > poll[p].at
  BY <1>2, <1>4, IdsAreNumbers DEF NextCursor, Fits
<1>6. \A id \in PageTo(c, poll[p].at) : id > poll[p].at
  BY <1>4 DEF PageTo, Visible, Looked
<1>7. ASSUME Primes(p), Cardinality(PageTo(c, poll[p].at)) < PrimeLimit
      PROVE  (IF c = None THEN poll[p].at ELSE c) >= first
  <2>1. NextCursor(c, poll[p].at, PrimeLimit)
    BY <1>2, <1>7
  <2>2. \A id \in DOMAIN log : id <= IF c = None THEN poll[p].at ELSE c
    BY <1>4, <1>7, <2>1, ShortPageIsLast
  <2>3. first \in DOMAIN log \union {0}
    BY <1>3 DEF AllKnown, Cursors, Empty
  <2>4. (IF c = None THEN poll[p].at ELSE c) \in Nat
    BY <1>2, <1>4
  <2>. QED
    BY <1>4, <2>2, <2>3, <2>4
<1>. QED
  BY <1>1, <1>2, <1>3, <1>5, <1>6, <1>7, PastKept DEF AllPast, Primes

LEMMA PastPrimeOn ==
  ASSUME Typed, AllPast, NEW p \in Polls, PrimeOn(p)
  PROVE  AllPast'
<1>. TypeOK
  BY DEF Typed
<1>1. UNCHANGED <<file, cursor, first>> /\ ~Idle(p)
  BY DEF PrimeOn, Primed
<1>2. /\ OthersStay(p) /\ poll'[p].pc = "ask" /\ poll'[p].from = poll[p].from
  BY PrimedOn
<1>. QED
  BY <1>1, <1>2, PastKept DEF AllPast, PollPast

LEMMA PastSkip ==
  ASSUME Typed, AllPast, NoReplay, NEW p \in Polls, EmitEvent(p) \/ DropEvent(p)
  PROVE  AllPast' /\ NoReplay'
<1>. TypeOK
  BY DEF Typed
<1>1. /\ UNCHANGED <<file, cursor, first>> /\ ~Idle(p) /\ Skip(p) /\ Emitting(p)
      /\ shown' \subseteq shown \union {Head(p)}
  BY DEF EmitEvent, DropEvent, Emitting
<1>2. /\ OthersStay(p) /\ poll'[p].from = poll[p].from
      /\ poll'[p].at = poll[p].at /\ poll'[p].next = poll[p].next
      /\ poll'[p].todo = poll[p].todo \ {Head(p)}
  BY <1>1, Skipped
<1>3. /\ poll[p].from # None /\ first # None /\ poll[p].from >= first
      /\ poll[p].next # None => poll[p].next > poll[p].at
      /\ \A id \in poll[p].todo : id > poll[p].at
  BY <1>1 DEF AllPast, PollPast, Past, Emitting, Primes
<1>4. AllPast'
  BY <1>1, <1>2, <1>3, PastKept DEF AllPast, Past
<1>5. Head(p) > first
  <2>1. Head(p) > poll[p].at /\ Head(p) \in Nat
    BY <1>1, <1>3, HeadToDo, PollTyped, IdsAreNumbers
  <2>2. poll[p].at = poll[p].from /\ poll[p].at \in Nat /\ first \in Nat
    BY <1>1, <1>3, PollTyped, IdsAreNumbers DEF Typed, Held, Primes, TypeOK
  <2>. QED
    BY <1>3, <2>1, <2>2
<1>6. NoReplay'
  BY <1>1, <1>3, <1>5 DEF NoReplay
<1>. QED
  BY <1>4, <1>6

LEMMA PastReturns ==
  ASSUME Typed, AllPast,
         NEW p \in Polls, \/ FinishPriming(p) \/ FinishPage(p)
                          \/ UpdatesNotOk(p) \/ PollThrows(p)
  PROVE  AllPast'
<1>. TypeOK
  BY DEF Typed
<1>1. ~Idle(p) /\ End(p) /\ UNCHANGED <<log, first>>
  BY DEF FinishPriming, Primed, FinishPage, Done, UpdatesNotOk, PollThrows,
         Persist, Return, disk
<1>2. poll'[p] = None /\ OthersStay(p)
  BY <1>1, Ended
<1>3. PollPast(p) /\ first # None
  BY <1>1 DEF AllPast, PollPast
<1>4. CASE FinishPriming(p)
  <2>1. file' = ReadTo(p) /\ cursor' = ReadTo(p)
    BY <1>4 DEF FinishPriming, Persist, Return, Written
  <2>2. ReadTo(p) >= first
    BY <1>3, <1>4 DEF FinishPriming, Primed, PollPast
  <2>3. Past(file') /\ Past(cursor')
    BY <1>3, <2>1, <2>2 DEF Past
  <2>. QED
    BY <1>1, <1>2, <2>3, PastKept
<1>5. CASE FinishPage(p) /\ poll[p].next # None
  <2>1. file' = poll[p].next /\ cursor' = poll[p].next
    BY <1>5 DEF FinishPage, Persist, Return, Written
  <2>2. /\ poll[p].next > poll[p].at /\ poll[p].at = poll[p].from
        /\ poll[p].from >= first
    BY <1>1, <1>3, <1>5 DEF FinishPage, Done, PollPast, Past, Primes, Typed, Held
  <2>3. poll[p].next \in Nat /\ poll[p].at \in Nat /\ first \in Nat
    BY <1>1, <1>3, <1>5, PollTyped, IdsAreNumbers DEF Typed, Held, TypeOK
  <2>4. Past(file') /\ Past(cursor')
    BY <1>3, <2>1, <2>2, <2>3 DEF Past
  <2>. QED
    BY <1>1, <1>2, <2>4, PastKept
<1>6. CASE file' = file /\ cursor' \in {cursor, poll[p].from}
  <2>1. Past(file') /\ Past(cursor')
    BY <1>3, <1>6 DEF AllPast, PollPast
  <2>. QED
    BY <1>1, <1>2, <2>1, PastKept
<1>. QED
  BY <1>4, <1>5, <1>6 DEF FinishPage, UpdatesNotOk, PollThrows, Return

LEMMA PastStep ==
  Typed /\ AllKnown /\ AllPast /\ NoReplay /\ [Next]_vars /\ ScanReaches
    => AllPast' /\ NoReplay'
<1>. SUFFICES ASSUME Typed, AllKnown, AllPast, NoReplay, [Next]_vars, ScanReaches
              PROVE  AllPast' /\ NoReplay'
  OBVIOUS
<1>1. ASSUME NEW k \in Kinds, AppendEvent(k)
      PROVE  AllPast' /\ NoReplay'
  BY <1>1 DEF AppendEvent, history, AllPast, PollPast, Past, Primes, Last, ReadTo,
     Idle, NoReplay
<1>2. ASSUME NEW p \in Polls, StartPoll(p)
      PROVE  AllPast' /\ NoReplay'
  BY <1>2, PastStartPoll DEF StartPoll, history, NoReplay
<1>3. ASSUME NEW p \in Polls, GetUpdates(p) \/ PrimeOn(p)
      PROVE  AllPast' /\ NoReplay'
  BY <1>3, PastGetUpdates, PastPrimeOn DEF GetUpdates, PrimeOn, history, NoReplay
<1>4. ASSUME NEW p \in Polls, EmitEvent(p) \/ DropEvent(p)
      PROVE  AllPast' /\ NoReplay'
  BY <1>4, PastSkip
<1>5. ASSUME NEW p \in Polls, \/ FinishPriming(p) \/ FinishPage(p)
                              \/ UpdatesNotOk(p) \/ PollThrows(p)
      PROVE  AllPast' /\ NoReplay'
  BY <1>5, PastReturns
  DEF FinishPriming, FinishPage, UpdatesNotOk, PollThrows, history, NoReplay
<1>6. CASE Stop \/ Start
  BY <1>6 DEF Stop, Start, Loaded, history, AllPast, PollPast, Past, Primes, Last,
     ReadTo, Idle, NoReplay
<1>7. CASE UNCHANGED vars
  BY <1>7 DEF vars, history, AllPast, PollPast, Past, Primes, Last, ReadTo, Idle,
     NoReplay
<1>. QED
  BY <1>1, <1>2, <1>3, <1>4, <1>5, <1>6, <1>7 DEF Next, Work

\* As long as the 1000 rows the server looks at for a page reach (the log, or
\* the 100 events of a priming page among those hidden from this member), a
\* session announces nothing that was in the log when its first poll began,
\* whatever polls overlap (also while priming), fail or are cut off by restarts
\* (primeCursorToLatest, pollChannelOnce).
THEOREM NoReplayScanned == Spec /\ []ScanReaches => []NoReplay
<1>. DEFINE Inv == Typed /\ AllKnown /\ AllPast /\ NoReplay
<1>1. Init => Inv
  BY TypedInit, KnownInit, PastInit
<1>2. Inv /\ ScanReaches /\ [Next]_vars => Inv'
  BY TypedStep, KnownStep, PastStep
<1>3. Inv => NoReplay
  OBVIOUS
<1>. QED
  BY <1>1, <1>2, <1>3, PTL DEF Spec

\* The same for a log that is never longer than the scan.
THEOREM NoReplayCorrect ==
  ASSUME MaxLog <= ScanLimit
  PROVE  Spec => []NoReplay
<1>1. TypeOK => ScanReaches
  <2>. SUFFICES ASSUME TypeOK
                PROVE  ScanReaches
    OBVIOUS
  <2>1. Cardinality(DOMAIN log) <= MaxLog /\ Cardinality(DOMAIN log) \in Nat
    BY LogIsFinite DEF TypeOK
  <2>. QED
    BY <2>1, Bounds DEF ScanReaches
<1>. QED
  BY <1>1, TypeCorrect, NoReplayScanned, PTL

=============================================================================
