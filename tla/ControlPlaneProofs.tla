------------------------- MODULE ControlPlaneProofs -------------------------
(***************************************************************************)
(* Theorems about module ControlPlane: its safety properties, for any      *)
(* number of calls in flight, any trial, clock, codes and rows.            *)
(***************************************************************************)
EXTENDS ControlPlane, SequenceTheorems, TLAPS

LEMMA Bounds ==
  /\ Trial \in Nat /\ MaxTime \in Nat /\ MaxCode \in Nat /\ MaxSpaces \in Nat
  /\ Trial > 0 /\ MaxTime > 0 /\ MaxCode > 0 /\ MaxSpaces > 0
  BY ControlPlaneAssumption

-----------------------------------------------------------------------------
(***************************************************************************)
(* Rows.                                                                   *)
(***************************************************************************)

\* A sequence keeps its type and its length when one element is replaced.
LEMMA Replaced ==
  ASSUME NEW T, NEW s \in Seq(T), NEW t, NEW i, NEW x,
         i \in DOMAIN s => x \in T, t = [s EXCEPT ![i] = x]
  PROVE  /\ t \in Seq(T) /\ Len(t) = Len(s) /\ DOMAIN t = DOMAIN s
         /\ \A j \in DOMAIN s : t[j] = IF j = i THEN x ELSE s[j]
<1>1. PICK n \in Nat : DOMAIN s = 1 .. n
  OBVIOUS
<1>2. /\ DOMAIN t = 1 .. n
      /\ \A j \in 1 .. n : t[j] = IF j = i THEN x ELSE s[j]
  BY <1>1
<1>3. \A j \in 1 .. n : t[j] \in T
  BY <1>1, <1>2
<1>4. t \in [1 .. n -> T]
  BY <1>2, <1>3
<1>5. t \in Seq(T)
  BY <1>4
<1>6. Len(s) = n /\ Len(t) = n
  BY <1>1, <1>2, <1>5
<1>. QED
  BY <1>1, <1>2, <1>5, <1>6

\* A row is read with its type.
LEMMA RowTyped ==
  ASSUME TypeOK
  PROVE  /\ \A i \in DOMAIN cp : cp[i] \in Row /\ i \in 1 .. MaxSpaces
         /\ \A k \in DOMAIN rt : rt[k] \in RuntimeRow /\ k \in 1 .. MaxSpaces
<1>1. DOMAIN cp = 1 .. Len(cp) /\ DOMAIN rt = 1 .. Len(rt)
  BY DEF TypeOK
<1>2. Len(cp) \in Nat /\ Len(rt) \in Nat /\ MaxSpaces \in Nat
  BY Bounds DEF TypeOK
<1>3. \A i \in DOMAIN cp : cp[i] \in Row
  BY DEF TypeOK
<1>4. \A k \in DOMAIN rt : rt[k] \in RuntimeRow
  BY DEF TypeOK
<1>. QED
  BY <1>1, <1>2, <1>3, <1>4 DEF TypeOK

-----------------------------------------------------------------------------
(***************************************************************************)
(* Calls: what each of the ways to change one does.                        *)
(***************************************************************************)
OthersStay(c) == \A d \in Calls : d # c => call'[d] = call[d]

LEMMA EndCall ==
  ASSUME TypeOK, NEW c \in Calls, End(c)
  PROVE  /\ call' \in [Calls -> Call \union {None}]
         /\ call'[c] = None
         /\ OthersStay(c)
  BY DEF TypeOK, End, OthersStay

LEMMA GotoCall ==
  ASSUME TypeOK, NEW c \in Calls, ~Idle(c), NEW pc \in {"sent", "orphan"},
         Goto(c, pc)
  PROVE  /\ call' \in [Calls -> Call \union {None}]
         /\ call'[c] = [call[c] EXCEPT !.pc = pc]
         /\ call'[c] \in Call
         /\ OthersStay(c)
<1>1. call[c] \in Call
  BY DEF TypeOK, Idle
<1>2. [call[c] EXCEPT !.pc = pc] \in Call
  BY <1>1 DEF Call
<1>3. call' = [call EXCEPT ![c] = [call[c] EXCEPT !.pc = pc]]
  BY DEF Goto
<1>. QED
  BY <1>2, <1>3 DEF TypeOK, OthersStay

LEMMA BeginCall ==
  ASSUME TypeOK, NEW c \in Calls,
         NEW op \in {"provision", "rotate", "delete", "dashboard"},
         NEW pc \in {"insert", "mark", "sent"},
         NEW i, i = 0 \/ i \in DOMAIN cp, NEW t \in Expiry,
         Begin(c, op, pc, i, t)
  PROVE  /\ call' \in [Calls -> Call \union {None}]
         /\ call'[c] \in Call
         /\ call'[c].op = op /\ call'[c].pc = pc /\ call'[c].space = i
         /\ call'[c].trial = t
         /\ i # 0 => /\ call'[c].runtime = cp[i].runtime
                     /\ call'[c].shown = cp[i].shown
         /\ OthersStay(c)
<1> DEFINE r == [op |-> op, pc |-> pc, space |-> i, trial |-> t, alone |-> TRUE,
                 runtime |-> IF i = 0 THEN 0 ELSE cp[i].runtime,
                 shown |-> IF i = 0 THEN 0 ELSE cp[i].shown]
<1>1. i # 0 => /\ i \in 1 .. MaxSpaces /\ cp[i].runtime \in 0 .. MaxSpaces
               /\ cp[i].shown \in 0 .. MaxCode
  BY RowTyped DEF Row
<1>2. /\ i \in 0 .. MaxSpaces
      /\ (IF i = 0 THEN 0 ELSE cp[i].runtime) \in 0 .. MaxSpaces
      /\ (IF i = 0 THEN 0 ELSE cp[i].shown) \in 0 .. MaxCode
  BY <1>1, Bounds
<1>3. r \in Call
  BY <1>2 DEF Call
<1>4. call' = [call EXCEPT ![c] = r]
  BY DEF Begin
<1>5. /\ call' \in [Calls -> Call \union {None}]
      /\ call'[c] = r /\ OthersStay(c)
  BY <1>3, <1>4 DEF TypeOK, OthersStay
<1>. QED
  BY <1>3, <1>5

\* An answer ends an orphan, and is kept by any other call.
Answered(c, runtime, code) ==
    \/ call'[c] = None
    \/ /\ call'[c] \in Call
       /\ call'[c].pc = "answered"
       /\ call'[c].runtime = runtime /\ call'[c].shown = code
       /\ call'[c].op = call[c].op /\ call'[c].space = call[c].space
       /\ call'[c].trial = call[c].trial /\ call'[c].alone = call[c].alone

LEMMA AnswerCall ==
  ASSUME TypeOK, NEW c \in Calls, ~Idle(c),
         NEW k \in 0 .. MaxSpaces, NEW n \in 0 .. MaxCode, AnswerWith(c, k, n)
  PROVE  /\ call' \in [Calls -> Call \union {None}]
         /\ Answered(c, k, n)
         /\ OthersStay(c)
<1>1. call[c] \in Call
  BY DEF TypeOK, Idle
<1> DEFINE r == [call[c] EXCEPT !.pc = "answered", !.runtime = k, !.shown = n]
<1>2. r \in Call
  BY <1>1 DEF Call
<1>3. call' = [call EXCEPT ![c] = IF call[c].pc = "orphan" THEN None ELSE r]
  BY DEF AnswerWith
<1>4. /\ call' \in [Calls -> Call \union {None}]
      /\ call'[c] = None \/ call'[c] = r
      /\ OthersStay(c)
  BY <1>2, <1>3 DEF TypeOK, OthersStay
<1>5. call'[c] = r => Answered(c, k, n)
  BY <1>1, <1>2 DEF Answered, Call
<1>. QED
  BY <1>4, <1>5 DEF Answered

-----------------------------------------------------------------------------
(***************************************************************************)
(* Types.  TypeOK needs to know that a request names a row.                *)
(***************************************************************************)
Named(c) == call[c].pc # "insert" => call[c].space \in DOMAIN cp

CallsNamed == \A c \in Calls : ~Idle(c) => Named(c)

LEMMA TypeInit == Init => TypeOK
<1> SUFFICES ASSUME Init
             PROVE  TypeOK
  OBVIOUS
<1>1. cp \in Seq(Row) /\ rt \in Seq(RuntimeRow) /\ Len(cp) = 0 /\ Len(rt) = 0
  BY DEF Init
<1>2. call \in [Calls -> Call \union {None}] /\ cp = <<>>
  BY DEF Init
<1>3. /\ granted \in BOOLEAN /\ doubt \in BOOLEAN /\ rotations \in SUBSET Rotation
      /\ now = 0
  BY DEF Init
<1>4. Len(cp) <= MaxSpaces /\ Len(rt) <= MaxSpaces /\ DOMAIN cp = {}
  BY <1>1, <1>2, Bounds
<1>5. 0 \in 0 .. MaxTime
  BY Bounds
<1>. QED
  BY <1>1, <1>2, <1>3, <1>4, <1>5 DEF TypeOK

\* A member of TypeOK that a step leaves to a few facts about what it changed.
LEMMA TypeFrame ==
  ASSUME TypeOK,
         cp' = cp \/ (/\ cp' \in Seq(Row) /\ Len(cp') <= MaxSpaces
                      /\ \A i \in DOMAIN cp' :
                           cp'[i].status = "pending" => cp'[i].runtime = 0),
         rt' = rt \/ (rt' \in Seq(RuntimeRow) /\ Len(rt') <= MaxSpaces),
         rotations' \in SUBSET Rotation,
         call' \in [Calls -> Call \union {None}],
         granted' \in BOOLEAN, doubt' \in BOOLEAN, now' \in 0 .. MaxTime
  PROVE  TypeOK'
  BY DEF TypeOK

\* What a step on one row of cloud_spaces does to the others.
SpaceWritten(i, row) ==
    /\ Len(cp') = Len(cp) /\ DOMAIN cp' = DOMAIN cp
    /\ \A j \in DOMAIN cp : cp'[j] = IF j = i THEN row ELSE cp[j]

\* The steps that write one row of cloud_spaces and end the call.
LEMMA TypeRowWritten ==
  ASSUME TypeOK, NEW c \in Calls, End(c), NEW i, NEW row,
         i \in DOMAIN cp => row \in Row /\ (row.status = "pending" => row.runtime = 0),
         cp' = [cp EXCEPT ![i] = row],
         UNCHANGED <<granted, rt, rotations, now>>, doubt' \in BOOLEAN
  PROVE  TypeOK' /\ SpaceWritten(i, row) /\ call'[c] = None /\ OthersStay(c)
<1>1. cp \in Seq(Row) /\ Len(cp) <= MaxSpaces
  BY DEF TypeOK
<1>2. /\ cp' \in Seq(Row) /\ Len(cp') = Len(cp) /\ DOMAIN cp' = DOMAIN cp
      /\ \A j \in DOMAIN cp : cp'[j] = IF j = i THEN row ELSE cp[j]
  BY <1>1, Replaced
<1>3. \A j \in DOMAIN cp' : cp'[j].status = "pending" => cp'[j].runtime = 0
  BY <1>2 DEF TypeOK
<1>4. /\ call' \in [Calls -> Call \union {None}]
      /\ call'[c] = None /\ OthersStay(c)
  BY EndCall
<1>5. TypeOK'
  BY <1>1, <1>2, <1>3, <1>4, TypeFrame DEF TypeOK
<1>. QED
  BY <1>2, <1>4, <1>5 DEF SpaceWritten

LEMMA TypeMarkCloudSpaceProvisioned ==
  ASSUME TypeOK, NEW c \in Calls, MarkCloudSpaceProvisioned(c)
  PROVE  LET i == call[c].space
         IN /\ TypeOK' /\ OthersStay(c) /\ call'[c] = None /\ call[c] \in Call
            /\ SpaceWritten(i, [cp[i] EXCEPT !.status = "active",
                                                 !.runtime = call[c].runtime,
                                                 !.shown = call[c].shown])
<1> DEFINE i == call[c].space
           row == [cp[i] EXCEPT !.status = "active", !.runtime = call[c].runtime,
                                !.shown = call[c].shown]
<1>1. call[c] \in Call
  BY DEF TypeOK, MarkCloudSpaceProvisioned, At
<1>2. i \in DOMAIN cp => row \in Row /\ row.status # "pending"
  BY <1>1, RowTyped DEF Row, Call, Statuses
<1>3. cp' = [cp EXCEPT ![i] = row]
  BY DEF MarkCloudSpaceProvisioned, ProvisionedStatus
<1>4. /\ End(c) /\ UNCHANGED <<granted, rt, rotations, now>> /\ doubt' \in BOOLEAN
  BY DEF MarkCloudSpaceProvisioned, TypeOK
<1>. QED
  BY <1>1, <1>2, <1>3, <1>4, TypeRowWritten

LEMMA TypeUpdateRoomCodeDisplay ==
  ASSUME TypeOK, NEW c \in Calls, UpdateRoomCodeDisplay(c)
  PROVE  LET i == call[c].space
         IN /\ TypeOK' /\ OthersStay(c) /\ call'[c] = None /\ call[c] \in Call
            /\ SpaceWritten(i, [cp[i] EXCEPT !.shown = call[c].shown])
<1> DEFINE i == call[c].space
           row == [cp[i] EXCEPT !.shown = call[c].shown]
<1>1. call[c] \in Call
  BY DEF TypeOK, UpdateRoomCodeDisplay, At
<1>2. i \in DOMAIN cp => /\ row \in Row /\ row.status = cp[i].status
                         /\ row.runtime = cp[i].runtime
  BY <1>1, RowTyped DEF Row, Call
<1>3. cp' = [cp EXCEPT ![i] = row]
  BY DEF UpdateRoomCodeDisplay
<1>4. i \in DOMAIN cp => (row.status = "pending" => row.runtime = 0)
  BY <1>2 DEF TypeOK
<1>5. /\ End(c) /\ UNCHANGED <<granted, rt, rotations, now>> /\ doubt' \in BOOLEAN
  BY DEF UpdateRoomCodeDisplay, TypeOK
<1>. QED
  BY <1>1, <1>2, <1>3, <1>4, <1>5, TypeRowWritten

\* The steps that write a status no space is provisioned under.
LEMMA TypeStatusWritten ==
  ASSUME TypeOK, NEW c \in Calls, End(c), NEW i,
         NEW s, i \in DOMAIN cp => s \in Statuses /\ (s = "pending" => cp[i].status = "pending"),
         cp' = [cp EXCEPT ![i].status = s],
         UNCHANGED <<granted, rt, rotations, doubt, now>>
  PROVE  /\ TypeOK' /\ SpaceWritten(i, [cp[i] EXCEPT !.status = s])
         /\ call'[c] = None /\ OthersStay(c)
<1> DEFINE row == [cp[i] EXCEPT !.status = s]
<1>1. i \in DOMAIN cp => /\ row \in Row /\ row.status = s
                         /\ row.runtime = cp[i].runtime
  BY RowTyped DEF Row
<1>2. i \in DOMAIN cp => (row.status = "pending" => row.runtime = 0)
  BY <1>1 DEF TypeOK
<1>. QED
  BY <1>1, <1>2, TypeRowWritten DEF TypeOK

LEMMA TypeMarkCloudSpaceDeleted ==
  ASSUME TypeOK, NEW c \in Calls, MarkCloudSpaceDeleted(c)
  PROVE  LET i == call[c].space
         IN /\ TypeOK' /\ OthersStay(c) /\ call'[c] = None /\ call[c] \in Call
            /\ SpaceWritten(i, [cp[i] EXCEPT !.status = "deleted"])
<1>1. call[c] \in Call
  BY DEF MarkCloudSpaceDeleted, Confirmed, At, TypeOK
<1>. QED
  BY <1>1, TypeStatusWritten DEF MarkCloudSpaceDeleted, Statuses

LEMMA TypeMarkExpiredSuspended ==
  ASSUME TypeOK, NEW c \in Calls, MarkExpiredSuspended(c)
  PROVE  LET i == call[c].space
         IN /\ TypeOK' /\ OthersStay(c) /\ call'[c] = None /\ call[c] \in Call
            /\ SpaceWritten(i, [cp[i] EXCEPT !.status =
                 IF @ \in {"pending", "active"} THEN "suspended" ELSE @])
<1> DEFINE i == call[c].space
           s == IF cp[i].status \in {"pending", "active"} THEN "suspended"
                ELSE cp[i].status
<1>1. cp' = [cp EXCEPT ![i].status = s]
  BY DEF MarkExpiredSuspended
<1>2. i \in DOMAIN cp => s \in Statuses /\ (s = "pending" => cp[i].status = "pending")
  BY RowTyped DEF Row, Statuses
<1>3. call[c] \in Call
  BY DEF MarkExpiredSuspended, At, TypeOK
<1>4. End(c) /\ UNCHANGED <<granted, rt, rotations, doubt, now>>
  BY DEF MarkExpiredSuspended
<1>. QED
  BY <1>1, <1>2, <1>3, <1>4, TypeStatusWritten

LEMMA TypeUpdateResolvedPolicy ==
  ASSUME TypeOK, NEW c \in Calls, UpdateResolvedPolicy(c)
  PROVE  LET i == call[c].space
         IN /\ TypeOK' /\ OthersStay(c) /\ call'[c] = None /\ call[c] \in Call
            /\ SpaceWritten(i, [cp[i] EXCEPT !.trial = call[c].trial,
                                   !.status = Unsuspended(@, call[c].trial)])
<1> DEFINE i == call[c].space
           row == [cp[i] EXCEPT !.trial = call[c].trial,
                                !.status = Unsuspended(@, call[c].trial)]
<1>1. call[c] \in Call
  BY DEF TypeOK, UpdateResolvedPolicy, Applied, At
<1>2. i \in DOMAIN cp =>
        /\ row \in Row /\ row.runtime = cp[i].runtime
        /\ row.status = "pending" => cp[i].status = "pending"
  BY <1>1, RowTyped DEF Row, Call, Unsuspended, Statuses
<1>3. cp' = [cp EXCEPT ![i] = row]
  BY DEF UpdateResolvedPolicy
<1>4. i \in DOMAIN cp => (row.status = "pending" => row.runtime = 0)
  BY <1>2 DEF TypeOK
<1>5. doubt' \in BOOLEAN
  BY <1>1 DEF UpdateResolvedPolicy, Call
<1>6. End(c) /\ UNCHANGED <<granted, rt, rotations, now>>
  BY DEF UpdateResolvedPolicy
<1>. QED
  BY <1>1, <1>2, <1>3, <1>4, <1>5, <1>6, TypeRowWritten

LEMMA TypeMarkCloudSpaceDeletePending ==
  ASSUME TypeOK, NEW c \in Calls, MarkCloudSpaceDeletePending(c)
  PROVE  LET i == call[c].space
         IN /\ TypeOK' /\ OthersStay(c)
            /\ SpaceWritten(i, [cp[i] EXCEPT !.status = "delete_pending"])
            /\ i \in DOMAIN cp /\ cp[i].status # "deleted"
            /\ call[c] \in Call /\ call'[c] \in Call
            /\ call'[c] = [call[c] EXCEPT !.pc = "sent"]
<1> DEFINE i == call[c].space
           row == [cp[i] EXCEPT !.status = "delete_pending"]
<1>1. i \in DOMAIN cp /\ row \in Row /\ row.status # "pending"
  BY RowTyped DEF MarkCloudSpaceDeletePending, MayMark, Row, Statuses
<1>2. cp' = [cp EXCEPT ![i] = row]
  BY DEF MarkCloudSpaceDeletePending
<1>3. cp \in Seq(Row) /\ Len(cp) <= MaxSpaces
  BY DEF TypeOK
<1>4. /\ cp' \in Seq(Row) /\ Len(cp') = Len(cp) /\ DOMAIN cp' = DOMAIN cp
      /\ \A j \in DOMAIN cp : cp'[j] = IF j = i THEN row ELSE cp[j]
  BY <1>1, <1>2, <1>3, Replaced
<1>5. \A j \in DOMAIN cp' : cp'[j].status = "pending" => cp'[j].runtime = 0
  BY <1>1, <1>4 DEF TypeOK
<1>6. ~Idle(c) /\ call[c] \in Call /\ Goto(c, "sent")
  BY DEF MarkCloudSpaceDeletePending, At, Idle, TypeOK
<1>7. /\ call' \in [Calls -> Call \union {None}] /\ OthersStay(c)
      /\ call'[c] = [call[c] EXCEPT !.pc = "sent"] /\ call'[c] \in Call
  BY <1>6, GotoCall
<1>8. UNCHANGED <<granted, rt, rotations, doubt, now>>
  BY DEF MarkCloudSpaceDeletePending
<1>9. TypeOK'
  BY <1>3, <1>4, <1>5, <1>7, <1>8, TypeFrame DEF TypeOK
<1>. QED
  BY <1>1, <1>4, <1>6, <1>7, <1>9 DEF SpaceWritten, MarkCloudSpaceDeletePending, MayMark

LEMMA TypeCreateFreeCloudSpaceGrant ==
  ASSUME TypeOK, NEW c \in Calls, CreateFreeCloudSpaceGrant(c)
  PROVE  LET n == Len(cp)
             row == [status |-> "pending", trial |-> call[c].trial,
                     runtime |-> 0, shown |-> 0]
         IN /\ TypeOK' /\ OthersStay(c)
            /\ n \in Nat /\ DOMAIN cp = 1 .. n /\ DOMAIN cp' = 1 .. (n + 1)
            /\ Len(cp') = n + 1
            /\ \A j \in 1 .. n : cp'[j] = cp[j]
            /\ cp'[n + 1] = row
            /\ call'[c] = [call[c] EXCEPT !.pc = "sent", !.space = n + 1]
            /\ call[c] \in Call /\ call'[c] \in Call
<1> DEFINE row == [status |-> "pending", trial |-> call[c].trial,
                   runtime |-> 0, shown |-> 0]
<1>1. call[c] \in Call
  BY DEF TypeOK, CreateFreeCloudSpaceGrant, At
<1>2. row \in Row
  BY <1>1, Bounds DEF Row, Call, Statuses
<1>3. cp \in Seq(Row) /\ Len(cp) \in Nat /\ Len(cp) < MaxSpaces
  BY DEF TypeOK, CreateFreeCloudSpaceGrant
<1>4. cp' = Append(cp, row)
  BY DEF CreateFreeCloudSpaceGrant
<1>5. /\ cp' \in Seq(Row) /\ Len(cp') = Len(cp) + 1
      /\ \A j \in 1 .. Len(cp) : cp'[j] = cp[j]
      /\ cp'[Len(cp) + 1] = row
      /\ DOMAIN cp' = 1 .. (Len(cp) + 1) /\ DOMAIN cp = 1 .. Len(cp)
  BY <1>2, <1>3, <1>4
<1>6. \A j \in DOMAIN cp' : cp'[j].status = "pending" => cp'[j].runtime = 0
  BY <1>3, <1>5 DEF TypeOK
<1>7. [call[c] EXCEPT !.pc = "sent", !.space = Len(cp) + 1] \in Call
  <2>1. Len(cp) + 1 \in 0 .. MaxSpaces
    BY <1>3, Bounds
  <2>. QED
    BY <1>1, <2>1 DEF Call
<1>8. call' = [call EXCEPT ![c] = [call[c] EXCEPT !.pc = "sent", !.space = Len(cp) + 1]]
  BY DEF CreateFreeCloudSpaceGrant
<1>9. /\ call' \in [Calls -> Call \union {None}]
      /\ call'[c] = [call[c] EXCEPT !.pc = "sent", !.space = Len(cp) + 1]
      /\ OthersStay(c)
  BY <1>7, <1>8 DEF TypeOK, OthersStay
<1>10. Len(cp') <= MaxSpaces
  BY <1>3, <1>5, Bounds
<1>11. TypeOK'
  BY <1>5, <1>6, <1>9, <1>10, TypeFrame DEF CreateFreeCloudSpaceGrant, TypeOK
<1>. QED
  BY <1>1, <1>3, <1>5, <1>7, <1>9, <1>11

\* The steps that change a call and nothing else.
LEMMA TypeCallOnly ==
  ASSUME TypeOK, call' \in [Calls -> Call \union {None}],
         UNCHANGED <<cp, granted, rt, rotations, now>>, doubt' \in BOOLEAN
  PROVE  TypeOK'
  BY DEF TypeOK

LEMMA TypeStartOverride ==
  ASSUME TypeOK, NEW c \in Calls, NEW t \in 0 .. MaxTime, StartOverride(c, t)
  PROVE  /\ TypeOK'
         /\ \E i \in DOMAIN cp :
              /\ cp[i].status # "deleted" /\ cp[i].runtime # 0
              /\ call'[c] \in Call
              /\ call'[c].op = "override" /\ call'[c].pc = "sent"
              /\ call'[c].space = i /\ call'[c].trial = t
              /\ call'[c].runtime = cp[i].runtime
              /\ call'[c].alone <=> \A e \in Calls : ~Overriding(e)
         /\ \A d \in Calls \ {c} :
              \/ ~Overriding(d) /\ call'[d] = call[d]
              \/ Overriding(d) /\ call'[d] = [call[d] EXCEPT !.alone = FALSE]
<1>1. PICK i \in DOMAIN cp :
        /\ cp[i].status # "deleted" /\ cp[i].runtime # 0
        /\ call' = [d \in Calls |->
             IF d = c
             THEN [op |-> "override", pc |-> "sent", space |-> i, trial |-> t,
                   runtime |-> cp[i].runtime, shown |-> 0,
                   alone |-> ~\E e \in Calls : Overriding(e)]
             ELSE IF Overriding(d) THEN [call[d] EXCEPT !.alone = FALSE]
             ELSE call[d]]
  BY DEF StartOverride
<1> DEFINE r == [op |-> "override", pc |-> "sent", space |-> i, trial |-> t,
                 runtime |-> cp[i].runtime, shown |-> 0,
                 alone |-> ~\E e \in Calls : Overriding(e)]
<1>2. /\ i \in 0 .. MaxSpaces /\ cp[i].runtime \in 0 .. MaxSpaces
      /\ t \in Expiry /\ 0 \in 0 .. MaxCode
  BY RowTyped, Bounds DEF Row, Expiry
<1>3. r \in Call
  BY <1>2 DEF Call
<1>4. \A d \in Calls : Overriding(d) => [call[d] EXCEPT !.alone = FALSE] \in Call
  BY DEF TypeOK, Overriding, Call
<1>5. call' \in [Calls -> Call \union {None}]
  BY <1>1, <1>3, <1>4 DEF TypeOK
<1>6. TypeOK'
  BY <1>5, TypeCallOnly DEF StartOverride
<1>7. call'[c] = r
  BY <1>1
<1>8. \A d \in Calls \ {c} :
        \/ ~Overriding(d) /\ call'[d] = call[d]
        \/ Overriding(d) /\ call'[d] = [call[d] EXCEPT !.alone = FALSE]
  BY <1>1
<1>. QED
  BY <1>1, <1>3, <1>6, <1>7, <1>8

\* The calls that begin with an ordinary read of the rows, and what they read.
BeganWith(c) ==
    /\ call'[c] \in Call
    /\ call'[c].op \in {"provision", "rotate", "delete", "dashboard"}
    /\ call'[c].pc \in {"insert", "mark", "sent"}
    /\ call'[c].op = "provision" /\ call'[c].pc # "insert" =>
         \E i \in DOMAIN cp : call'[c].space = i /\ call'[c].trial = cp[i].trial
    /\ call'[c].op = "rotate" =>
         \E i \in DOMAIN cp : /\ cp[i].runtime # 0
                              /\ call'[c].space = i
                              /\ call'[c].runtime = cp[i].runtime
                              /\ call'[c].shown = cp[i].shown

LEMMA TypeBegin ==
  ASSUME TypeOK, NEW c \in Calls,
         \/ RetryProvision(c) \/ StartProvision(c) \/ StartRotate(c)
         \/ StartDelete(c) \/ StartDashboard(c)
  PROVE  /\ TypeOK'
         /\ OthersStay(c)
         /\ call'[c] \in Call
         /\ BeganWith(c)
         /\ UNCHANGED <<cp, granted, rt, rotations, doubt, now>>
<1>1. now + Trial \in Expiry /\ 0 \in Expiry
  BY Bounds DEF TypeOK, Expiry
<1>2. \A i \in DOMAIN cp : i # 0
  BY RowTyped
<1>3. CASE RetryProvision(c)
  <2>1. PICK i \in DOMAIN cp : Begin(c, "provision", "sent", i, cp[i].trial)
    BY <1>3 DEF RetryProvision
  <2>2. cp[i].trial \in Expiry
    BY RowTyped DEF Row
  <2>3. /\ call' \in [Calls -> Call \union {None}] /\ OthersStay(c) /\ call'[c] \in Call
        /\ call'[c].op = "provision" /\ call'[c].pc = "sent" /\ call'[c].space = i
        /\ call'[c].trial = cp[i].trial
    BY <2>1, <2>2, BeginCall
  <2>4. BeganWith(c)
    BY <2>3 DEF BeganWith
  <2>. QED
    BY <1>3, <2>3, <2>4, TypeCallOnly DEF RetryProvision, TypeOK
<1>4. CASE StartProvision(c)
  <2>1. /\ call' \in [Calls -> Call \union {None}] /\ OthersStay(c) /\ call'[c] \in Call
        /\ call'[c].op = "provision" /\ call'[c].pc = "insert"
    BY <1>1, <1>4, BeginCall DEF StartProvision
  <2>2. BeganWith(c)
    BY <2>1 DEF BeganWith
  <2>. QED
    BY <1>4, <2>1, <2>2, TypeCallOnly DEF StartProvision, TypeOK
<1>5. CASE StartRotate(c)
  <2>1. PICK i \in DOMAIN cp : cp[i].runtime # 0 /\ Begin(c, "rotate", "sent", i, 0)
    BY <1>5 DEF StartRotate
  <2>2. /\ call' \in [Calls -> Call \union {None}] /\ OthersStay(c) /\ call'[c] \in Call
        /\ call'[c].op = "rotate" /\ call'[c].pc = "sent" /\ call'[c].space = i
        /\ call'[c].runtime = cp[i].runtime /\ call'[c].shown = cp[i].shown
    BY <1>1, <1>2, <2>1, BeginCall
  <2>3. BeganWith(c)
    BY <2>1, <2>2 DEF BeganWith
  <2>. QED
    BY <1>5, <2>2, <2>3, TypeCallOnly DEF StartRotate, TypeOK
<1>6. CASE StartDelete(c) \/ StartDashboard(c)
  <2>1. PICK i \in DOMAIN cp, op \in {"delete", "dashboard"} : Begin(c, op, "mark", i, 0)
    BY <1>6 DEF StartDelete, StartDashboard, Deletable, PrimarySpace
  <2>2. /\ call' \in [Calls -> Call \union {None}] /\ OthersStay(c) /\ call'[c] \in Call
        /\ call'[c].op = op /\ call'[c].pc = "mark"
    BY <1>1, <2>1, BeginCall
  <2>3. BeganWith(c)
    BY <2>2 DEF BeganWith
  <2>. QED
    BY <1>6, <2>2, <2>3, TypeCallOnly DEF StartDelete, StartDashboard, TypeOK
<1>. QED
  BY <1>3, <1>4, <1>5, <1>6

\* The runtime's answers that leave its rows alone.
LEMMA TypeAnsweredAgain ==
  ASSUME TypeOK, NEW c \in Calls, CreateAgain(c) \/ RotateAgain(c)
  PROVE  /\ TypeOK' /\ OthersStay(c)
         /\ UNCHANGED <<cp, granted, rt, rotations, doubt, now>>
         /\ \/ call'[c] = None
            \/ /\ CreateAgain(c)
               /\ \E k \in Created(call[c].space) : Answered(c, k, rt[k].code)
            \/ /\ RotateAgain(c)
               /\ \E r \in RecordedFor(c) : Answered(c, call[c].runtime, r.code)
<1>1. ~Idle(c) /\ call[c] \in Call
  BY DEF CreateAgain, RotateAgain, Arrived, At, Idle, TypeOK
<1>2. CASE CreateAgain(c)
  <2>1. PICK k \in Created(call[c].space) : AnswerWith(c, k, rt[k].code) \/ End(c)
    BY <1>2 DEF CreateAgain
  <2>2. k \in 0 .. MaxSpaces /\ rt[k].code \in 0 .. MaxCode
    BY RowTyped, Bounds DEF Created, RuntimeRow
  <2>. QED
    BY <1>1, <1>2, <2>1, <2>2, AnswerCall, EndCall, TypeCallOnly DEF CreateAgain, TypeOK
<1>3. CASE RotateAgain(c)
  <2>1. PICK r \in RecordedFor(c) : AnswerWith(c, call[c].runtime, r.code)
    BY <1>3 DEF RotateAgain
  <2>2. call[c].runtime \in 0 .. MaxSpaces /\ r.code \in 0 .. MaxCode
    BY <1>1, Bounds DEF RecordedFor, TypeOK, Call, Rotation
  <2>. QED
    BY <1>1, <1>3, <2>1, <2>2, AnswerCall, TypeCallOnly DEF RotateAgain, TypeOK
<1>. QED
  BY <1>2, <1>3

\* What a step on one of the runtime's rows does to the others.
RuntimeRowWritten(k, row) ==
    /\ row \in RuntimeRow
    /\ rt' \in Seq(RuntimeRow) /\ Len(rt') = Len(rt) /\ DOMAIN rt' = DOMAIN rt
    /\ \A l \in DOMAIN rt : rt'[l] = IF l = k THEN row ELSE rt[l]

LEMMA RuntimeRowReplaced ==
  ASSUME TypeOK, NEW k \in DOMAIN rt, NEW row \in RuntimeRow,
         rt' = [rt EXCEPT ![k] = row]
  PROVE  RuntimeRowWritten(k, row) /\ Len(rt') <= MaxSpaces
<1>1. rt \in Seq(RuntimeRow) /\ Len(rt) <= MaxSpaces
  BY DEF TypeOK
<1>. QED
  BY <1>1, Replaced DEF RuntimeRowWritten

LEMMA TypeRotateCloudAdminRoomCode ==
  ASSUME TypeOK, CallsNamed, NEW c \in Calls, RotateCloudAdminRoomCode(c)
  PROVE  LET k == call[c].runtime
         IN /\ TypeOK' /\ OthersStay(c)
            /\ k \in DOMAIN rt
            /\ RuntimeRowWritten(k, [rt[k] EXCEPT !.code = rt[k].code + 1])
            /\ Answered(c, k, rt[k].code + 1)
            /\ call[c] \in Call
<1> DEFINE k == call[c].runtime
           row == [rt[k] EXCEPT !.code = rt[k].code + 1]
<1>1. ~Idle(c) /\ call[c] \in Call
  BY DEF RotateCloudAdminRoomCode, Arrived, At, Idle, TypeOK
<1>2. k \in DOMAIN rt /\ k \in 0 .. MaxSpaces
  BY RowTyped, Bounds DEF RotateCloudAdminRoomCode, Stored
<1>3. rt[k] \in RuntimeRow /\ rt[k].code + 1 \in 1 .. MaxCode
  BY <1>2, RowTyped, Bounds DEF RotateCloudAdminRoomCode, RuntimeRow
<1>4. row \in RuntimeRow
  BY <1>3 DEF RuntimeRow
<1>5. rt' = [rt EXCEPT ![k] = row]
  BY DEF RotateCloudAdminRoomCode
<1>6. RuntimeRowWritten(k, row) /\ Len(rt') <= MaxSpaces
  BY <1>2, <1>4, <1>5, RuntimeRowReplaced
<1>7. rt[k].code + 1 \in 0 .. MaxCode /\ AnswerWith(c, k, rt[k].code + 1)
  BY <1>3, Bounds DEF RotateCloudAdminRoomCode
<1>8. /\ call' \in [Calls -> Call \union {None}]
      /\ Answered(c, k, rt[k].code + 1) /\ OthersStay(c)
  BY <1>1, <1>2, <1>7, AnswerCall
<1>9. call[c].space \in 1 .. MaxSpaces /\ call[c].shown \in 0 .. MaxCode
  BY <1>1, RowTyped DEF CallsNamed, Named, RotateCloudAdminRoomCode, Arrived, At, Call
<1>10. [space |-> call[c].space, key |-> call[c].shown, code |-> rt[k].code + 1]
         \in Rotation
  BY <1>3, <1>9 DEF Rotation
<1>11. rotations' \in SUBSET Rotation
  BY <1>10 DEF RotateCloudAdminRoomCode, KeyOf, TypeOK
<1>12. UNCHANGED <<cp, granted, doubt, now>>
  BY DEF RotateCloudAdminRoomCode
<1>13. TypeOK'
  BY <1>6, <1>8, <1>11, <1>12, TypeFrame DEF RuntimeRowWritten, TypeOK
<1>. QED
  BY <1>1, <1>2, <1>6, <1>8, <1>13

\* A step that writes one runtime row and no rotation, and changes one call.
LEMMA TypeRuntimeWritten ==
  ASSUME TypeOK, NEW k \in DOMAIN rt, NEW row \in RuntimeRow,
         rt' = [rt EXCEPT ![k] = row],
         call' \in [Calls -> Call \union {None}],
         UNCHANGED <<cp, granted, doubt, now>>, rotations' \subseteq rotations
  PROVE  TypeOK' /\ RuntimeRowWritten(k, row)
<1>1. RuntimeRowWritten(k, row) /\ Len(rt') <= MaxSpaces
  BY RuntimeRowReplaced
<1>2. rotations' \in SUBSET Rotation
  BY DEF TypeOK
<1>3. TypeOK'
  BY <1>1, <1>2, TypeFrame DEF RuntimeRowWritten, TypeOK
<1>. QED
  BY <1>1, <1>3

LEMMA TypeRotateSuspended ==
  ASSUME TypeOK, NEW c \in Calls, RotateSuspended(c)
  PROVE  LET k == call[c].runtime
         IN /\ TypeOK' /\ OthersStay(c) /\ call'[c] = None
            /\ k \in DOMAIN rt
            /\ RuntimeRowWritten(k, [rt[k] EXCEPT !.suspended = TRUE])
<1> DEFINE k == call[c].runtime
           row == [rt[k] EXCEPT !.suspended = TRUE]
<1>1. k \in DOMAIN rt
  BY DEF RotateSuspended, Stored
<1>2. row \in RuntimeRow
  BY <1>1, RowTyped DEF RuntimeRow
<1>3. rt' = [rt EXCEPT ![k] = row] /\ End(c)
  BY DEF RotateSuspended
<1>4. UNCHANGED <<cp, granted, rotations, doubt, now>>
  BY DEF RotateSuspended
<1>. QED
  BY <1>1, <1>2, <1>3, <1>4, EndCall, TypeRuntimeWritten

LEMMA TypeSoftDeleteCloudAdminSpace ==
  ASSUME TypeOK, NEW c \in Calls, SoftDeleteCloudAdminSpace(c)
  PROVE  LET k == call[c].runtime
         IN /\ TypeOK' /\ OthersStay(c) /\ Answered(c, k, call[c].shown)
            /\ k \in DOMAIN rt
            /\ RuntimeRowWritten(k, [rt[k] EXCEPT !.phase = "disbanded"])
            /\ call[c] \in Call
<1> DEFINE k == call[c].runtime
           row == [rt[k] EXCEPT !.phase = "disbanded"]
<1>1. k \in DOMAIN rt /\ k \in 0 .. MaxSpaces
  BY RowTyped, Bounds DEF SoftDeleteCloudAdminSpace, Stored
<1>2. row \in RuntimeRow
  BY <1>1, RowTyped DEF RuntimeRow
<1>3. rt' = [rt EXCEPT ![k] = row] /\ AnswerWith(c, k, call[c].shown)
  BY DEF SoftDeleteCloudAdminSpace
<1>4. UNCHANGED <<cp, granted, rotations, doubt, now>>
  BY DEF SoftDeleteCloudAdminSpace
<1>5. ~Idle(c) /\ call[c] \in Call /\ call[c].shown \in 0 .. MaxCode
  BY DEF SoftDeleteCloudAdminSpace, Arrived, At, Idle, TypeOK, Call
<1>. QED
  BY <1>1, <1>2, <1>3, <1>4, <1>5, AnswerCall, TypeRuntimeWritten

LEMMA TypeUpdateRuntimePolicy ==
  ASSUME TypeOK, NEW c \in Calls, UpdateRuntimePolicy(c)
  PROVE  LET k == call[c].runtime
         IN /\ TypeOK' /\ OthersStay(c) /\ Answered(c, k, call[c].shown)
            /\ k \in DOMAIN rt
            /\ \E s \in BOOLEAN :
                 RuntimeRowWritten(k, [rt[k] EXCEPT !.trial = call[c].trial,
                                                    !.suspended = s])
            /\ call[c] \in Call
<1> DEFINE k == call[c].runtime
           s == IF call[c].trial > now THEN FALSE
                ELSE rt[k].suspended \/ rt[k].phase = "live"
           row == [rt[k] EXCEPT !.trial = call[c].trial, !.suspended = s]
<1>1. k \in DOMAIN rt /\ k \in 0 .. MaxSpaces
  BY RowTyped, Bounds DEF UpdateRuntimePolicy, Stored
<1>2. ~Idle(c) /\ call[c] \in Call /\ call[c].shown \in 0 .. MaxCode /\ call[c].trial \in Expiry
  BY DEF UpdateRuntimePolicy, Arrived, At, Idle, TypeOK, Call
<1>3. rt[k] \in RuntimeRow /\ s \in BOOLEAN
  BY <1>1, RowTyped DEF RuntimeRow
<1>4. row \in RuntimeRow
  BY <1>2, <1>3 DEF RuntimeRow
<1>5. rt' = [rt EXCEPT ![k] = row] /\ AnswerWith(c, k, call[c].shown)
  BY DEF UpdateRuntimePolicy
<1>6. UNCHANGED <<cp, granted, rotations, doubt, now>>
  BY DEF UpdateRuntimePolicy
<1>7. TypeOK' /\ RuntimeRowWritten(k, row) /\ OthersStay(c) /\ Answered(c, k, call[c].shown)
  BY <1>1, <1>2, <1>4, <1>5, <1>6, AnswerCall, TypeRuntimeWritten
<1>. QED
  BY <1>1, <1>2, <1>3, <1>7

LEMMA TypeSuspendExpired ==
  ASSUME TypeOK, NEW k \in DOMAIN rt, SuspendExpired(k)
  PROVE  TypeOK' /\ RuntimeRowWritten(k, [rt[k] EXCEPT !.suspended = TRUE])
<1> DEFINE row == [rt[k] EXCEPT !.suspended = TRUE]
<1>1. row \in RuntimeRow
  BY RowTyped DEF RuntimeRow
<1>2. rt' = [rt EXCEPT ![k] = row] /\ UNCHANGED <<cp, granted, rotations, call, doubt, now>>
  BY DEF SuspendExpired
<1>3. call' \in [Calls -> Call \union {None}]
  BY <1>2 DEF TypeOK
<1>. QED
  BY <1>1, <1>2, <1>3, TypeRuntimeWritten

LEMMA TypeCollect ==
  ASSUME TypeOK, NEW k \in DOMAIN rt, Collect(k)
  PROVE  TypeOK' /\ RuntimeRowWritten(k, [rt[k] EXCEPT !.phase = "gone"])
<1> DEFINE row == [rt[k] EXCEPT !.phase = "gone"]
<1>1. row \in RuntimeRow
  BY RowTyped DEF RuntimeRow
<1>2. /\ rt' = [rt EXCEPT ![k] = row] /\ UNCHANGED <<cp, granted, call, doubt, now>>
      /\ rotations' \subseteq rotations
  BY DEF Collect
<1>3. call' \in [Calls -> Call \union {None}]
  BY <1>2 DEF TypeOK
<1>. QED
  BY <1>1, <1>2, <1>3, TypeRuntimeWritten

\* What creating a runtime row does.
LEMMA TypeCreateCloudAdminSpace ==
  ASSUME TypeOK, CallsNamed, NEW c \in Calls, CreateCloudAdminSpace(c)
  PROVE  LET n == Len(rt)
             row == [space |-> call[c].space, trial |-> call[c].trial,
                     suspended |-> FALSE, phase |-> "live", code |-> 1]
         IN /\ TypeOK' /\ OthersStay(c) /\ Answered(c, n + 1, 1)
            /\ n \in Nat /\ DOMAIN rt = 1 .. n /\ DOMAIN rt' = 1 .. (n + 1)
            /\ Len(rt') = n + 1
            /\ \A l \in 1 .. n : rt'[l] = rt[l]
            /\ rt'[n + 1] = row
            /\ call[c] \in Call /\ call[c].space \in DOMAIN cp
<1> DEFINE n == Len(rt)
           row == [space |-> call[c].space, trial |-> call[c].trial,
                   suspended |-> FALSE, phase |-> "live", code |-> 1]
<1>1. ~Idle(c) /\ call[c] \in Call /\ call[c].space \in DOMAIN cp
  BY DEF CreateCloudAdminSpace, Arrived, At, Idle, TypeOK, CallsNamed, Named
<1>2. row \in RuntimeRow
  BY <1>1, RowTyped, Bounds DEF RuntimeRow, Call
<1>3. rt \in Seq(RuntimeRow) /\ n \in Nat /\ DOMAIN rt = 1 .. n /\ n < MaxSpaces
  BY DEF CreateCloudAdminSpace, TypeOK
<1>4. rt' = Append(rt, row) /\ AnswerWith(c, n + 1, 1)
  BY DEF CreateCloudAdminSpace
<1>5. /\ rt' \in Seq(RuntimeRow) /\ Len(rt') = n + 1
      /\ \A l \in 1 .. n : rt'[l] = rt[l]
      /\ rt'[n + 1] = row
      /\ DOMAIN rt' = 1 .. (n + 1)
  BY <1>2, <1>3, <1>4
<1>6. n + 1 \in 0 .. MaxSpaces /\ 1 \in 0 .. MaxCode /\ n + 1 <= MaxSpaces
  BY <1>3, Bounds
<1>7. /\ call' \in [Calls -> Call \union {None}]
      /\ OthersStay(c) /\ Answered(c, n + 1, 1)
  BY <1>1, <1>4, <1>6, AnswerCall
<1>8. UNCHANGED <<cp, granted, rotations, doubt, now>>
  BY DEF CreateCloudAdminSpace
<1>9. TypeOK'
  BY <1>5, <1>6, <1>7, <1>8, TypeFrame DEF TypeOK
<1>. QED
  BY <1>1, <1>3, <1>5, <1>7, <1>9

LEMMA TypeFail ==
  ASSUME TypeOK, NEW c \in Calls, Fail(c) \/ Abandon(c)
  PROVE  /\ TypeOK' /\ OthersStay(c)
         /\ UNCHANGED <<cp, granted, rt, rotations, doubt, now>>
         /\ \/ call'[c] = None
            \/ /\ ~Idle(c) /\ call[c] \in Call /\ call[c].pc = "sent"
               /\ call'[c] = [call[c] EXCEPT !.pc = "orphan"] /\ call'[c] \in Call
<1>1. CASE Fail(c)
  BY <1>1, EndCall, TypeCallOnly DEF Fail, TypeOK
<1>2. CASE Abandon(c)
  <2>1. ~Idle(c) /\ Goto(c, "orphan") /\ call[c] \in Call /\ call[c].pc = "sent"
    BY <1>2 DEF Abandon, TypeOK, Idle
  <2>2. /\ call' \in [Calls -> Call \union {None}] /\ OthersStay(c)
        /\ call'[c] = [call[c] EXCEPT !.pc = "orphan"] /\ call'[c] \in Call
    BY <2>1, GotoCall
  <2>. QED
    BY <1>2, <2>1, <2>2, TypeCallOnly DEF Abandon, TypeOK
<1>. QED
  BY <1>1, <1>2

-----------------------------------------------------------------------------
(***************************************************************************)
(* The links between the two databases: one row on either side, and a row  *)
(* that is past provisioning names the other.                              *)
(*                                                                         *)
(* A call that needs the runtime Space began when the row named it, and a  *)
(* row never loses its link.  A runtime row is collected only after a      *)
(* delete, and the deleted row is never provisioned again: so a create     *)
(* that arrives finds the row it would double.                             *)
(***************************************************************************)
RowLinked(i) ==
    /\ cp[i].runtime # 0 => cp[i].runtime \in DOMAIN rt
    /\ cp[i].status \in {"active", "delete_pending", "deleted"} => cp[i].runtime # 0

CallLinked(c) ==
    /\ Named(c)
    /\ call[c].pc = "insert" => call[c].op = "provision"
    /\ call[c].op \in {"rotate", "delete", "override"} =>
         call[c].runtime \in DOMAIN rt /\ cp[call[c].space].runtime # 0
    /\ call[c].op = "provision" /\ call[c].pc = "answered" =>
         call[c].runtime \in DOMAIN rt

RuntimeLinked(k) ==
    /\ rt[k].space \in DOMAIN cp
    /\ rt[k].phase # "live" => cp[rt[k].space].runtime # 0
    /\ rt[k].phase = "gone" =>
         \A c \in Calls : ~Idle(c) => call[c].op # "provision"

Linked ==
    /\ Len(cp) <= 1 /\ Len(rt) <= 1
    /\ ~granted => cp = <<>>
    /\ \A i \in DOMAIN cp : RowLinked(i)
    /\ \A c \in Calls : ~Idle(c) => CallLinked(c)
    /\ \A k \in DOMAIN rt : RuntimeLinked(k)

\* What no step does to the rows ...
SpacesKept ==
    /\ DOMAIN cp \subseteq DOMAIN cp'
    /\ \A i \in DOMAIN cp : cp[i].runtime # 0 => cp'[i].runtime # 0

RuntimesKept ==
    /\ DOMAIN rt \subseteq DOMAIN rt'
    /\ \A k \in DOMAIN rt : rt'[k].space = rt[k].space

\* ... and what a call that goes on does: it is about the same row, and a new
\* answer names a runtime row.
GoesOn(d) ==
    call'[d] # None =>
        /\ call[d] # None
        /\ call'[d].op = call[d].op /\ call'[d].space = call[d].space
        /\ call'[d].pc = "insert" <=> call[d].pc = "insert"
        /\ \/ /\ call'[d].runtime = call[d].runtime
              /\ call'[d].pc = "answered" => call[d].pc = "answered"
           \/ call'[d].runtime \in DOMAIN rt'

LEMMA OnlyOne ==
  ASSUME TypeOK, Linked
  PROVE  /\ \A i \in DOMAIN cp : i = 1
         /\ \A k \in DOMAIN rt : k = 1
<1>1. /\ Len(cp) \in Nat /\ Len(rt) \in Nat
      /\ DOMAIN cp = 1 .. Len(cp) /\ DOMAIN rt = 1 .. Len(rt)
  BY DEF TypeOK
<1>. QED
  BY <1>1 DEF Linked

LEMMA StaysGoesOn ==
  ASSUME NEW c \in Calls, OthersStay(c), GoesOn(c)
  PROVE  \A d \in Calls : GoesOn(d)
  BY DEF OthersStay, GoesOn

LEMMA AnsweredGoesOn ==
  ASSUME NEW c \in Calls, ~Idle(c), call[c].pc # "insert",
         NEW k \in DOMAIN rt', NEW n, Answered(c, k, n)
  PROVE  GoesOn(c)
  BY DEF Answered, GoesOn, Idle

LEMMA GoesOnLinked ==
  ASSUME SpacesKept, RuntimesKept, NEW d \in Calls, GoesOn(d),
         ~Idle(d) => CallLinked(d)
  PROVE  (~Idle(d) => CallLinked(d))'
  BY DEF SpacesKept, RuntimesKept, GoesOn, Idle, CallLinked, Named

\* A step that writes one row of cloud_spaces.
LEMMA LinkedSpaceWritten ==
  ASSUME TypeOK, Linked, NEW i \in DOMAIN cp, NEW row, SpaceWritten(i, row),
         cp[i].runtime # 0 => row.runtime # 0,
         row.runtime # 0 => row.runtime \in DOMAIN rt,
         row.status \in {"active", "delete_pending", "deleted"} => row.runtime # 0,
         UNCHANGED <<granted, rt>>,
         \A d \in Calls : GoesOn(d)
  PROVE  Linked'
<1>1. SpacesKept /\ RuntimesKept
  BY DEF SpacesKept, RuntimesKept, SpaceWritten
<1>2. \A d \in Calls : (~Idle(d) => CallLinked(d))'
  BY <1>1, GoesOnLinked DEF Linked
<1>3. \A j \in DOMAIN cp' : RowLinked(j)'
  BY DEF Linked, SpaceWritten, RowLinked
<1>4. \A k \in DOMAIN rt' : RuntimeLinked(k)'
  BY DEF Linked, SpaceWritten, RuntimeLinked, GoesOn, Idle
<1>5. granted
  BY DEF Linked
<1>. QED
  BY <1>2, <1>3, <1>4, <1>5 DEF Linked, SpaceWritten

\* A step that writes one runtime row.
LEMMA LinkedRuntimeWritten ==
  ASSUME TypeOK, Linked, NEW k \in DOMAIN rt, NEW row, RuntimeRowWritten(k, row),
         row.space = rt[k].space,
         row.phase # "live" => cp[rt[k].space].runtime # 0,
         row.phase = "gone" => rt[k].phase = "gone" \/ \A c \in Calls : Idle(c),
         UNCHANGED <<cp, granted>>,
         \A d \in Calls : GoesOn(d)
  PROVE  Linked'
<1>1. SpacesKept /\ RuntimesKept
  BY DEF SpacesKept, RuntimesKept, RuntimeRowWritten
<1>2. \A d \in Calls : (~Idle(d) => CallLinked(d))'
  BY <1>1, GoesOnLinked DEF Linked
<1>3. \A j \in DOMAIN cp' : RowLinked(j)'
  BY DEF Linked, RuntimeRowWritten, RowLinked
<1>4. \A l \in DOMAIN rt' : RuntimeLinked(l)'
  BY DEF Linked, RuntimeRowWritten, RuntimeLinked, GoesOn, Idle
<1>. QED
  BY <1>2, <1>3, <1>4 DEF Linked, RuntimeRowWritten

\* A step that changes neither.
LEMMA LinkedCallOnly ==
  ASSUME TypeOK, Linked, UNCHANGED <<cp, granted, rt>>, NEW c \in Calls,
         \A d \in Calls : d # c => GoesOn(d),
         (~Idle(c) => CallLinked(c))',
         call'[c] # None /\ call'[c].op = "provision" =>
             \/ call[c] # None /\ call[c].op = "provision"
             \/ \A k \in DOMAIN rt : rt[k].phase # "gone"
  PROVE  Linked'
<1>1. SpacesKept /\ RuntimesKept
  BY DEF SpacesKept, RuntimesKept
<1>2. \A d \in Calls : (~Idle(d) => CallLinked(d))'
  BY <1>1, GoesOnLinked DEF Linked
<1>3. \A j \in DOMAIN cp' : RowLinked(j)'
  BY DEF Linked, RowLinked
<1>4. \A l \in DOMAIN rt' : RuntimeLinked(l)'
  BY DEF Linked, RuntimeLinked, GoesOn, Idle
<1>. QED
  BY <1>2, <1>3, <1>4 DEF Linked

LEMMA LinkedNames ==
  ASSUME Linked
  PROVE  CallsNamed
  BY DEF Linked, CallLinked, CallsNamed

LEMMA LinkedInit == Init => Linked
  BY DEF Init, Linked, Idle

LEMMA LinkedBegin ==
  ASSUME TypeOK, Linked, NEW c \in Calls,
         \/ RetryProvision(c) \/ StartProvision(c) \/ StartRotate(c)
         \/ StartDelete(c) \/ StartDashboard(c)
  PROVE  Linked'
<1>1. /\ OthersStay(c) /\ call'[c] \in Call
      /\ UNCHANGED <<cp, granted, rt, rotations, doubt, now>>
  BY TypeBegin
<1>2. \A d \in Calls : d # c => GoesOn(d)
  BY <1>1 DEF OthersStay, GoesOn
<1>3. now + Trial \in Expiry /\ 0 \in Expiry
  BY Bounds DEF TypeOK, Expiry
<1>4. CASE RetryProvision(c)
  <2>1. PICK i \in DOMAIN cp : /\ Begin(c, "provision", "sent", i, cp[i].trial)
                               /\ cp[i].runtime = 0
    BY <1>4 DEF RetryProvision
  <2>2. cp[i].trial \in Expiry
    BY RowTyped DEF Row
  <2>3. /\ call'[c].op = "provision" /\ call'[c].pc = "sent" /\ call'[c].space = i
    BY <2>1, <2>2, BeginCall
  <2>4. (~Idle(c) => CallLinked(c))'
    BY <1>1, <2>3 DEF CallLinked, Named
  <2>5. \A k \in DOMAIN rt : rt[k].phase # "gone"
    BY <2>1, OnlyOne DEF Linked, RuntimeLinked
  <2>. QED
    BY <1>1, <1>2, <2>4, <2>5, LinkedCallOnly
<1>5. CASE StartProvision(c)
  <2>1. call'[c].op = "provision" /\ call'[c].pc = "insert"
    BY <1>3, <1>5, BeginCall DEF StartProvision
  <2>2. (~Idle(c) => CallLinked(c))'
    BY <2>1 DEF CallLinked, Named
  <2>3. \A k \in DOMAIN rt : rt[k].phase # "gone"
    BY <1>5 DEF StartProvision, Linked, RuntimeLinked
  <2>. QED
    BY <1>1, <1>2, <2>2, <2>3, LinkedCallOnly
<1>6. CASE StartRotate(c) \/ StartDelete(c)
  <2>1. PICK i \in DOMAIN cp, op \in {"rotate", "delete"}, pc \in {"sent", "mark"} :
          cp[i].runtime # 0 /\ Begin(c, op, pc, i, 0)
    BY <1>6 DEF StartRotate, StartDelete, Deletable, PrimarySpace
  <2>2. /\ call'[c].op = op /\ call'[c].pc = pc /\ call'[c].space = i
        /\ i # 0 => call'[c].runtime = cp[i].runtime
    BY <1>3, <2>1, BeginCall
  <2>3. (~Idle(c) => CallLinked(c))'
    BY <1>1, <2>1, <2>2, OnlyOne DEF CallLinked, Named, Linked, RowLinked
  <2>. QED
    BY <1>1, <1>2, <2>1, <2>2, <2>3, LinkedCallOnly
<1>7. CASE StartDashboard(c)
  <2>1. PICK i \in DOMAIN cp : Begin(c, "dashboard", "mark", i, 0)
    BY <1>7 DEF StartDashboard
  <2>2. call'[c].op = "dashboard" /\ call'[c].pc = "mark" /\ call'[c].space = i
    BY <1>3, <2>1, BeginCall
  <2>3. (~Idle(c) => CallLinked(c))'
    BY <1>1, <2>2 DEF CallLinked, Named
  <2>. QED
    BY <1>1, <1>2, <2>2, <2>3, LinkedCallOnly
<1>. QED
  BY <1>4, <1>5, <1>6, <1>7

LEMMA LinkedStartOverride ==
  ASSUME TypeOK, Linked, NEW c \in Calls, NEW t \in 0 .. MaxTime, StartOverride(c, t)
  PROVE  Linked'
<1>1. PICK i \in DOMAIN cp :
        /\ cp[i].runtime # 0
        /\ call'[c].op = "override" /\ call'[c].pc = "sent" /\ call'[c].space = i
        /\ call'[c].runtime = cp[i].runtime
  BY TypeStartOverride
<1>2. UNCHANGED <<cp, granted, rt>>
  BY DEF StartOverride
<1>3. \A d \in Calls : d # c => GoesOn(d)
  <2> SUFFICES ASSUME NEW d \in Calls \ {c}
               PROVE  GoesOn(d)
    OBVIOUS
  <2>1. CASE ~Overriding(d) /\ call'[d] = call[d]
    BY <2>1 DEF GoesOn
  <2>2. CASE Overriding(d) /\ call'[d] = [call[d] EXCEPT !.alone = FALSE]
    <3>1. call[d] \in Call /\ call[d] # None
      BY <2>2 DEF Overriding, TypeOK
    <3>. QED
      BY <2>2, <3>1 DEF GoesOn, Call
  <2>. QED
    BY <2>1, <2>2, TypeStartOverride
<1>4. (~Idle(c) => CallLinked(c))'
  BY <1>1, <1>2 DEF CallLinked, Named, Linked, RowLinked
<1>. QED
  BY <1>1, <1>2, <1>3, <1>4, LinkedCallOnly

LEMMA LinkedAnsweredAgain ==
  ASSUME TypeOK, Linked, NEW c \in Calls, CreateAgain(c) \/ RotateAgain(c)
  PROVE  Linked'
<1>1. /\ OthersStay(c) /\ UNCHANGED <<cp, granted, rt>>
      /\ \/ call'[c] = None
         \/ /\ CreateAgain(c)
            /\ \E k \in Created(call[c].space) : Answered(c, k, rt[k].code)
         \/ /\ RotateAgain(c)
            /\ \E r \in RecordedFor(c) : Answered(c, call[c].runtime, r.code)
  BY TypeAnsweredAgain
<1>2. ~Idle(c) /\ call[c].pc # "insert"
  BY DEF CreateAgain, RotateAgain, Arrived, At, Idle
<1>3. GoesOn(c)
  <2>1. CASE call'[c] = None
    BY <2>1 DEF GoesOn
  <2>2. ASSUME NEW k \in Created(call[c].space), Answered(c, k, rt[k].code)
        PROVE  GoesOn(c)
    BY <1>1, <1>2, <2>2, AnsweredGoesOn DEF Created
  <2>3. ASSUME RotateAgain(c), NEW r, Answered(c, call[c].runtime, r.code)
        PROVE  GoesOn(c)
    <3>1. call[c].runtime \in DOMAIN rt'
      BY <1>1, <1>2, <2>3 DEF RotateAgain, Arrived, At, Linked, CallLinked
    <3>. QED
      BY <1>2, <2>3, <3>1, AnsweredGoesOn
  <2>. QED
    BY <1>1, <2>1, <2>2, <2>3
<1>4. \A d \in Calls : GoesOn(d)
  BY <1>1, <1>3, StaysGoesOn
<1>5. (~Idle(c) => CallLinked(c))'
  BY <1>1, <1>3, GoesOnLinked DEF Linked, SpacesKept, RuntimesKept
<1>. QED
  BY <1>1, <1>3, <1>4, <1>5, LinkedCallOnly DEF GoesOn

LEMMA LinkedFail ==
  ASSUME TypeOK, Linked, NEW c \in Calls, Fail(c) \/ Abandon(c)
  PROVE  Linked'
<1>1. /\ OthersStay(c) /\ UNCHANGED <<cp, granted, rt>>
      /\ \/ call'[c] = None
         \/ /\ ~Idle(c) /\ call[c] \in Call /\ call[c].pc = "sent"
            /\ call'[c] = [call[c] EXCEPT !.pc = "orphan"]
  BY TypeFail
<1>2. GoesOn(c)
  BY <1>1 DEF GoesOn, Idle, Call
<1>3. \A d \in Calls : GoesOn(d)
  BY <1>1, <1>2, StaysGoesOn
<1>4. (~Idle(c) => CallLinked(c))'
  BY <1>1, <1>2, GoesOnLinked DEF Linked, SpacesKept, RuntimesKept
<1>. QED
  BY <1>1, <1>2, <1>3, <1>4, LinkedCallOnly DEF GoesOn

LEMMA LinkedCreateFreeCloudSpaceGrant ==
  ASSUME TypeOK, Linked, NEW c \in Calls, CreateFreeCloudSpaceGrant(c)
  PROVE  Linked'
<1>1. /\ OthersStay(c)
      /\ Len(cp) \in Nat /\ DOMAIN cp = 1 .. Len(cp) /\ DOMAIN cp' = 1 .. (Len(cp) + 1)
      /\ Len(cp') = Len(cp) + 1
      /\ cp'[Len(cp) + 1] = [status |-> "pending", trial |-> call[c].trial,
                             runtime |-> 0, shown |-> 0]
      /\ call'[c] = [call[c] EXCEPT !.pc = "sent", !.space = Len(cp) + 1]
      /\ call[c] \in Call
  BY TypeCreateFreeCloudSpaceGrant
<1>2. /\ call[c] # None /\ call[c].op = "provision" /\ call[c].pc = "insert"
      /\ ~granted /\ granted' /\ rt' = rt
  BY DEF CreateFreeCloudSpaceGrant, At, NoConflict
<1>3. cp = <<>> /\ Len(cp) = 0
  BY <1>2 DEF Linked
<1>4. DOMAIN rt = {}
  BY <1>3 DEF Linked, RuntimeLinked
<1>5. \A d \in Calls : d # c => call'[d] = call[d] /\ (~Idle(d) => call[d].pc = "insert")
  BY <1>1, <1>3 DEF OthersStay, Linked, CallLinked, Named
<1>6. /\ call'[c].op = "provision" /\ call'[c].pc = "sent" /\ call'[c].space = 1
  BY <1>1, <1>2, <1>3 DEF Call
<1>7. \A d \in Calls : (~Idle(d) => CallLinked(d))'
  <2>1. (~Idle(c) => CallLinked(c))'
    BY <1>1, <1>3, <1>6 DEF CallLinked, Named
  <2>2. \A d \in Calls : d # c => (~Idle(d) => CallLinked(d))'
    BY <1>5 DEF Idle, Linked, CallLinked, Named
  <2>. QED
    BY <2>1, <2>2
<1>8. \A i \in DOMAIN cp' : RowLinked(i)'
  BY <1>1, <1>3 DEF RowLinked
<1>. QED
  BY <1>1, <1>2, <1>3, <1>4, <1>7, <1>8 DEF Linked

LEMMA EndGoesOn ==
  ASSUME NEW c \in Calls, OthersStay(c), call'[c] = None
  PROVE  \A d \in Calls : GoesOn(d)
  BY DEF OthersStay, GoesOn

LEMMA LinkedMarkCloudSpaceProvisioned ==
  ASSUME TypeOK, Linked, NEW c \in Calls, MarkCloudSpaceProvisioned(c)
  PROVE  Linked'
<1> DEFINE i == call[c].space
           row == [cp[i] EXCEPT !.status = "active", !.runtime = call[c].runtime,
                                !.shown = call[c].shown]
<1>1. /\ OthersStay(c) /\ call'[c] = None /\ SpaceWritten(i, row)
  BY TypeMarkCloudSpaceProvisioned
<1>2. /\ call[c] # None /\ call[c].op = "provision" /\ call[c].pc = "answered"
      /\ UNCHANGED <<granted, rt>>
  BY DEF MarkCloudSpaceProvisioned, At
<1>3. i \in DOMAIN cp /\ call[c].runtime \in DOMAIN rt
  BY <1>2 DEF Linked, CallLinked, Named, Idle
<1>4. row.runtime = call[c].runtime /\ row.runtime # 0
  BY <1>3, RowTyped, OnlyOne DEF Row
<1>. QED
  BY <1>1, <1>2, <1>3, <1>4, EndGoesOn, LinkedSpaceWritten

LEMMA LinkedUpdateRoomCodeDisplay ==
  ASSUME TypeOK, Linked, NEW c \in Calls, UpdateRoomCodeDisplay(c)
  PROVE  Linked'
<1> DEFINE i == call[c].space
           row == [cp[i] EXCEPT !.shown = call[c].shown]
<1>1. /\ OthersStay(c) /\ call'[c] = None /\ SpaceWritten(i, row)
  BY TypeUpdateRoomCodeDisplay
<1>2. /\ call[c] # None /\ call[c].op = "rotate" /\ call[c].pc = "answered"
      /\ UNCHANGED <<granted, rt>>
  BY DEF UpdateRoomCodeDisplay, At
<1>3. i \in DOMAIN cp
  BY <1>2 DEF Linked, CallLinked, Named, Idle
<1>4. row.runtime = cp[i].runtime /\ row.status = cp[i].status
  BY <1>3, RowTyped DEF Row
<1>5. RowLinked(i)
  BY <1>3 DEF Linked
<1>. QED
  BY <1>1, <1>2, <1>3, <1>4, <1>5, EndGoesOn, LinkedSpaceWritten DEF RowLinked

LEMMA LinkedMarkCloudSpaceDeletePending ==
  ASSUME TypeOK, Linked, NEW c \in Calls, MarkCloudSpaceDeletePending(c)
  PROVE  Linked'
<1> DEFINE i == call[c].space
           row == [cp[i] EXCEPT !.status = "delete_pending"]
<1>1. /\ OthersStay(c) /\ SpaceWritten(i, row) /\ i \in DOMAIN cp
      /\ call'[c] = [call[c] EXCEPT !.pc = "sent"] /\ call[c] \in Call
  BY TypeMarkCloudSpaceDeletePending
<1>2. /\ call[c] # None /\ call[c].op = "delete" /\ call[c].pc = "mark"
      /\ UNCHANGED <<granted, rt>>
  BY DEF MarkCloudSpaceDeletePending, At
<1>3. GoesOn(c)
  BY <1>1, <1>2 DEF GoesOn, Call
<1>4. row.runtime = cp[i].runtime /\ cp[i].runtime # 0
  BY <1>1, <1>2, RowTyped DEF Row, Linked, CallLinked, Idle
<1>5. RowLinked(i)
  BY <1>1 DEF Linked
<1>. QED
  BY <1>1, <1>2, <1>3, <1>4, <1>5, StaysGoesOn, LinkedSpaceWritten DEF RowLinked

LEMMA LinkedMarkCloudSpaceDeleted ==
  ASSUME TypeOK, Linked, NEW c \in Calls, MarkCloudSpaceDeleted(c)
  PROVE  Linked'
<1> DEFINE i == call[c].space
           row == [cp[i] EXCEPT !.status = "deleted"]
<1>1. /\ OthersStay(c) /\ call'[c] = None /\ SpaceWritten(i, row)
  BY TypeMarkCloudSpaceDeleted
<1>2. /\ call[c] # None /\ call[c].op = "delete" /\ call[c].pc = "answered"
      /\ UNCHANGED <<granted, rt>>
  BY DEF MarkCloudSpaceDeleted, Confirmed, At
<1>3. i \in DOMAIN cp /\ cp[i].runtime # 0
  BY <1>2 DEF Linked, CallLinked, Named, Idle
<1>4. row.runtime = cp[i].runtime
  BY <1>3, RowTyped DEF Row
<1>5. RowLinked(i)
  BY <1>3 DEF Linked
<1>. QED
  BY <1>1, <1>2, <1>3, <1>4, <1>5, EndGoesOn, LinkedSpaceWritten DEF RowLinked

LEMMA LinkedUpdateResolvedPolicy ==
  ASSUME TypeOK, Linked, NEW c \in Calls, UpdateResolvedPolicy(c)
  PROVE  Linked'
<1> DEFINE i == call[c].space
           row == [cp[i] EXCEPT !.trial = call[c].trial,
                                !.status = Unsuspended(@, call[c].trial)]
<1>1. /\ OthersStay(c) /\ call'[c] = None /\ SpaceWritten(i, row)
  BY TypeUpdateResolvedPolicy
<1>2. /\ call[c] # None /\ call[c].op = "override" /\ call[c].pc = "answered"
      /\ UNCHANGED <<granted, rt>>
  BY DEF UpdateResolvedPolicy, Applied, At
<1>3. i \in DOMAIN cp /\ cp[i].runtime # 0
  BY <1>2 DEF Linked, CallLinked, Named, Idle
<1>4. row.runtime = cp[i].runtime
  BY <1>3, RowTyped DEF Row
<1>5. RowLinked(i)
  BY <1>3 DEF Linked
<1>. QED
  BY <1>1, <1>2, <1>3, <1>4, <1>5, EndGoesOn, LinkedSpaceWritten DEF RowLinked

LEMMA LinkedMarkExpiredSuspended ==
  ASSUME TypeOK, Linked, NEW c \in Calls, MarkExpiredSuspended(c)
  PROVE  Linked'
<1> DEFINE i == call[c].space
           s == IF cp[i].status \in {"pending", "active"} THEN "suspended"
                ELSE cp[i].status
           row == [cp[i] EXCEPT !.status = s]
<1>1. /\ OthersStay(c) /\ call'[c] = None /\ SpaceWritten(i, row)
  BY TypeMarkExpiredSuspended
<1>2. /\ call[c] # None /\ call[c].op = "dashboard" /\ call[c].pc = "mark"
      /\ UNCHANGED <<granted, rt>>
  BY DEF MarkExpiredSuspended, At
<1>3. i \in DOMAIN cp
  BY <1>2 DEF Linked, CallLinked, Named, Idle
<1>4. row.runtime = cp[i].runtime /\ row.status = s
  BY <1>3, RowTyped DEF Row
<1>5. RowLinked(i)
  BY <1>3 DEF Linked
<1>6. row.status \in {"active", "delete_pending", "deleted"} => row.status = cp[i].status
  BY <1>4
<1>. QED
  BY <1>1, <1>2, <1>3, <1>4, <1>5, <1>6, EndGoesOn, LinkedSpaceWritten DEF RowLinked

\* The requests that write the runtime row they name.
LEMMA LinkedRuntimeRequest ==
  ASSUME TypeOK, Linked, NEW c \in Calls,
         \/ RotateCloudAdminRoomCode(c) \/ RotateSuspended(c)
         \/ SoftDeleteCloudAdminSpace(c) \/ UpdateRuntimePolicy(c)
  PROVE  Linked'
<1> DEFINE k == call[c].runtime
<1>1. /\ ~Idle(c) /\ call[c].pc # "insert"
      /\ call[c].op \in {"rotate", "delete", "override"}
      /\ UNCHANGED <<cp, granted>>
  BY DEF RotateCloudAdminRoomCode, RotateSuspended, SoftDeleteCloudAdminSpace,
         UpdateRuntimePolicy, Arrived, At, Idle
<1>2. k \in DOMAIN rt /\ rt[k] \in RuntimeRow
  BY <1>1, RowTyped DEF Linked, CallLinked
<1>3. cp[rt[k].space].runtime # 0
  BY <1>1, <1>2, OnlyOne DEF Linked, CallLinked, Named, RuntimeLinked
<1>4. RuntimeLinked(k)
  BY <1>2 DEF Linked
<1>5. ASSUME NEW row, RuntimeRowWritten(k, row), row.space = rt[k].space,
             row.phase = "gone" => rt[k].phase = "gone",
             OthersStay(c), NEW n, call'[c] = None \/ Answered(c, k, n)
      PROVE  Linked'
  <2>1. k \in DOMAIN rt'
    BY <1>2, <1>5 DEF RuntimeRowWritten
  <2>2. GoesOn(c)
    BY <1>1, <1>5, <2>1, AnsweredGoesOn DEF GoesOn
  <2>. QED
    BY <1>1, <1>2, <1>3, <1>5, <2>2, StaysGoesOn, LinkedRuntimeWritten
<1>6. CASE RotateCloudAdminRoomCode(c)
  <2> DEFINE row == [rt[k] EXCEPT !.code = rt[k].code + 1]
  <2>1. /\ OthersStay(c) /\ RuntimeRowWritten(k, row)
        /\ Answered(c, k, rt[k].code + 1)
    BY <1>6, TypeRotateCloudAdminRoomCode, LinkedNames
  <2>2. row.space = rt[k].space /\ row.phase = rt[k].phase
    BY <1>2 DEF RuntimeRow
  <2>. QED
    BY <1>5, <2>1, <2>2
<1>7. CASE RotateSuspended(c)
  <2> DEFINE row == [rt[k] EXCEPT !.suspended = TRUE]
  <2>1. OthersStay(c) /\ RuntimeRowWritten(k, row) /\ call'[c] = None
    BY <1>7, TypeRotateSuspended
  <2>2. row.space = rt[k].space /\ row.phase = rt[k].phase
    BY <1>2 DEF RuntimeRow
  <2>. QED
    BY <1>5, <2>1, <2>2
<1>8. CASE SoftDeleteCloudAdminSpace(c)
  <2> DEFINE row == [rt[k] EXCEPT !.phase = "disbanded"]
  <2>1. OthersStay(c) /\ RuntimeRowWritten(k, row) /\ Answered(c, k, call[c].shown)
    BY <1>8, TypeSoftDeleteCloudAdminSpace
  <2>2. row.space = rt[k].space /\ row.phase # "gone"
    BY <1>2 DEF RuntimeRow
  <2>. QED
    BY <1>5, <2>1, <2>2
<1>9. CASE UpdateRuntimePolicy(c)
  <2>1. PICK s \in BOOLEAN :
          RuntimeRowWritten(k, [rt[k] EXCEPT !.trial = call[c].trial, !.suspended = s])
    BY <1>9, TypeUpdateRuntimePolicy
  <2>2. OthersStay(c) /\ Answered(c, k, call[c].shown)
    BY <1>9, TypeUpdateRuntimePolicy
  <2> DEFINE row == [rt[k] EXCEPT !.trial = call[c].trial, !.suspended = s]
  <2>3. row.space = rt[k].space /\ row.phase = rt[k].phase
    BY <1>2 DEF RuntimeRow
  <2>. QED
    BY <1>5, <2>1, <2>2, <2>3
<1>. QED
  BY <1>6, <1>7, <1>8, <1>9

\* A member's request and the collector.
LEMMA LinkedRuntimeAlone ==
  ASSUME TypeOK, Linked, NEW k \in DOMAIN rt, SuspendExpired(k) \/ Collect(k)
  PROVE  Linked'
<1>1. rt[k] \in RuntimeRow /\ RuntimeLinked(k)
  BY RowTyped DEF Linked
<1>2. UNCHANGED <<cp, granted, call>>
  BY DEF SuspendExpired, Collect
<1>3. \A d \in Calls : GoesOn(d)
  BY <1>2 DEF GoesOn
<1>4. CASE SuspendExpired(k)
  <2> DEFINE row == [rt[k] EXCEPT !.suspended = TRUE]
  <2>1. RuntimeRowWritten(k, row)
    BY <1>4, TypeSuspendExpired
  <2>2. row.space = rt[k].space /\ row.phase = rt[k].phase
    BY <1>1 DEF RuntimeRow
  <2>. QED
    BY <1>1, <1>2, <1>3, <2>1, <2>2, LinkedRuntimeWritten DEF RuntimeLinked
<1>5. CASE Collect(k)
  <2> DEFINE row == [rt[k] EXCEPT !.phase = "gone"]
  <2>1. RuntimeRowWritten(k, row)
    BY <1>5, TypeCollect
  <2>2. row.space = rt[k].space /\ rt[k].phase # "live" /\ \A c \in Calls : Idle(c)
    BY <1>1, <1>5 DEF RuntimeRow, Collect
  <2>. QED
    BY <1>1, <1>2, <1>3, <2>1, <2>2, LinkedRuntimeWritten DEF RuntimeLinked
<1>. QED
  BY <1>4, <1>5

\* A create that arrives finds no row, not even a collected one.
LEMMA CreateFindsNone ==
  ASSUME TypeOK, Linked, NEW c \in Calls, CreateCloudAdminSpace(c)
  PROVE  rt = <<>> /\ Len(rt) = 0
<1>1. /\ ~Idle(c) /\ call[c].op = "provision" /\ call[c].pc # "insert"
      /\ \A k \in DOMAIN rt : Stored(k) => rt[k].space # call[c].space
  BY DEF CreateCloudAdminSpace, Arrived, At, Idle, Created
<1>2. \A k \in DOMAIN rt : Stored(k)
  BY <1>1 DEF Linked, RuntimeLinked, Stored
<1>3. \A k \in DOMAIN rt : rt[k].space = 1
  BY OnlyOne DEF Linked, RuntimeLinked
<1>4. call[c].space = 1
  BY <1>1, OnlyOne DEF Linked, CallLinked, Named
<1>5. DOMAIN rt = {}
  BY <1>1, <1>2, <1>3, <1>4
<1>6. rt \in Seq(RuntimeRow) /\ DOMAIN rt = 1 .. Len(rt) /\ Len(rt) \in Nat
  BY DEF TypeOK
<1>7. Len(rt) = 0
  BY <1>5, <1>6
<1>. QED
  BY <1>6, <1>7

LEMMA LinkedCreateCloudAdminSpace ==
  ASSUME TypeOK, Linked, NEW c \in Calls, CreateCloudAdminSpace(c)
  PROVE  Linked'
<1>1. rt = <<>> /\ Len(rt) = 0
  BY CreateFindsNone
<1>2. /\ OthersStay(c) /\ Answered(c, Len(rt) + 1, 1)
      /\ DOMAIN rt' = 1 .. (Len(rt) + 1) /\ Len(rt') = Len(rt) + 1
      /\ rt'[Len(rt) + 1] = [space |-> call[c].space, trial |-> call[c].trial,
                             suspended |-> FALSE, phase |-> "live", code |-> 1]
      /\ call[c].space \in DOMAIN cp
  BY LinkedNames, TypeCreateCloudAdminSpace
<1>3. /\ ~Idle(c) /\ call[c].pc # "insert" /\ UNCHANGED <<cp, granted>>
  BY DEF CreateCloudAdminSpace, Arrived, At, Idle
<1>4. SpacesKept /\ RuntimesKept
  BY <1>1, <1>3 DEF SpacesKept, RuntimesKept
<1>5. GoesOn(c)
  BY <1>1, <1>2, <1>3, AnsweredGoesOn
<1>6. \A d \in Calls : (~Idle(d) => CallLinked(d))'
  BY <1>2, <1>4, <1>5, StaysGoesOn, GoesOnLinked DEF Linked
<1>7. \A i \in DOMAIN cp' : RowLinked(i)'
  BY <1>1, <1>3 DEF Linked, RowLinked
<1>8. \A k \in DOMAIN rt' : RuntimeLinked(k)'
  BY <1>1, <1>2, <1>3 DEF RuntimeLinked
<1>. QED
  BY <1>1, <1>2, <1>3, <1>6, <1>7, <1>8 DEF Linked

-----------------------------------------------------------------------------
LEMMA TypeNext == TypeOK /\ Linked /\ [Next]_vars => TypeOK' /\ Linked'
<1> SUFFICES ASSUME TypeOK, Linked, [Next]_vars
             PROVE  TypeOK' /\ Linked'
  OBVIOUS
<1>1. ASSUME NEW c \in Calls, Web(c)
      PROVE  TypeOK' /\ Linked'
  <2>1. CASE \/ RetryProvision(c) \/ StartProvision(c) \/ StartRotate(c)
             \/ StartDelete(c) \/ StartDashboard(c)
    BY <2>1, TypeBegin, LinkedBegin
  <2>2. CASE CreateFreeCloudSpaceGrant(c)
    BY <2>2, TypeCreateFreeCloudSpaceGrant, LinkedCreateFreeCloudSpaceGrant
  <2>3. CASE MarkCloudSpaceProvisioned(c)
    BY <2>3, TypeMarkCloudSpaceProvisioned, LinkedMarkCloudSpaceProvisioned
  <2>4. CASE UpdateRoomCodeDisplay(c)
    BY <2>4, TypeUpdateRoomCodeDisplay, LinkedUpdateRoomCodeDisplay
  <2>5. CASE MarkCloudSpaceDeletePending(c)
    BY <2>5, TypeMarkCloudSpaceDeletePending, LinkedMarkCloudSpaceDeletePending
  <2>6. CASE MarkCloudSpaceDeleted(c)
    BY <2>6, TypeMarkCloudSpaceDeleted, LinkedMarkCloudSpaceDeleted
  <2>7. CASE \E t \in 0 .. MaxTime : StartOverride(c, t)
    BY <2>7, TypeStartOverride, LinkedStartOverride
  <2>8. CASE UpdateResolvedPolicy(c)
    BY <2>8, TypeUpdateResolvedPolicy, LinkedUpdateResolvedPolicy
  <2>9. CASE MarkExpiredSuspended(c)
    BY <2>9, TypeMarkExpiredSuspended, LinkedMarkExpiredSuspended
  <2>10. CASE Fail(c) \/ Abandon(c)
    BY <2>10, TypeFail, LinkedFail
  <2>. QED
    BY <1>1, <2>1, <2>2, <2>3, <2>4, <2>5, <2>6, <2>7, <2>8, <2>9, <2>10 DEF Web
<1>2. ASSUME NEW c \in Calls, Runtime(c)
      PROVE  TypeOK' /\ Linked'
  <2>1. CASE CreateCloudAdminSpace(c)
    BY <2>1, LinkedNames, TypeCreateCloudAdminSpace, LinkedCreateCloudAdminSpace
  <2>2. CASE CreateAgain(c) \/ RotateAgain(c)
    BY <2>2, TypeAnsweredAgain, LinkedAnsweredAgain
  <2>3. CASE RotateCloudAdminRoomCode(c)
    BY <2>3, LinkedNames, TypeRotateCloudAdminRoomCode, LinkedRuntimeRequest
  <2>4. CASE RotateSuspended(c)
    BY <2>4, TypeRotateSuspended, LinkedRuntimeRequest
  <2>5. CASE SoftDeleteCloudAdminSpace(c)
    BY <2>5, TypeSoftDeleteCloudAdminSpace, LinkedRuntimeRequest
  <2>6. CASE UpdateRuntimePolicy(c)
    BY <2>6, TypeUpdateRuntimePolicy, LinkedRuntimeRequest
  <2>. QED
    BY <1>2, <2>1, <2>2, <2>3, <2>4, <2>5, <2>6 DEF Runtime
<1>3. ASSUME NEW k \in DOMAIN rt, SuspendExpired(k) \/ Collect(k)
      PROVE  TypeOK' /\ Linked'
  BY <1>3, TypeSuspendExpired, TypeCollect, LinkedRuntimeAlone
<1>4. CASE Tick
  <2>1. now' \in 0 .. MaxTime
    BY <1>4, Bounds DEF Tick, TypeOK
  <2>2. UNCHANGED <<cp, granted, rt, rotations, call, doubt>>
    BY <1>4 DEF Tick
  <2>3. TypeOK'
    BY <2>1, <2>2 DEF TypeOK
  <2>4. Linked'
    BY <2>2 DEF Linked, RowLinked, CallLinked, RuntimeLinked, Named, Idle
  <2>. QED
    BY <2>3, <2>4
<1>5. CASE UNCHANGED vars
  BY <1>5 DEF vars, TypeOK, Linked, RowLinked, CallLinked, RuntimeLinked, Named, Idle
<1>. QED
  BY <1>1, <1>2, <1>3, <1>4, <1>5 DEF Next

LEMMA Links == Spec => [](TypeOK /\ Linked)
<1>1. Init => TypeOK /\ Linked
  BY TypeInit, LinkedInit
<1>. QED
  BY <1>1, TypeNext, PTL DEF Spec

\* Every row, call and rotation keeps its type, and a Space that waits for
\* its provisioning names no runtime Space.
THEOREM TypeCorrect == Spec => []TypeOK
  BY Links, PTL

\* One free trial Space per account, and one runtime Space for it, whatever
\* requests are doubled, repeated, lost or late.
THEOREM OneSpaceCorrect == Spec => []OneSpace
<1>1. TypeOK /\ Linked => OneSpace
  BY OnlyOne DEF Linked, OneSpace
<1>. QED
  BY <1>1, Links, PTL

\* A row that is past provisioning names the runtime Space made for it.
THEOREM NamesItsRuntimeCorrect == Spec => []NamesItsRuntime
<1>1. TypeOK /\ Linked => NamesItsRuntime
  <2> SUFFICES ASSUME TypeOK, Linked, NEW i \in DOMAIN cp,
                      cp[i].status \in {"active", "delete_pending", "deleted"}
               PROVE  cp[i].runtime \in DOMAIN rt /\ rt[cp[i].runtime].space = i
    BY DEF NamesItsRuntime
  <2>1. cp[i].runtime \in DOMAIN rt
    BY DEF Linked, RowLinked
  <2>. QED
    BY <2>1, OnlyOne DEF Linked, RuntimeLinked
<1>. QED
  BY <1>1, Links, PTL

-----------------------------------------------------------------------------
(***************************************************************************)
(* Deletion.  The runtime has confirmed, and no row opens again.           *)
(***************************************************************************)
NoneLive == \A k \in DOMAIN rt : rt[k].phase # "live"

Disbanded ==
    /\ \A i \in DOMAIN cp : cp[i].status = "deleted" => NoneLive
    /\ \A c \in Calls : Confirmed(c) => NoneLive

\* What keeps it: no row opens, and no status or answer says more than the
\* runtime.
LEMMA DisbandedKept ==
  ASSUME Disbanded, DOMAIN rt' \subseteq DOMAIN rt,
         \A k \in DOMAIN rt' : rt'[k].phase = "live" => rt[k].phase = "live",
         \A i \in DOMAIN cp' : cp'[i].status = "deleted" =>
             (i \in DOMAIN cp /\ cp[i].status = "deleted") \/ NoneLive',
         \A d \in Calls : Confirmed(d)' => Confirmed(d) \/ NoneLive'
  PROVE  Disbanded'
  BY DEF Disbanded, NoneLive

LEMMA StaysConfirmed ==
  ASSUME NEW c \in Calls, OthersStay(c), call'[c] = None \/ call'[c].pc # "answered"
  PROVE  \A d \in Calls : Confirmed(d)' => Confirmed(d)
  BY DEF OthersStay, Confirmed, At

LEMMA AnsweredConfirmed ==
  ASSUME NEW c \in Calls, OthersStay(c), NEW k, NEW n, Answered(c, k, n),
         call[c].op # "delete"
  PROVE  \A d \in Calls : Confirmed(d)' => Confirmed(d)
  BY DEF OthersStay, Answered, Confirmed, At

LEMMA DisbandedWeb ==
  ASSUME TypeOK, Linked, Disbanded, NEW c \in Calls, Web(c)
  PROVE  Disbanded'
<1>1. CASE \/ RetryProvision(c) \/ StartProvision(c) \/ StartRotate(c)
           \/ StartDelete(c) \/ StartDashboard(c)
  <2>1. /\ OthersStay(c) /\ call'[c].pc # "answered" /\ UNCHANGED <<cp, rt>>
    BY <1>1, TypeBegin DEF BeganWith
  <2>. QED
    BY <2>1, StaysConfirmed, DisbandedKept
<1>2. CASE CreateFreeCloudSpaceGrant(c)
  <2>1. OthersStay(c) /\ call'[c].pc = "sent"
    BY <1>2, TypeCreateFreeCloudSpaceGrant DEF Call
  <2>2. \A i \in DOMAIN cp' : cp'[i].status = "deleted" =>
          i \in DOMAIN cp /\ cp[i].status = "deleted"
    <3>1. /\ Len(cp) \in Nat /\ DOMAIN cp = 1 .. Len(cp) /\ DOMAIN cp' = 1 .. (Len(cp) + 1)
          /\ \A j \in 1 .. Len(cp) : cp'[j] = cp[j]
          /\ cp'[Len(cp) + 1] = [status |-> "pending", trial |-> call[c].trial,
                                  runtime |-> 0, shown |-> 0]
      BY <1>2, TypeCreateFreeCloudSpaceGrant
    <3>2. \A i \in DOMAIN cp' : i \in 1 .. Len(cp) \/ i = Len(cp) + 1
      BY <3>1
    <3>. QED
      BY <3>1, <3>2
  <2>3. rt' = rt
    BY <1>2 DEF CreateFreeCloudSpaceGrant
  <2>. QED
    BY <2>1, <2>2, <2>3, StaysConfirmed, DisbandedKept
<1>3. ASSUME NEW row, SpaceWritten(call[c].space, row), call[c].space \in DOMAIN cp,
             OthersStay(c), call'[c] = None \/ call'[c].pc # "answered", rt' = rt,
             row.status = "deleted" => cp[call[c].space].status = "deleted" \/ NoneLive'
      PROVE  Disbanded'
  <2>1. \A i \in DOMAIN cp' : cp'[i].status = "deleted" =>
          (i \in DOMAIN cp /\ cp[i].status = "deleted") \/ NoneLive'
    BY <1>3 DEF SpaceWritten
  <2>. QED
    BY <1>3, <2>1, StaysConfirmed, DisbandedKept
<1>4. \A d \in Calls : ~Idle(d) /\ call[d].pc # "insert" => call[d].space \in DOMAIN cp
  BY LinkedNames DEF CallsNamed, Named
<1>5. \A i \in DOMAIN cp : cp[i] \in Row
  BY RowTyped
<1>6. CASE MarkCloudSpaceProvisioned(c)
  <2>1. call[c].space \in DOMAIN cp /\ rt' = rt
    BY <1>4, <1>6 DEF MarkCloudSpaceProvisioned, At, Idle
  <2>. QED
    BY <1>3, <1>5, <1>6, <2>1, TypeMarkCloudSpaceProvisioned DEF Row
<1>7. CASE UpdateRoomCodeDisplay(c)
  <2>1. call[c].space \in DOMAIN cp /\ rt' = rt
    BY <1>4, <1>7 DEF UpdateRoomCodeDisplay, At, Idle
  <2>. QED
    BY <1>3, <1>5, <1>7, <2>1, TypeUpdateRoomCodeDisplay DEF Row
<1>8. CASE MarkCloudSpaceDeletePending(c)
  <2>1. call[c].space \in DOMAIN cp /\ rt' = rt
    BY <1>4, <1>8 DEF MarkCloudSpaceDeletePending, At, Idle
  <2> DEFINE row == [cp[call[c].space] EXCEPT !.status = "delete_pending"]
  <2>2. SpaceWritten(call[c].space, row) /\ OthersStay(c) /\ call'[c].pc = "sent"
    BY <1>8, TypeMarkCloudSpaceDeletePending DEF Call
  <2>3. row.status = "delete_pending"
    BY <1>5, <2>1 DEF Row
  <2>. QED
    BY <1>3, <2>1, <2>2, <2>3
<1>9. CASE MarkCloudSpaceDeleted(c)
  <2>1. call[c].space \in DOMAIN cp /\ rt' = rt /\ NoneLive'
    BY <1>4, <1>9 DEF MarkCloudSpaceDeleted, Confirmed, At, Idle, Disbanded, NoneLive
  <2>. QED
    BY <1>3, <1>9, <2>1, TypeMarkCloudSpaceDeleted
<1>10. CASE \E t \in 0 .. MaxTime : StartOverride(c, t)
  <2>1. UNCHANGED <<cp, rt>>
    BY <1>10 DEF StartOverride
  <2>2. /\ call'[c].op = "override"
        /\ \A d \in Calls \ {c} :
             \/ call'[d] = call[d]
             \/ Overriding(d) /\ call'[d] = [call[d] EXCEPT !.alone = FALSE]
    BY <1>10, TypeStartOverride
  <2>3. \A d \in Calls : Overriding(d) => call[d] \in Call /\ call[d].op = "override"
    BY DEF Overriding, TypeOK
  <2>4. \A d \in Calls : Confirmed(d)' => Confirmed(d)
    <3> SUFFICES ASSUME NEW d \in Calls, Confirmed(d)'
                 PROVE  Confirmed(d)
      OBVIOUS
    <3>1. d # c
      BY <2>2 DEF Confirmed, At
    <3>2. CASE call'[d] = call[d]
      BY <3>2 DEF Confirmed, At
    <3>3. CASE Overriding(d) /\ call'[d] = [call[d] EXCEPT !.alone = FALSE]
      <4>1. call'[d].op = "override"
        BY <2>3, <3>3 DEF Call
      <4>. QED
        BY <4>1 DEF Confirmed, At
    <3>. QED
      BY <2>2, <3>1, <3>2, <3>3
  <2>. QED
    BY <2>1, <2>4, DisbandedKept
<1>11. CASE UpdateResolvedPolicy(c)
  <2>1. call[c].space \in DOMAIN cp /\ rt' = rt
    BY <1>4, <1>11 DEF UpdateResolvedPolicy, Applied, At, Idle
  <2>. QED
    BY <1>3, <1>5, <1>11, <2>1, TypeUpdateResolvedPolicy DEF Row, Unsuspended
<1>12. CASE MarkExpiredSuspended(c)
  <2>1. call[c].space \in DOMAIN cp /\ rt' = rt
    BY <1>4, <1>12 DEF MarkExpiredSuspended, At, Idle
  <2>. QED
    BY <1>3, <1>5, <1>12, <2>1, TypeMarkExpiredSuspended DEF Row
<1>13. CASE Fail(c) \/ Abandon(c)
  <2>1. OthersStay(c) /\ UNCHANGED <<cp, rt>> /\ (call'[c] = None \/ call'[c].pc # "answered")
    BY <1>13, TypeFail DEF Call
  <2>. QED
    BY <2>1, StaysConfirmed, DisbandedKept
<1>. QED
  BY <1>1, <1>2, <1>6, <1>7, <1>8, <1>9, <1>10, <1>11, <1>12, <1>13 DEF Web

LEMMA DisbandedRuntime ==
  ASSUME TypeOK, Linked, Disbanded, NEW c \in Calls, Runtime(c)
  PROVE  Disbanded'
<1> DEFINE k == call[c].runtime
<1>1. \A l \in DOMAIN rt : rt[l] \in RuntimeRow
  BY RowTyped
<1>2. CASE CreateCloudAdminSpace(c)
  <2>1. rt = <<>>
    BY <1>2, CreateFindsNone
  <2>2. \A i \in DOMAIN cp : cp[i].status # "deleted"
    BY <2>1 DEF Linked, RowLinked
  <2>3. OthersStay(c) /\ Answered(c, Len(rt) + 1, 1)
    BY <1>2, LinkedNames, TypeCreateCloudAdminSpace
  <2>4. call[c].op # "delete" /\ cp' = cp
    BY <1>2 DEF CreateCloudAdminSpace, Arrived, At
  <2>5. \A d \in Calls : Confirmed(d)' => Confirmed(d)
    BY <2>3, <2>4, AnsweredConfirmed
  <2>6. \A d \in Calls : ~Confirmed(d)
    BY <2>1 DEF Linked, CallLinked, Confirmed, At, Idle
  <2>. QED
    BY <2>2, <2>4, <2>5, <2>6 DEF Disbanded
<1>3. CASE CreateAgain(c) \/ RotateAgain(c)
  <2>1. OthersStay(c) /\ UNCHANGED <<cp, rt>>
        /\ (call'[c] = None \/ \E l, n : Answered(c, l, n))
    BY <1>3, TypeAnsweredAgain
  <2>2. call[c].op # "delete"
    BY <1>3 DEF CreateAgain, RotateAgain, Arrived, At
  <2>3. \A d \in Calls : Confirmed(d)' => Confirmed(d)
    BY <2>1, <2>2, StaysConfirmed, AnsweredConfirmed
  <2>. QED
    BY <2>1, <2>3, DisbandedKept
<1>4. ASSUME NEW row, k \in DOMAIN rt, RuntimeRowWritten(k, row), cp' = cp,
             row.phase = "live" => rt[k].phase = "live",
             \A d \in Calls : Confirmed(d)' => Confirmed(d) \/ NoneLive'
      PROVE  Disbanded'
  <2>1. \A l \in DOMAIN rt' : rt'[l].phase = "live" => rt[l].phase = "live"
    BY <1>4 DEF RuntimeRowWritten
  <2>. QED
    BY <1>4, <2>1, DisbandedKept DEF RuntimeRowWritten
<1>5. CASE RotateCloudAdminRoomCode(c)
  <2>1. call[c].op # "delete" /\ cp' = cp
    BY <1>5 DEF RotateCloudAdminRoomCode, Arrived, At
  <2>2. /\ k \in DOMAIN rt /\ OthersStay(c) /\ Answered(c, k, rt[k].code + 1)
        /\ RuntimeRowWritten(k, [rt[k] EXCEPT !.code = rt[k].code + 1])
    BY <1>5, LinkedNames, TypeRotateCloudAdminRoomCode
  <2>3. \A d \in Calls : Confirmed(d)' => Confirmed(d)
    BY <2>1, <2>2, AnsweredConfirmed
  <2>. QED
    BY <1>1, <1>4, <2>1, <2>2, <2>3 DEF RuntimeRow
<1>6. CASE RotateSuspended(c)
  <2>1. cp' = cp
    BY <1>6 DEF RotateSuspended
  <2>2. /\ k \in DOMAIN rt /\ OthersStay(c) /\ call'[c] = None
        /\ RuntimeRowWritten(k, [rt[k] EXCEPT !.suspended = TRUE])
    BY <1>6, TypeRotateSuspended
  <2>3. \A d \in Calls : Confirmed(d)' => Confirmed(d)
    BY <2>2, StaysConfirmed
  <2>. QED
    BY <1>1, <1>4, <2>1, <2>2, <2>3 DEF RuntimeRow
<1>7. CASE SoftDeleteCloudAdminSpace(c)
  <2>1. cp' = cp
    BY <1>7 DEF SoftDeleteCloudAdminSpace
  <2> DEFINE row == [rt[k] EXCEPT !.phase = "disbanded"]
  <2>2. /\ k \in DOMAIN rt /\ RuntimeRowWritten(k, row)
    BY <1>7, TypeSoftDeleteCloudAdminSpace
  <2>3. row.phase = "disbanded"
    BY <1>1, <2>2 DEF RuntimeRow
  <2>4. NoneLive'
    BY <2>2, <2>3, OnlyOne DEF RuntimeRowWritten, NoneLive
  <2>. QED
    BY <1>4, <2>1, <2>2, <2>3, <2>4
<1>8. CASE UpdateRuntimePolicy(c)
  <2>1. cp' = cp /\ call[c].op # "delete"
    BY <1>8 DEF UpdateRuntimePolicy, Arrived, At
  <2>2. k \in DOMAIN rt /\ OthersStay(c) /\ Answered(c, k, call[c].shown)
    BY <1>8, TypeUpdateRuntimePolicy
  <2>3. PICK s \in BOOLEAN :
          RuntimeRowWritten(k, [rt[k] EXCEPT !.trial = call[c].trial, !.suspended = s])
    BY <1>8, TypeUpdateRuntimePolicy
  <2>4. \A d \in Calls : Confirmed(d)' => Confirmed(d)
    BY <2>1, <2>2, AnsweredConfirmed
  <2>. QED
    BY <1>1, <1>4, <2>1, <2>2, <2>3, <2>4 DEF RuntimeRow
<1>. QED
  BY <1>2, <1>3, <1>5, <1>6, <1>7, <1>8 DEF Runtime

LEMMA DisbandedRuntimeAlone ==
  ASSUME TypeOK, Linked, Disbanded, NEW k \in DOMAIN rt, SuspendExpired(k) \/ Collect(k)
  PROVE  Disbanded'
<1>1. rt[k] \in RuntimeRow
  BY RowTyped
<1>2. cp' = cp /\ call' = call
  BY DEF SuspendExpired, Collect
<1>3. PICK row : RuntimeRowWritten(k, row) /\ (row.phase = "live" => rt[k].phase = "live")
  <2>1. CASE SuspendExpired(k)
    <3> DEFINE row == [rt[k] EXCEPT !.suspended = TRUE]
    <3>1. RuntimeRowWritten(k, row)
      BY <2>1, TypeSuspendExpired
    <3>2. row.phase = "live" => rt[k].phase = "live"
      BY <1>1 DEF RuntimeRow
    <3>. QED
      BY <3>1, <3>2
  <2>2. CASE Collect(k)
    <3> DEFINE row == [rt[k] EXCEPT !.phase = "gone"]
    <3>1. RuntimeRowWritten(k, row)
      BY <2>2, TypeCollect
    <3>2. row.phase = "live" => rt[k].phase = "live"
      BY <1>1 DEF RuntimeRow
    <3>. QED
      BY <3>1, <3>2
  <2>. QED
    BY <2>1, <2>2
<1>4. \A l \in DOMAIN rt' : rt'[l].phase = "live" => rt[l].phase = "live"
  BY <1>3 DEF RuntimeRowWritten
<1>5. \A d \in Calls : Confirmed(d)' => Confirmed(d)
  BY <1>2 DEF Confirmed, At
<1>. QED
  BY <1>2, <1>3, <1>4, <1>5, DisbandedKept DEF RuntimeRowWritten

LEMMA Deletions == Spec => []Disbanded
<1>1. Init => Disbanded
  BY DEF Init, Disbanded, Confirmed, At
<1>2. TypeOK /\ Linked /\ Disbanded /\ [Next]_vars => Disbanded'
  <2> SUFFICES ASSUME TypeOK, Linked, Disbanded, [Next]_vars
               PROVE  Disbanded'
    OBVIOUS
  <2>1. CASE Tick \/ UNCHANGED vars
    <3>1. UNCHANGED <<cp, rt, call>>
      BY <2>1 DEF Tick, vars
    <3>. QED
      BY <3>1 DEF Disbanded, NoneLive, Confirmed, At
  <2>. QED
    BY <2>1, DisbandedWeb, DisbandedRuntime, DisbandedRuntimeAlone DEF Next
<1>. QED
  BY <1>1, <1>2, Links, PTL DEF Spec

\* No Space is called deleted whose runtime Space still admits members.
THEOREM DeletedIsDisbandedCorrect == Spec => []DeletedIsDisbanded
<1>1. Disbanded => DeletedIsDisbanded
  BY DEF Disbanded, NoneLive, DeletedIsDisbanded
<1>. QED
  BY <1>1, Deletions, PTL

\* A deleted row stays deleted unless the answer to a create is still out.
LEMMA DeletedStep ==
  ASSUME TypeOK, Linked, [Next]_vars, NEW i \in DOMAIN cp, cp[i].status = "deleted",
         \A c \in Calls : ~At(c, "provision", "answered")
  PROVE  cp'[i].status = "deleted"
<1>1. ASSUME cp' = cp
      PROVE  cp'[i].status = "deleted"
  BY <1>1
<1>2. \A j \in DOMAIN cp : cp[j] \in Row
  BY RowTyped
<1>3. ASSUME NEW c \in Calls, Web(c)
      PROVE  cp'[i].status = "deleted"
  <2>1. ASSUME NEW row, SpaceWritten(call[c].space, row),
               call[c].space = i => row.status = "deleted"
        PROVE  cp'[i].status = "deleted"
    BY <2>1 DEF SpaceWritten
  <2>2. CASE CreateFreeCloudSpaceGrant(c)
    <3>1. DOMAIN cp = 1 .. Len(cp) /\ \A j \in 1 .. Len(cp) : cp'[j] = cp[j]
      BY <2>2, TypeCreateFreeCloudSpaceGrant
    <3>. QED
      BY <3>1
  <2>3. CASE MarkCloudSpaceProvisioned(c)
    BY <2>3 DEF MarkCloudSpaceProvisioned
  <2>4. CASE UpdateRoomCodeDisplay(c)
    <3> DEFINE row == [cp[call[c].space] EXCEPT !.shown = call[c].shown]
    <3>1. SpaceWritten(call[c].space, row)
      BY <2>4, TypeUpdateRoomCodeDisplay
    <3>2. call[c].space = i => row.status = "deleted"
      BY <1>2 DEF Row
    <3>. QED
      BY <2>1, <3>1, <3>2
  <2>5. CASE MarkCloudSpaceDeletePending(c)
    <3>1. call[c].space # i
      BY <2>5 DEF MarkCloudSpaceDeletePending, MayMark
    <3>. QED
      BY <2>1, <2>5, <3>1, TypeMarkCloudSpaceDeletePending
  <2>6. CASE MarkCloudSpaceDeleted(c)
    <3> DEFINE row == [cp[call[c].space] EXCEPT !.status = "deleted"]
    <3>1. SpaceWritten(call[c].space, row)
      BY <2>6, TypeMarkCloudSpaceDeleted
    <3>2. call[c].space = i => row.status = "deleted"
      BY <1>2 DEF Row
    <3>. QED
      BY <2>1, <3>1, <3>2
  <2>7. CASE UpdateResolvedPolicy(c)
    <3> DEFINE row == [cp[call[c].space] EXCEPT !.trial = call[c].trial,
                                       !.status = Unsuspended(@, call[c].trial)]
    <3>1. SpaceWritten(call[c].space, row)
      BY <2>7, TypeUpdateResolvedPolicy
    <3>2. call[c].space = i => row.status = "deleted"
      BY <1>2 DEF Row, Unsuspended
    <3>. QED
      BY <2>1, <3>1, <3>2
  <2>8. CASE MarkExpiredSuspended(c)
    <3> DEFINE s == IF cp[call[c].space].status \in {"pending", "active"}
                    THEN "suspended" ELSE cp[call[c].space].status
               row == [cp[call[c].space] EXCEPT !.status = s]
    <3>1. SpaceWritten(call[c].space, row)
      BY <2>8, TypeMarkExpiredSuspended
    <3>2. call[c].space = i => row.status = "deleted"
      BY <1>2 DEF Row
    <3>. QED
      BY <2>1, <3>1, <3>2
  <2>9. CASE \/ RetryProvision(c) \/ StartProvision(c) \/ StartRotate(c)
             \/ StartDelete(c) \/ StartDashboard(c)
    BY <1>1, <2>9, TypeBegin
  <2>10. CASE (\E t \in 0 .. MaxTime : StartOverride(c, t)) \/ Fail(c) \/ Abandon(c)
    BY <1>1, <2>10 DEF StartOverride, Fail, Abandon
  <2>. QED
    BY <1>3, <2>2, <2>3, <2>4, <2>5, <2>6, <2>7, <2>8, <2>9, <2>10 DEF Web
<1>4. ASSUME NEW c \in Calls, Runtime(c)
      PROVE  cp'[i].status = "deleted"
  BY <1>1, <1>4 DEF Runtime, CreateCloudAdminSpace, CreateAgain, RotateCloudAdminRoomCode,
     RotateAgain, RotateSuspended, SoftDeleteCloudAdminSpace, UpdateRuntimePolicy
<1>5. CASE \/ \E k \in DOMAIN rt : SuspendExpired(k) \/ Collect(k)
           \/ Tick \/ UNCHANGED vars
  BY <1>1, <1>5 DEF SuspendExpired, Collect, Tick, vars
<1>. QED
  BY <1>3, <1>4, <1>5 DEF Next

\* Neither a suspension nor an override nor a second delete reopens a deleted
\* Space: only a late answer to a create does.
THEOREM DeletedStaysCorrect == Spec => DeletedStays
<1>1. TypeOK /\ Linked /\ [Next]_vars =>
        [\A i \in DOMAIN cp :
           /\ cp[i].status = "deleted"
           /\ ~\E c \in Calls : At(c, "provision", "answered")
           => cp'[i].status = "deleted"]_vars
  BY DeletedStep
<1>. QED
  BY <1>1, Links, PTL DEF Spec, DeletedStays

-----------------------------------------------------------------------------
(***************************************************************************)
(* The displayed code.  The rotation that drew a code is recorded under    *)
(* the code before it, so the records are a chain from any code that was   *)
(* ever shown to the one the runtime holds.                                *)
(***************************************************************************)
RowShown(i) ==
    /\ cp[i].runtime # 0 <=> cp[i].shown # 0
    /\ \A k \in DOMAIN rt : cp[i].shown <= rt[k].code

CallShown(c) ==
    \/ call[c].op = "rotate"
    \/ call[c].op = "provision" /\ call[c].pc = "answered"
    => /\ call[c].shown # 0
       /\ \A k \in DOMAIN rt : call[c].shown <= rt[k].code

Chained(k) ==
    /\ \A r \in rotations : r.key < r.code /\ r.code <= rt[k].code
    /\ Stored(k) => \A n \in Nat : 0 < n /\ n < rt[k].code =>
                      \E r \in rotations : r.space = rt[k].space /\ r.key = n

Displayed ==
    /\ \A i \in DOMAIN cp : RowShown(i)
    /\ \A c \in Calls : ~Idle(c) => CallShown(c)
    /\ \A k \in DOMAIN rt : Chained(k)
    /\ rt = <<>> => rotations = {}

\* Codes only grow: what was shown stays below them.
CodesGrow == /\ DOMAIN rt' \subseteq DOMAIN rt
             /\ \A k \in DOMAIN rt' : rt'[k].code \in Nat /\ rt[k].code <= rt'[k].code

LEMMA CodeTyped ==
  ASSUME TypeOK
  PROVE  /\ \A i \in DOMAIN cp : cp[i].shown \in Nat /\ cp[i].runtime \in Nat
         /\ \A k \in DOMAIN rt : rt[k].code \in Nat /\ rt[k].code > 0
         /\ \A c \in Calls : ~Idle(c) => call[c].shown \in Nat
         /\ \A r \in rotations : r.key \in Nat /\ r.code \in Nat /\ r.code > 0
<1>1. \A i \in DOMAIN cp : cp[i].shown \in Nat /\ cp[i].runtime \in Nat
  BY RowTyped, Bounds DEF Row
<1>2. \A k \in DOMAIN rt : rt[k].code \in Nat /\ rt[k].code > 0
  BY RowTyped, Bounds DEF RuntimeRow
<1>3. \A c \in Calls : ~Idle(c) => call[c] \in Call
  BY DEF TypeOK, Idle
<1>4. \A c \in Calls : ~Idle(c) => call[c].shown \in Nat
  BY <1>3, Bounds DEF Call
<1>5. \A r \in rotations : r.key \in Nat /\ r.code \in Nat /\ r.code > 0
  BY Bounds DEF TypeOK, Rotation
<1>. QED
  BY <1>1, <1>2, <1>4, <1>5

\* What was shown to a row or a call stays below a code that has grown.
LEMMA ShownKept ==
  ASSUME TypeOK, CodesGrow, Displayed
  PROVE  /\ \A i \in DOMAIN cp : cp' = cp => RowShown(i)'
         /\ \A c \in Calls : call'[c] = call[c] => (~Idle(c) => CallShown(c))'
<1>1. ASSUME NEW i \in DOMAIN cp, cp' = cp
      PROVE  RowShown(i)'
  BY <1>1, CodeTyped DEF RowShown, CodesGrow, Displayed
<1>2. ASSUME NEW c \in Calls, call'[c] = call[c]
      PROVE  (~Idle(c) => CallShown(c))'
  BY <1>2, CodeTyped DEF CallShown, CodesGrow, Displayed, Idle
<1>. QED
  BY <1>1, <1>2

LEMMA ShownAnswer ==
  ASSUME NEW c \in Calls, NEW k, NEW n, call'[c] = None \/ Answered(c, k, n),
         \/ call[c].op \notin {"rotate", "provision"}
         \/ n # 0 /\ \A l \in DOMAIN rt' : n <= rt'[l].code
  PROVE  (~Idle(c) => CallShown(c))'
  BY DEF Answered, Idle, CallShown

\* A step that writes one row of cloud_spaces.
LEMMA DisplayedSpaceWritten ==
  ASSUME TypeOK, Displayed, NEW i \in DOMAIN cp, NEW row, SpaceWritten(i, row),
         row.runtime # 0 <=> row.shown # 0,
         \A k \in DOMAIN rt : row.shown <= rt[k].code,
         UNCHANGED <<rt, rotations>>,
         NEW c \in Calls, OthersStay(c), (~Idle(c) => CallShown(c))'
  PROVE  Displayed'
<1>1. CodesGrow
  BY CodeTyped DEF CodesGrow
<1>2. \A d \in Calls : (~Idle(d) => CallShown(d))'
  BY <1>1, ShownKept DEF OthersStay
<1>3. \A j \in DOMAIN cp' : RowShown(j)'
  BY DEF Displayed, RowShown, SpaceWritten
<1>4. \A k \in DOMAIN rt' : Chained(k)'
  BY DEF Displayed, Chained, Stored
<1>. QED
  BY <1>2, <1>3, <1>4 DEF Displayed

\* A step that changes neither database.
LEMMA DisplayedCallOnly ==
  ASSUME TypeOK, Displayed, UNCHANGED <<cp, rt, rotations>>,
         NEW c \in Calls, OthersStay(c), (~Idle(c) => CallShown(c))'
  PROVE  Displayed'
<1>1. CodesGrow
  BY CodeTyped DEF CodesGrow
<1>2. \A d \in Calls : (~Idle(d) => CallShown(d))'
  BY <1>1, ShownKept DEF OthersStay
<1>. QED
  BY <1>2 DEF Displayed, RowShown, Chained, Stored

\* A step that writes one runtime row and draws no code.
LEMMA DisplayedRuntimeWritten ==
  ASSUME TypeOK, Linked, Displayed, NEW k \in DOMAIN rt, NEW row,
         RuntimeRowWritten(k, row),
         row.code = rt[k].code, row.space = rt[k].space,
         rt[k].phase = "gone" => row.phase = "gone",
         cp' = cp,
         \/ rotations' = rotations
         \/ rotations' \subseteq rotations /\ row.phase = "gone",
         \A d \in Calls : (~Idle(d) => CallShown(d))'
  PROVE  Displayed'
<1>1. CodesGrow
  BY CodeTyped DEF CodesGrow, RuntimeRowWritten
<1>2. \A j \in DOMAIN cp' : RowShown(j)'
  BY <1>1, ShownKept
<1>3. rt'[k] = row /\ DOMAIN rt' = DOMAIN rt /\ \A l \in DOMAIN rt : l = k
  BY OnlyOne DEF RuntimeRowWritten
<1>4. Chained(k)
  BY DEF Displayed
<1>5. Chained(k)'
  BY <1>3, <1>4 DEF Chained, Stored
<1>6. \A l \in DOMAIN rt' : Chained(l)'
  BY <1>3, <1>5
<1>7. rt' # <<>>
  BY <1>3
<1>. QED
  BY <1>2, <1>6, <1>7 DEF Displayed

LEMMA DisplayedWeb ==
  ASSUME TypeOK, Linked, Displayed, NEW c \in Calls, Web(c)
  PROVE  Displayed'
<1> DEFINE i == call[c].space
<1>1. \A d \in Calls : ~Idle(d) /\ call[d].pc # "insert" => call[d].space \in DOMAIN cp
  BY LinkedNames DEF CallsNamed, Named
<1>2. \A j \in DOMAIN cp : cp[j] \in Row /\ RowShown(j)
  BY RowTyped DEF Displayed
<1>3. call'[c] = None => (~Idle(c) => CallShown(c))'
  BY DEF Idle
<1>4. CASE \/ RetryProvision(c) \/ StartProvision(c) \/ StartRotate(c)
           \/ StartDelete(c) \/ StartDashboard(c)
  <2>1. OthersStay(c) /\ BeganWith(c) /\ UNCHANGED <<cp, rt, rotations>>
    BY <1>4, TypeBegin
  <2>2. (~Idle(c) => CallShown(c))'
    BY <1>2, <2>1 DEF BeganWith, CallShown, RowShown
  <2>. QED
    BY <2>1, <2>2, DisplayedCallOnly
<1>5. CASE CreateFreeCloudSpaceGrant(c)
  <2>1. /\ OthersStay(c)
        /\ Len(cp) \in Nat /\ DOMAIN cp = 1 .. Len(cp) /\ DOMAIN cp' = 1 .. (Len(cp) + 1)
        /\ cp'[Len(cp) + 1] = [status |-> "pending", trial |-> call[c].trial,
                               runtime |-> 0, shown |-> 0]
        /\ call'[c] = [call[c] EXCEPT !.pc = "sent", !.space = Len(cp) + 1]
        /\ call[c] \in Call
    BY <1>5, TypeCreateFreeCloudSpaceGrant
  <2>2. ~granted /\ UNCHANGED <<rt, rotations>> /\ call[c].op = "provision"
    BY <1>5 DEF CreateFreeCloudSpaceGrant, NoConflict, At
  <2>3. cp = <<>> /\ Len(cp) = 0 /\ DOMAIN cp = {}
    BY <2>2 DEF Linked
  <2>4. DOMAIN rt = {}
    BY <2>3 DEF Linked, RuntimeLinked
  <2>5. \A j \in DOMAIN cp' : RowShown(j)'
    BY <2>1, <2>2, <2>3, <2>4 DEF RowShown
  <2>6. call'[c].pc = "sent" /\ call'[c].op = "provision"
    BY <2>1, <2>2 DEF Call
  <2>7. \A d \in Calls : (~Idle(d) => CallShown(d))'
    BY <2>1, <2>2, <2>6 DEF OthersStay, Displayed, CallShown, Idle
  <2>. QED
    BY <2>2, <2>4, <2>5, <2>7 DEF Displayed
<1>6. CASE MarkCloudSpaceProvisioned(c)
  <2> DEFINE row == [cp[i] EXCEPT !.status = "active", !.runtime = call[c].runtime,
                                  !.shown = call[c].shown]
  <2>1. OthersStay(c) /\ call'[c] = None /\ SpaceWritten(i, row)
    BY <1>6, TypeMarkCloudSpaceProvisioned
  <2>2. /\ ~Idle(c) /\ call[c].op = "provision" /\ call[c].pc = "answered"
        /\ UNCHANGED <<rt, rotations>>
    BY <1>6 DEF MarkCloudSpaceProvisioned, At, Idle
  <2>3. i \in DOMAIN cp /\ CallShown(c)
    BY <1>1, <2>2 DEF Displayed
  <2>4. call[c].runtime # 0
    BY <2>2, OnlyOne DEF Linked, CallLinked
  <2>5. row.runtime = call[c].runtime /\ row.shown = call[c].shown
    BY <1>2, <2>3 DEF Row
  <2>. QED
    BY <1>3, <2>1, <2>2, <2>3, <2>4, <2>5, DisplayedSpaceWritten DEF CallShown
<1>7. CASE UpdateRoomCodeDisplay(c)
  <2> DEFINE row == [cp[i] EXCEPT !.shown = call[c].shown]
  <2>1. OthersStay(c) /\ call'[c] = None /\ SpaceWritten(i, row)
    BY <1>7, TypeUpdateRoomCodeDisplay
  <2>2. /\ ~Idle(c) /\ call[c].op = "rotate" /\ call[c].pc = "answered"
        /\ UNCHANGED <<rt, rotations>>
    BY <1>7 DEF UpdateRoomCodeDisplay, At, Idle
  <2>3. i \in DOMAIN cp /\ CallShown(c)
    BY <1>1, <2>2 DEF Displayed
  <2>4. cp[i].runtime # 0
    BY <2>2 DEF Linked, CallLinked
  <2>5. row.runtime = cp[i].runtime /\ row.shown = call[c].shown
    BY <1>2, <2>3 DEF Row
  <2>. QED
    BY <1>3, <2>1, <2>2, <2>3, <2>4, <2>5, DisplayedSpaceWritten DEF CallShown
<1>8. ASSUME i \in DOMAIN cp, NEW row, SpaceWritten(i, row), OthersStay(c),
             row.runtime = cp[i].runtime, row.shown = cp[i].shown,
             UNCHANGED <<rt, rotations>>, (~Idle(c) => CallShown(c))'
      PROVE  Displayed'
  BY <1>2, <1>8, DisplayedSpaceWritten DEF RowShown
<1>9. CASE MarkCloudSpaceDeletePending(c)
  <2> DEFINE row == [cp[i] EXCEPT !.status = "delete_pending"]
  <2>1. /\ OthersStay(c) /\ SpaceWritten(i, row) /\ i \in DOMAIN cp
        /\ call'[c] = [call[c] EXCEPT !.pc = "sent"] /\ call[c] \in Call
    BY <1>9, TypeMarkCloudSpaceDeletePending
  <2>2. call[c].op = "delete" /\ UNCHANGED <<rt, rotations>>
    BY <1>9 DEF MarkCloudSpaceDeletePending, At
  <2>3. call'[c].op = "delete"
    BY <2>1, <2>2 DEF Call
  <2>4. row.runtime = cp[i].runtime /\ row.shown = cp[i].shown
    BY <1>2, <2>1 DEF Row
  <2>. QED
    BY <1>8, <2>1, <2>2, <2>3, <2>4 DEF CallShown
<1>10. CASE MarkCloudSpaceDeleted(c)
  <2> DEFINE row == [cp[i] EXCEPT !.status = "deleted"]
  <2>1. OthersStay(c) /\ call'[c] = None /\ SpaceWritten(i, row)
    BY <1>10, TypeMarkCloudSpaceDeleted
  <2>2. i \in DOMAIN cp /\ UNCHANGED <<rt, rotations>>
    BY <1>1, <1>10 DEF MarkCloudSpaceDeleted, Confirmed, At, Idle
  <2>3. row.runtime = cp[i].runtime /\ row.shown = cp[i].shown
    BY <1>2, <2>2 DEF Row
  <2>. QED
    BY <1>3, <1>8, <2>1, <2>2, <2>3
<1>11. CASE UpdateResolvedPolicy(c)
  <2> DEFINE row == [cp[i] EXCEPT !.trial = call[c].trial,
                                  !.status = Unsuspended(@, call[c].trial)]
  <2>1. OthersStay(c) /\ call'[c] = None /\ SpaceWritten(i, row)
    BY <1>11, TypeUpdateResolvedPolicy
  <2>2. i \in DOMAIN cp /\ UNCHANGED <<rt, rotations>>
    BY <1>1, <1>11 DEF UpdateResolvedPolicy, Applied, At, Idle
  <2>3. row.runtime = cp[i].runtime /\ row.shown = cp[i].shown
    BY <1>2, <2>2 DEF Row
  <2>. QED
    BY <1>3, <1>8, <2>1, <2>2, <2>3
<1>12. CASE MarkExpiredSuspended(c)
  <2> DEFINE s == IF cp[i].status \in {"pending", "active"} THEN "suspended"
                  ELSE cp[i].status
             row == [cp[i] EXCEPT !.status = s]
  <2>1. OthersStay(c) /\ call'[c] = None /\ SpaceWritten(i, row)
    BY <1>12, TypeMarkExpiredSuspended
  <2>2. i \in DOMAIN cp /\ UNCHANGED <<rt, rotations>>
    BY <1>1, <1>12 DEF MarkExpiredSuspended, At, Idle
  <2>3. row.runtime = cp[i].runtime /\ row.shown = cp[i].shown
    BY <1>2, <2>2 DEF Row
  <2>. QED
    BY <1>3, <1>8, <2>1, <2>2, <2>3
<1>13. CASE \E t \in 0 .. MaxTime : StartOverride(c, t)
  <2>1. UNCHANGED <<cp, rt, rotations>>
    BY <1>13 DEF StartOverride
  <2>2. /\ call'[c].op = "override"
        /\ \A d \in Calls \ {c} :
             \/ call'[d] = call[d]
             \/ Overriding(d) /\ call'[d] = [call[d] EXCEPT !.alone = FALSE]
    BY <1>13, TypeStartOverride
  <2>3. \A d \in Calls : (~Idle(d) => CallShown(d))'
    <3> SUFFICES ASSUME NEW d \in Calls
                 PROVE  (~Idle(d) => CallShown(d))'
      OBVIOUS
    <3>1. CASE d = c
      BY <2>2, <3>1 DEF CallShown
    <3>2. CASE call'[d] = call[d]
      BY <2>1, <3>2 DEF Displayed, CallShown, Idle
    <3>3. CASE Overriding(d) /\ call'[d] = [call[d] EXCEPT !.alone = FALSE]
      <4>1. call[d] \in Call /\ call[d].op = "override"
        BY <3>3 DEF Overriding, TypeOK
      <4>2. call'[d].op = "override"
        BY <3>3, <4>1 DEF Call
      <4>. QED
        BY <4>2 DEF CallShown
    <3>. QED
      BY <2>2, <3>1, <3>2, <3>3
  <2>. QED
    BY <2>1, <2>3 DEF Displayed, RowShown, Chained, Stored
<1>14. CASE Fail(c) \/ Abandon(c)
  <2>1. /\ OthersStay(c) /\ UNCHANGED <<cp, rt, rotations>>
        /\ \/ call'[c] = None
           \/ /\ ~Idle(c) /\ call[c] \in Call
              /\ call'[c] = [call[c] EXCEPT !.pc = "orphan"]
    BY <1>14, TypeFail
  <2>2. (~Idle(c) => CallShown(c))'
    <3>1. CASE call'[c] = None
      BY <1>3, <3>1
    <3>2. CASE ~Idle(c) /\ call[c] \in Call /\ call'[c] = [call[c] EXCEPT !.pc = "orphan"]
      <4>1. /\ call'[c].op = call[c].op /\ call'[c].shown = call[c].shown
            /\ call'[c].pc = "orphan"
        BY <3>2 DEF Call
      <4>. QED
        BY <2>1, <3>2, <4>1 DEF Displayed, CallShown
    <3>. QED
      BY <2>1, <3>1, <3>2
  <2>. QED
    BY <2>1, <2>2, DisplayedCallOnly
<1>. QED
  BY <1>4, <1>5, <1>6, <1>7, <1>9, <1>10, <1>11, <1>12, <1>13, <1>14 DEF Web

LEMMA DisplayedRotate ==
  ASSUME TypeOK, Linked, Displayed, NEW c \in Calls, RotateCloudAdminRoomCode(c)
  PROVE  Displayed'
<1> DEFINE k == call[c].runtime
           n == rt[k].code
           row == [rt[k] EXCEPT !.code = n + 1]
           new == [space |-> call[c].space, key |-> call[c].shown, code |-> n + 1]
<1>1. /\ OthersStay(c) /\ k \in DOMAIN rt /\ RuntimeRowWritten(k, row)
      /\ Answered(c, k, n + 1)
  BY LinkedNames, TypeRotateCloudAdminRoomCode
<1>2. /\ ~Idle(c) /\ call[c].op = "rotate" /\ call[c].pc # "insert"
      /\ Stored(k) /\ RecordedFor(c) = {} /\ cp' = cp
      /\ rotations' = rotations \union {new}
  BY DEF RotateCloudAdminRoomCode, Arrived, At, Idle, KeyOf
<1>3. /\ row.code = n + 1 /\ row.space = rt[k].space /\ row.phase = rt[k].phase
      /\ n \in Nat
  BY <1>1, RowTyped, Bounds DEF RuntimeRow
<1>4. rt'[k] = row /\ DOMAIN rt' = DOMAIN rt /\ \A l \in DOMAIN rt : l = k
  BY <1>1, OnlyOne DEF RuntimeRowWritten
<1>4a. /\ rt'[k].code = n + 1 /\ rt'[k].space = rt[k].space /\ k \in DOMAIN rt'
      /\ \A l \in DOMAIN rt' : rt'[l].code = n + 1 /\ rt[l].code = n /\ l = k
  <2>1. rt'[k].code = n + 1 /\ rt'[k].space = rt[k].space
    BY <1>3, <1>4
  <2>2. \A l \in DOMAIN rt' : l = k
    BY <1>4
  <2>. QED
    BY <1>1, <1>4, <2>1, <2>2
<1>5. CodesGrow
  <2>3. n <= n + 1 /\ n + 1 \in Nat
    BY <1>3
  <2>. QED
    BY <1>4, <1>4a, <2>3 DEF CodesGrow
<1>6. call[c].space = rt[k].space
  BY <1>1, <1>2, OnlyOne DEF Linked, CallLinked, Named, RuntimeLinked
<1>7. call[c].shown = n
  <2>1. call[c].shown \in Nat /\ call[c].shown # 0 /\ call[c].shown <= n
    BY <1>1, <1>2, CodeTyped DEF Displayed, CallShown
  <2>2. ~\E r \in rotations : r.space = rt[k].space /\ r.key = call[c].shown
    BY <1>2, <1>6 DEF RecordedFor, KeyOf
  <2>3. Chained(k)
    BY <1>1 DEF Displayed
  <2>4. ~(call[c].shown < n)
    BY <1>2, <2>1, <2>2, <2>3 DEF Chained
  <2>. QED
    BY <1>3, <2>1, <2>4
<1>8. \A l \in DOMAIN rt' : Chained(l)'
  <2>1. Chained(k)
    BY <1>1 DEF Displayed
  <2>2. \A r \in rotations' : r.key < r.code /\ r.code <= n + 1
    BY <1>2, <1>3, <1>7, <2>1, CodeTyped DEF Chained
  <2>3. \A m \in Nat : 0 < m /\ m < n + 1 =>
          \E r \in rotations' : r.space = rt[k].space /\ r.key = m
    <3> SUFFICES ASSUME NEW m \in Nat, 0 < m, m < n + 1
                 PROVE  \E r \in rotations' : r.space = rt[k].space /\ r.key = m
      OBVIOUS
    <3>1. CASE m < n
      BY <1>2, <2>1, <3>1 DEF Chained
    <3>2. CASE m = n
      <4>1. new \in rotations' /\ new.space = rt[k].space /\ new.key = n
        BY <1>2, <1>6, <1>7
      <4>. QED
        BY <3>2, <4>1
    <3>. QED
      BY <1>3, <3>1, <3>2
  <2>. QED
    BY <1>4a, <2>2, <2>3 DEF Chained
<1>9. (~Idle(c) => CallShown(c))'
  <2>1. n + 1 # 0 /\ \A l \in DOMAIN rt' : n + 1 <= rt'[l].code
    BY <1>3, <1>4a
  <2>. QED
    BY <1>1, <2>1, ShownAnswer
<1>10. \A d \in Calls : (~Idle(d) => CallShown(d))'
  BY <1>1, <1>5, <1>9, ShownKept DEF OthersStay
<1>11. \A j \in DOMAIN cp' : RowShown(j)'
  BY <1>2, <1>5, ShownKept
<1>12. rt' # <<>> /\ \A l \in DOMAIN rt' : Chained(l)'
  BY <1>8, <1>4a
<1>. QED
  BY <1>10, <1>11, <1>12 DEF Displayed

LEMMA DisplayedRuntime ==
  ASSUME TypeOK, Linked, Displayed, NEW c \in Calls, Runtime(c)
  PROVE  Displayed'
<1> DEFINE k == call[c].runtime
<1>1. \A l \in DOMAIN rt : rt[l] \in RuntimeRow
  BY RowTyped
<1>2. CASE CreateCloudAdminSpace(c)
  <2>1. rt = <<>> /\ Len(rt) = 0
    BY <1>2, CreateFindsNone
  <2>2. /\ OthersStay(c) /\ Answered(c, Len(rt) + 1, 1)
        /\ DOMAIN rt' = 1 .. (Len(rt) + 1)
        /\ rt'[Len(rt) + 1] = [space |-> call[c].space, trial |-> call[c].trial,
                               suspended |-> FALSE, phase |-> "live", code |-> 1]
    BY <1>2, LinkedNames, TypeCreateCloudAdminSpace
  <2>3. cp' = cp /\ rotations' = {}
    BY <1>2, <2>1 DEF CreateCloudAdminSpace, Displayed
  <2>4. DOMAIN rt' = {1} /\ rt'[1].code = 1
    BY <2>1, <2>2
  <2>5. \A i \in DOMAIN cp : cp[i].runtime = 0 /\ cp[i].shown = 0
    BY <2>1 DEF Linked, RowLinked, Displayed, RowShown
  <2>6. \A j \in DOMAIN cp' : RowShown(j)'
    BY <2>3, <2>4, <2>5 DEF RowShown
  <2>7. \A l \in DOMAIN rt' : Chained(l)'
    BY <2>3, <2>4 DEF Chained
  <2>8. (~Idle(c) => CallShown(c))'
    BY <2>1, <2>2, <2>4, ShownAnswer
  <2>9. \A d \in Calls : d # c => (~Idle(d) => CallShown(d))'
    BY <2>1, <2>2 DEF OthersStay, Idle, CallShown, Linked, CallLinked
  <2>. QED
    BY <2>3, <2>6, <2>7, <2>8, <2>9 DEF Displayed
<1>3. CASE CreateAgain(c) \/ RotateAgain(c)
  <2>1. /\ OthersStay(c) /\ UNCHANGED <<cp, rt, rotations>>
        /\ \/ call'[c] = None
           \/ \E l \in Created(call[c].space) : Answered(c, l, rt[l].code)
           \/ \E r \in RecordedFor(c) : Answered(c, call[c].runtime, r.code)
    BY <1>3, TypeAnsweredAgain
  <2>2. CASE call'[c] = None
    BY <2>1, <2>2, DisplayedCallOnly DEF Idle
  <2>3. ASSUME NEW l \in Created(call[c].space), Answered(c, l, rt[l].code)
        PROVE  Displayed'
    <3>1. l \in DOMAIN rt /\ \A m \in DOMAIN rt' : m = l
      BY <2>1, OnlyOne DEF Created
    <3>2. rt[l].code # 0 /\ \A m \in DOMAIN rt' : rt[l].code <= rt'[m].code
      BY <2>1, <3>1, CodeTyped
    <3>. QED
      BY <2>1, <2>3, <3>2, ShownAnswer, DisplayedCallOnly
  <2>4. ASSUME NEW r \in RecordedFor(c), Answered(c, call[c].runtime, r.code)
        PROVE  Displayed'
    <3>1. r \in rotations
      BY DEF RecordedFor
    <3>2. r.code # 0 /\ \A m \in DOMAIN rt' : r.code <= rt'[m].code
      BY <2>1, <3>1, CodeTyped DEF Displayed, Chained
    <3>. QED
      BY <2>1, <2>4, <3>2, ShownAnswer, DisplayedCallOnly
  <2>. QED
    BY <2>1, <2>2, <2>3, <2>4
<1>4. CASE RotateCloudAdminRoomCode(c)
  BY <1>4, DisplayedRotate
<1>5. ASSUME k \in DOMAIN rt, NEW row, RuntimeRowWritten(k, row), row.code = rt[k].code,
             row.space = rt[k].space, rt[k].phase # "gone" \/ row.phase = rt[k].phase,
             UNCHANGED <<cp, rotations>>, OthersStay(c), (~Idle(c) => CallShown(c))'
      PROVE  Displayed'
  <2>1. CodesGrow
    BY <1>5, CodeTyped DEF CodesGrow, RuntimeRowWritten
  <2>2. \A d \in Calls : (~Idle(d) => CallShown(d))'
    BY <1>5, <2>1, ShownKept DEF OthersStay
  <2>. QED
    BY <1>5, <2>2, DisplayedRuntimeWritten
<1>6. CASE RotateSuspended(c)
  <2> DEFINE row == [rt[k] EXCEPT !.suspended = TRUE]
  <2>1. /\ k \in DOMAIN rt /\ OthersStay(c) /\ call'[c] = None /\ RuntimeRowWritten(k, row)
    BY <1>6, TypeRotateSuspended
  <2>2. UNCHANGED <<cp, rotations>>
    BY <1>6 DEF RotateSuspended
  <2>3. row.code = rt[k].code /\ row.space = rt[k].space /\ row.phase = rt[k].phase
    BY <1>1, <2>1 DEF RuntimeRow
  <2>. QED
    BY <1>5, <2>1, <2>2, <2>3 DEF Idle
<1>7. CASE SoftDeleteCloudAdminSpace(c)
  <2> DEFINE row == [rt[k] EXCEPT !.phase = "disbanded"]
  <2>1. /\ k \in DOMAIN rt /\ OthersStay(c) /\ RuntimeRowWritten(k, row)
        /\ Answered(c, k, call[c].shown)
    BY <1>7, TypeSoftDeleteCloudAdminSpace
  <2>2. UNCHANGED <<cp, rotations>> /\ rt[k].phase # "gone" /\ call[c].op = "delete"
    BY <1>7 DEF SoftDeleteCloudAdminSpace, Stored, Arrived, At
  <2>3. row.code = rt[k].code /\ row.space = rt[k].space
    BY <1>1, <2>1 DEF RuntimeRow
  <2>4. (~Idle(c) => CallShown(c))'
    BY <2>1, <2>2, ShownAnswer
  <2>. QED
    BY <1>5, <2>1, <2>2, <2>3, <2>4
<1>8. CASE UpdateRuntimePolicy(c)
  <2>1. PICK s \in BOOLEAN :
          RuntimeRowWritten(k, [rt[k] EXCEPT !.trial = call[c].trial, !.suspended = s])
    BY <1>8, TypeUpdateRuntimePolicy
  <2> DEFINE row == [rt[k] EXCEPT !.trial = call[c].trial, !.suspended = s]
  <2>2. k \in DOMAIN rt /\ OthersStay(c) /\ Answered(c, k, call[c].shown)
    BY <1>8, TypeUpdateRuntimePolicy
  <2>3. UNCHANGED <<cp, rotations>> /\ call[c].op = "override"
    BY <1>8 DEF UpdateRuntimePolicy, Arrived, At
  <2>4. row.code = rt[k].code /\ row.space = rt[k].space /\ row.phase = rt[k].phase
    BY <1>1, <2>2 DEF RuntimeRow
  <2>5. (~Idle(c) => CallShown(c))'
    BY <2>2, <2>3, ShownAnswer
  <2>. QED
    BY <1>5, <2>1, <2>2, <2>3, <2>4, <2>5
<1>. QED
  BY <1>2, <1>3, <1>4, <1>6, <1>7, <1>8 DEF Runtime

LEMMA DisplayedRuntimeAlone ==
  ASSUME TypeOK, Linked, Displayed, NEW k \in DOMAIN rt, SuspendExpired(k) \/ Collect(k)
  PROVE  Displayed'
<1>1. rt[k] \in RuntimeRow
  BY RowTyped
<1>2. cp' = cp /\ call' = call
  BY DEF SuspendExpired, Collect
<1>3. ASSUME NEW row, RuntimeRowWritten(k, row), row.code = rt[k].code
      PROVE  \A d \in Calls : (~Idle(d) => CallShown(d))'
  <2>1. CodesGrow
    BY <1>3, CodeTyped DEF CodesGrow, RuntimeRowWritten
  <2>. QED
    BY <1>2, <2>1, ShownKept
<1>4. CASE SuspendExpired(k)
  <2> DEFINE row == [rt[k] EXCEPT !.suspended = TRUE]
  <2>1. RuntimeRowWritten(k, row) /\ rotations' = rotations
    BY <1>4, TypeSuspendExpired DEF SuspendExpired
  <2>2. row.code = rt[k].code /\ row.space = rt[k].space /\ row.phase = rt[k].phase
    BY <1>1 DEF RuntimeRow
  <2>. QED
    BY <1>2, <1>3, <2>1, <2>2, DisplayedRuntimeWritten
<1>5. CASE Collect(k)
  <2> DEFINE row == [rt[k] EXCEPT !.phase = "gone"]
  <2>1. RuntimeRowWritten(k, row)
    BY <1>5, TypeCollect
  <2>2. rotations' \subseteq rotations
    BY <1>5 DEF Collect
  <2>3. row.code = rt[k].code /\ row.space = rt[k].space /\ row.phase = "gone"
    BY <1>1 DEF RuntimeRow
  <2>. QED
    BY <1>2, <1>3, <2>1, <2>2, <2>3, DisplayedRuntimeWritten
<1>. QED
  BY <1>4, <1>5

LEMMA Displays == Spec => []Displayed
<1>1. Init => Displayed
  BY DEF Init, Displayed, Idle
<1>2. TypeOK /\ Linked /\ Displayed /\ [Next]_vars => Displayed'
  <2> SUFFICES ASSUME TypeOK, Linked, Displayed, [Next]_vars
               PROVE  Displayed'
    OBVIOUS
  <2>1. CASE Tick \/ UNCHANGED vars
    <3>1. UNCHANGED <<cp, rt, rotations, call>>
      BY <2>1 DEF Tick, vars
    <3>. QED
      BY <3>1 DEF Displayed, RowShown, CallShown, Chained, Stored, Idle
  <2>. QED
    BY <2>1, DisplayedWeb, DisplayedRuntime, DisplayedRuntimeAlone DEF Next
<1>. QED
  BY <1>1, <1>2, Links, PTL DEF Spec

\* A displayed code that is old has its rotation on record: rotating again
\* replays it instead of drawing another.
THEOREM DisplayCatchesUpCorrect == Spec => []DisplayCatchesUp
<1>1. TypeOK /\ Linked /\ Displayed => DisplayCatchesUp
  <2> SUFFICES ASSUME TypeOK, Linked, Displayed,
                      NEW i \in DOMAIN cp, NEW k \in DOMAIN rt,
                      cp[i].shown # 0, rt[k].space = i, rt[k].phase # "gone",
                      cp[i].shown # rt[k].code
               PROVE  \E r \in rotations :
                        /\ r.space = i /\ r.key = cp[i].shown
                        /\ cp[i].shown < r.code /\ r.code <= rt[k].code
    BY DEF DisplayCatchesUp
  <2>1. cp[i].shown <= rt[k].code /\ Chained(k)
    BY DEF Displayed, RowShown
  <2>2. /\ cp[i].shown \in Nat /\ 0 < cp[i].shown /\ cp[i].shown < rt[k].code
    BY <2>1, CodeTyped
  <2>. QED
    BY <2>1, <2>2 DEF Chained, Stored
<1>. QED
  BY <1>1, Links, Displays, PTL

-----------------------------------------------------------------------------
(***************************************************************************)
(* The policy.  A row without link was created with the trial it holds;    *)
(* and an override that met no other was the last to write the runtime.    *)
(***************************************************************************)
RowPolicy(i) ==
    cp[i].runtime = 0 \/ ~doubt =>
        \A k \in DOMAIN rt : Stored(k) => rt[k].trial = cp[i].trial

CallPolicy(c) ==
    /\ call[c].op = "provision" /\ call[c].pc # "insert" /\ DOMAIN rt = {} =>
         call[c].trial = cp[call[c].space].trial
    /\ call[c].op = "override" => doubt
    /\ call[c].op = "override" /\ call[c].alone =>
         /\ \A d \in Calls : d # c => ~Overriding(d)
         /\ call[c].pc = "answered" =>
              \A k \in DOMAIN rt : Stored(k) => rt[k].trial = call[c].trial

Agreed ==
    /\ \A i \in DOMAIN cp : RowPolicy(i)
    /\ \A c \in Calls : ~Idle(c) => CallPolicy(c)

\* A call that goes on, with the policy it sets or creates with.
Carries(d) ==
    call'[d] # None =>
        /\ call[d] # None
        /\ call'[d].op = call[d].op /\ call'[d].space = call[d].space
        /\ call'[d].trial = call[d].trial /\ call'[d].alone = call[d].alone
        /\ call'[d].pc = "insert" <=> call[d].pc = "insert"
        /\ call'[d].op = "override" /\ call'[d].pc = "answered" => call[d].pc = "answered"

TrialsKept ==
    /\ DOMAIN cp' = DOMAIN cp /\ DOMAIN rt' = DOMAIN rt /\ doubt' = doubt
    /\ \A i \in DOMAIN cp : /\ cp'[i].trial = cp[i].trial
                            /\ cp'[i].runtime = 0 => cp[i].runtime = 0
    /\ \A k \in DOMAIN rt : /\ rt'[k].trial = rt[k].trial
                            /\ rt'[k].phase # "gone" => rt[k].phase # "gone"

LEMMA AgreedKept ==
  ASSUME TypeOK, Linked, Agreed, TrialsKept, NEW c \in Calls,
         \A d \in Calls : d # c => Carries(d),
         \/ Carries(c)
         \/ (~Idle(c) => CallPolicy(c) /\ ~Overriding(c))'
  PROVE  Agreed'
<1>1. \A i \in DOMAIN cp' : RowPolicy(i)'
  BY DEF Agreed, RowPolicy, TrialsKept, Stored
<1>2. \A d \in Calls : Overriding(d)' => Overriding(d)
  BY DEF Carries, Overriding, Idle
<1>3. ASSUME NEW d \in Calls, Carries(d)
      PROVE  (~Idle(d) => CallPolicy(d))'
  <2> SUFFICES ASSUME call'[d] # None
               PROVE  CallPolicy(d)'
    BY DEF Idle
  <2>1. CallPolicy(d) /\ CallLinked(d)
    BY <1>3 DEF Agreed, Linked, Carries, Idle
  <2>2. call'[d].op = "provision" /\ call'[d].pc # "insert" /\ DOMAIN rt' = {} =>
          call'[d].trial = cp'[call'[d].space].trial
    BY <1>3, <2>1 DEF CallPolicy, CallLinked, Named, Carries, TrialsKept
  <2>3. call'[d].op = "override" => doubt'
    BY <1>3, <2>1 DEF CallPolicy, Carries, TrialsKept
  <2>4. call'[d].op = "override" /\ call'[d].alone =>
         /\ \A e \in Calls : e # d => ~Overriding(e)'
         /\ call'[d].pc = "answered" =>
              \A k \in DOMAIN rt' : Stored(k)' => rt'[k].trial = call'[d].trial
    <3> SUFFICES ASSUME call'[d].op = "override", call'[d].alone
                 PROVE  /\ \A e \in Calls : e # d => ~Overriding(e)'
                        /\ call'[d].pc = "answered" =>
                             \A k \in DOMAIN rt' : Stored(k)' => rt'[k].trial = call'[d].trial
      OBVIOUS
    <3>1. /\ call[d].op = "override" /\ call[d].alone /\ call'[d].trial = call[d].trial
          /\ call'[d].pc = "answered" => call[d].pc = "answered"
      BY <1>3 DEF Carries
    <3>2. /\ \A e \in Calls : e # d => ~Overriding(e)
          /\ call[d].pc = "answered" =>
               \A k \in DOMAIN rt : Stored(k) => rt[k].trial = call[d].trial
      BY <2>1, <3>1 DEF CallPolicy
    <3>3. \A k \in DOMAIN rt' : /\ k \in DOMAIN rt /\ rt'[k].trial = rt[k].trial
                                /\ Stored(k)' => Stored(k)
      BY DEF TrialsKept, Stored
    <3>. QED
      BY <1>2, <3>1, <3>2, <3>3
  <2>. QED
    BY <2>2, <2>3, <2>4 DEF CallPolicy
<1>4. \A d \in Calls : (~Idle(d) => CallPolicy(d))'
  BY <1>3
<1>. QED
  BY <1>1, <1>4 DEF Agreed

LEMMA StaysCarries ==
  ASSUME NEW c \in Calls, OthersStay(c)
  PROVE  \A d \in Calls : d # c => Carries(d)
  BY DEF OthersStay, Carries

LEMMA AnsweredCarries ==
  ASSUME NEW c \in Calls, NEW k, NEW n, call'[c] = None \/ Answered(c, k, n),
         ~Idle(c), call[c].pc # "insert", call[c].op # "override"
  PROVE  Carries(c)
  BY DEF Answered, Carries, Idle

\* The web steps that leave the policy alone.
LEMMA AgreedWeb ==
  ASSUME TypeOK, Linked, Agreed, NEW c \in Calls,
         \/ RetryProvision(c) \/ StartProvision(c) \/ StartRotate(c)
         \/ StartDelete(c) \/ StartDashboard(c)
         \/ MarkCloudSpaceProvisioned(c) \/ UpdateRoomCodeDisplay(c)
         \/ MarkCloudSpaceDeletePending(c) \/ MarkCloudSpaceDeleted(c)
         \/ MarkExpiredSuspended(c) \/ Fail(c) \/ Abandon(c)
  PROVE  Agreed'
<1> DEFINE i == call[c].space
<1>1. \A d \in Calls : ~Idle(d) /\ call[d].pc # "insert" => call[d].space \in DOMAIN cp
  BY LinkedNames DEF CallsNamed, Named
<1>2. \A j \in DOMAIN cp : cp[j] \in Row
  BY RowTyped
<1>3. CASE \/ RetryProvision(c) \/ StartProvision(c) \/ StartRotate(c)
           \/ StartDelete(c) \/ StartDashboard(c)
  <2>1. OthersStay(c) /\ BeganWith(c) /\ UNCHANGED <<cp, rt, doubt>>
    BY <1>3, TypeBegin
  <2>2. call'[c].op # "override"
    BY <2>1 DEF BeganWith
  <2>3. (CallPolicy(c) /\ ~Overriding(c))'
    BY <2>1, <2>2 DEF BeganWith, CallPolicy, Overriding
  <2>4. TrialsKept
    BY <2>1 DEF TrialsKept
  <2>. QED
    BY <2>1, <2>3, <2>4, StaysCarries, AgreedKept
<1>4. ASSUME i \in DOMAIN cp, NEW row, SpaceWritten(i, row), row.trial = cp[i].trial,
             row.runtime = 0 => cp[i].runtime = 0, UNCHANGED <<rt, doubt>>,
             OthersStay(c), Carries(c)
      PROVE  Agreed'
  <2>1. TrialsKept
    BY <1>4 DEF TrialsKept, SpaceWritten
  <2>. QED
    BY <1>4, <2>1, StaysCarries, AgreedKept
<1>5. CASE MarkCloudSpaceProvisioned(c)
  <2> DEFINE row == [cp[i] EXCEPT !.status = "active", !.runtime = call[c].runtime,
                                  !.shown = call[c].shown]
  <2>1. OthersStay(c) /\ call'[c] = None /\ SpaceWritten(i, row)
    BY <1>5, TypeMarkCloudSpaceProvisioned
  <2>2. /\ ~Idle(c) /\ call[c].op = "provision" /\ call[c].pc = "answered"
        /\ UNCHANGED <<rt, doubt>>
    BY <1>5 DEF MarkCloudSpaceProvisioned, At, Idle
  <2>3. i \in DOMAIN cp /\ call[c].runtime # 0
    BY <1>1, <2>2, OnlyOne DEF Linked, CallLinked
  <2>4. row.runtime = call[c].runtime /\ row.trial = cp[i].trial
    BY <1>2, <2>3 DEF Row
  <2>. QED
    BY <1>4, <2>1, <2>2, <2>3, <2>4 DEF Carries
<1>6. CASE UpdateRoomCodeDisplay(c)
  <2> DEFINE row == [cp[i] EXCEPT !.shown = call[c].shown]
  <2>1. OthersStay(c) /\ call'[c] = None /\ SpaceWritten(i, row)
    BY <1>6, TypeUpdateRoomCodeDisplay
  <2>2. i \in DOMAIN cp /\ UNCHANGED <<rt, doubt>>
    BY <1>1, <1>6 DEF UpdateRoomCodeDisplay, At, Idle
  <2>3. row.runtime = cp[i].runtime /\ row.trial = cp[i].trial
    BY <1>2, <2>2 DEF Row
  <2>. QED
    BY <1>4, <2>1, <2>2, <2>3 DEF Carries
<1>7. CASE MarkCloudSpaceDeletePending(c)
  <2> DEFINE row == [cp[i] EXCEPT !.status = "delete_pending"]
  <2>1. /\ OthersStay(c) /\ SpaceWritten(i, row) /\ i \in DOMAIN cp
        /\ call'[c] = [call[c] EXCEPT !.pc = "sent"] /\ call[c] \in Call
    BY <1>7, TypeMarkCloudSpaceDeletePending
  <2>2. /\ call[c] # None /\ call[c].op = "delete" /\ call[c].pc = "mark"
        /\ UNCHANGED <<rt, doubt>>
    BY <1>7 DEF MarkCloudSpaceDeletePending, At
  <2>3. Carries(c)
    BY <2>1, <2>2 DEF Carries, Call
  <2>4. row.runtime = cp[i].runtime /\ row.trial = cp[i].trial
    BY <1>2, <2>1 DEF Row
  <2>. QED
    BY <1>4, <2>1, <2>2, <2>3, <2>4
<1>8. CASE MarkCloudSpaceDeleted(c)
  <2> DEFINE row == [cp[i] EXCEPT !.status = "deleted"]
  <2>1. OthersStay(c) /\ call'[c] = None /\ SpaceWritten(i, row)
    BY <1>8, TypeMarkCloudSpaceDeleted
  <2>2. i \in DOMAIN cp /\ UNCHANGED <<rt, doubt>>
    BY <1>1, <1>8 DEF MarkCloudSpaceDeleted, Confirmed, At, Idle
  <2>3. row.runtime = cp[i].runtime /\ row.trial = cp[i].trial
    BY <1>2, <2>2 DEF Row
  <2>. QED
    BY <1>4, <2>1, <2>2, <2>3 DEF Carries
<1>9. CASE MarkExpiredSuspended(c)
  <2> DEFINE s == IF cp[i].status \in {"pending", "active"} THEN "suspended"
                  ELSE cp[i].status
             row == [cp[i] EXCEPT !.status = s]
  <2>1. OthersStay(c) /\ call'[c] = None /\ SpaceWritten(i, row)
    BY <1>9, TypeMarkExpiredSuspended
  <2>2. i \in DOMAIN cp /\ UNCHANGED <<rt, doubt>>
    BY <1>1, <1>9 DEF MarkExpiredSuspended, At, Idle
  <2>3. row.runtime = cp[i].runtime /\ row.trial = cp[i].trial
    BY <1>2, <2>2 DEF Row
  <2>. QED
    BY <1>4, <2>1, <2>2, <2>3 DEF Carries
<1>10. CASE Fail(c) \/ Abandon(c)
  <2>1. /\ OthersStay(c) /\ UNCHANGED <<cp, rt, doubt>>
        /\ \/ call'[c] = None
           \/ /\ ~Idle(c) /\ call[c] \in Call /\ call[c].pc = "sent"
              /\ call'[c] = [call[c] EXCEPT !.pc = "orphan"]
    BY <1>10, TypeFail
  <2>2. Carries(c)
    BY <2>1 DEF Carries, Idle, Call
  <2>3. TrialsKept
    BY <2>1 DEF TrialsKept
  <2>. QED
    BY <2>1, <2>2, <2>3, StaysCarries, AgreedKept
<1>. QED
  BY <1>3, <1>5, <1>6, <1>7, <1>8, <1>9, <1>10

LEMMA AgreedCreateFreeCloudSpaceGrant ==
  ASSUME TypeOK, Linked, Agreed, NEW c \in Calls, CreateFreeCloudSpaceGrant(c)
  PROVE  Agreed'
<1>1. /\ OthersStay(c)
      /\ Len(cp) \in Nat /\ DOMAIN cp = 1 .. Len(cp) /\ DOMAIN cp' = 1 .. (Len(cp) + 1)
      /\ cp'[Len(cp) + 1] = [status |-> "pending", trial |-> call[c].trial,
                             runtime |-> 0, shown |-> 0]
      /\ call'[c] = [call[c] EXCEPT !.pc = "sent", !.space = Len(cp) + 1]
      /\ call[c] \in Call
  BY TypeCreateFreeCloudSpaceGrant
<1>2. ~granted /\ UNCHANGED rt /\ call[c].op = "provision"
  BY DEF CreateFreeCloudSpaceGrant, NoConflict, At
<1>3. cp = <<>> /\ Len(cp) = 0 /\ DOMAIN cp = {}
  BY <1>2 DEF Linked
<1>4. DOMAIN rt = {}
  BY <1>3 DEF Linked, RuntimeLinked
<1>5. \A i \in DOMAIN cp' : RowPolicy(i)'
  BY <1>2, <1>4 DEF RowPolicy
<1>6. /\ call'[c].op = "provision" /\ call'[c].space = 1
      /\ call'[c].trial = call[c].trial
  BY <1>1, <1>2, <1>3 DEF Call
<1>7. cp'[1].trial = call[c].trial
  BY <1>1, <1>3
<1>8. CallPolicy(c)'
  BY <1>6, <1>7 DEF CallPolicy
<1>9. ASSUME NEW d \in Calls, d # c
      PROVE  (~Idle(d) => CallPolicy(d))'
  <2>1. call'[d] = call[d] /\ (~Idle(d) => call[d].pc = "insert" /\ call[d].op = "provision")
    BY <1>1, <1>3, <1>9 DEF OthersStay, Linked, CallLinked, Named
  <2>. QED
    BY <2>1 DEF Idle, CallPolicy
<1>. QED
  BY <1>5, <1>8, <1>9 DEF Agreed

LEMMA AgreedStartOverride ==
  ASSUME TypeOK, Linked, Agreed, NEW c \in Calls, NEW t \in 0 .. MaxTime, StartOverride(c, t)
  PROVE  Agreed'
<1>1. /\ call'[c] \in Call /\ call'[c].op = "override" /\ call'[c].pc = "sent"
      /\ call'[c].alone <=> \A e \in Calls : ~Overriding(e)
  BY TypeStartOverride
<1>2. \A d \in Calls \ {c} :
        \/ ~Overriding(d) /\ call'[d] = call[d]
        \/ Overriding(d) /\ call'[d] = [call[d] EXCEPT !.alone = FALSE]
  BY TypeStartOverride
<1>3. doubt' = TRUE /\ UNCHANGED <<cp, rt>>
  BY DEF StartOverride
<1>4. \A i \in DOMAIN cp' : RowPolicy(i)'
  BY <1>3 DEF Agreed, RowPolicy, Stored
<1>5. ASSUME NEW d \in Calls, d # c, ~Overriding(d), call'[d] = call[d]
      PROVE  (~Idle(d) => CallPolicy(d))' /\ ~Overriding(d)'
  <2>1. ~Overriding(d)'
    BY <1>5 DEF Overriding
  <2>2. call'[d] # None => call'[d].op # "override"
    BY <2>1 DEF Overriding
  <2>3. (~Idle(d) => CallPolicy(d))'
    BY <1>3, <1>5, <2>2 DEF Agreed, CallPolicy, Idle
  <2>. QED
    BY <2>1, <2>3
<1>6. ASSUME NEW d \in Calls, Overriding(d), call'[d] = [call[d] EXCEPT !.alone = FALSE]
      PROVE  (~Idle(d) => CallPolicy(d))'
  <2>1. call[d] \in Call /\ call[d].op = "override"
    BY <1>6 DEF Overriding, TypeOK
  <2>2. call'[d].op = "override" /\ call'[d].alone = FALSE
    BY <1>6, <2>1 DEF Call
  <2>. QED
    BY <1>3, <2>2 DEF CallPolicy
<1>7. CallPolicy(c)'
  <2>1. call'[c].alone => \A d \in Calls : d # c => ~Overriding(d)'
    BY <1>1, <1>2, <1>5
  <2>. QED
    BY <1>1, <1>3, <2>1 DEF CallPolicy
<1>8. \A d \in Calls : (~Idle(d) => CallPolicy(d))'
  BY <1>2, <1>5, <1>6, <1>7
<1>. QED
  BY <1>4, <1>8 DEF Agreed

LEMMA AgreedUpdateResolvedPolicy ==
  ASSUME TypeOK, Linked, Agreed, NEW c \in Calls, UpdateResolvedPolicy(c)
  PROVE  Agreed'
<1> DEFINE i == call[c].space
           row == [cp[i] EXCEPT !.trial = call[c].trial,
                                !.status = Unsuspended(@, call[c].trial)]
<1>1. OthersStay(c) /\ call'[c] = None /\ SpaceWritten(i, row) /\ call[c] \in Call
  BY TypeUpdateResolvedPolicy
<1>2. /\ ~Idle(c) /\ call[c].op = "override" /\ call[c].pc = "answered"
      /\ rt' = rt /\ doubt' = ~call[c].alone
  BY DEF UpdateResolvedPolicy, Applied, At, Idle
<1>3. CallPolicy(c) /\ CallLinked(c)
  BY <1>2 DEF Agreed, Linked
<1>4. i \in DOMAIN cp /\ cp[i].runtime # 0 /\ call[c].runtime \in DOMAIN rt
  BY <1>2, <1>3 DEF CallLinked, Named
<1>5. row.trial = call[c].trial /\ row.runtime # 0
  BY <1>4, RowTyped DEF Row
<1>6. DOMAIN cp' = DOMAIN cp /\ \A j \in DOMAIN cp : j = i /\ cp'[j] = row
  BY <1>1, <1>4, OnlyOne DEF SpaceWritten
<1>7. \A j \in DOMAIN cp' : RowPolicy(j)'
  <2> SUFFICES ASSUME NEW j \in DOMAIN cp', ~doubt', NEW k \in DOMAIN rt', Stored(k)'
               PROVE  rt'[k].trial = cp'[j].trial
    BY <1>5, <1>6 DEF RowPolicy
  <2>1. call[c].alone
    BY <1>1, <1>2 DEF Call
  <2>2. rt[k].trial = call[c].trial
    BY <1>2, <1>3, <2>1 DEF CallPolicy, Stored
  <2>. QED
    BY <1>2, <1>5, <1>6, <2>2
<1>8. ASSUME NEW d \in Calls, d # c
      PROVE  (~Idle(d) => CallPolicy(d))'
  <2> SUFFICES ASSUME call[d] # None
               PROVE  CallPolicy(d)'
    BY <1>1, <1>8 DEF OthersStay, Idle
  <2>1. call'[d] = call[d] /\ CallPolicy(d)
    BY <1>1, <1>8 DEF OthersStay, Agreed, Idle
  <2>2. DOMAIN rt' # {}
    BY <1>2, <1>4
  <2>3. call[d].op = "override" => doubt'
    BY <1>2, <1>3, <1>8 DEF CallPolicy, Overriding
  <2>4. \A e \in Calls : Overriding(e)' => Overriding(e)
    BY <1>1 DEF Overriding, OthersStay
  <2>5. call[d].op = "override" /\ call[d].alone => FALSE
    BY <1>2, <1>8, <2>1 DEF CallPolicy, Overriding, Idle
  <2>. QED
    BY <2>1, <2>2, <2>3, <2>5 DEF CallPolicy
<1>9. \A d \in Calls : (~Idle(d) => CallPolicy(d))'
  BY <1>1, <1>8 DEF Idle
<1>. QED
  BY <1>7, <1>9 DEF Agreed

LEMMA AgreedCreateCloudAdminSpace ==
  ASSUME TypeOK, Linked, Agreed, NEW c \in Calls, CreateCloudAdminSpace(c)
  PROVE  Agreed'
<1>1. rt = <<>> /\ Len(rt) = 0
  BY CreateFindsNone
<1>2. /\ OthersStay(c) /\ Answered(c, Len(rt) + 1, 1)
      /\ DOMAIN rt' = 1 .. (Len(rt) + 1)
      /\ rt'[Len(rt) + 1] = [space |-> call[c].space, trial |-> call[c].trial,
                             suspended |-> FALSE, phase |-> "live", code |-> 1]
      /\ call[c].space \in DOMAIN cp
  BY LinkedNames, TypeCreateCloudAdminSpace
<1>3. /\ ~Idle(c) /\ call[c].op = "provision" /\ call[c].pc # "insert"
      /\ UNCHANGED <<cp, doubt>>
  BY DEF CreateCloudAdminSpace, Arrived, At, Idle
<1>4. DOMAIN rt' = {1} /\ rt'[1].trial = call[c].trial
  BY <1>1, <1>2
<1>5. call[c].trial = cp[call[c].space].trial /\ \A i \in DOMAIN cp : i = call[c].space
  BY <1>1, <1>2, <1>3, OnlyOne DEF Agreed, CallPolicy
<1>6. \A i \in DOMAIN cp' : RowPolicy(i)'
  BY <1>3, <1>4, <1>5 DEF RowPolicy
<1>7. \A d \in Calls : (~Idle(d) => call[d].op # "override")'
  BY <1>1, <1>2, <1>3 DEF OthersStay, Answered, Linked, CallLinked, Idle
<1>8. \A d \in Calls : (~Idle(d) => CallPolicy(d))'
  BY <1>4, <1>7 DEF CallPolicy
<1>. QED
  BY <1>6, <1>8 DEF Agreed

LEMMA AgreedUpdateRuntimePolicy ==
  ASSUME TypeOK, Linked, Agreed, NEW c \in Calls, UpdateRuntimePolicy(c)
  PROVE  Agreed'
<1> DEFINE k == call[c].runtime
<1>1. PICK s \in BOOLEAN :
        RuntimeRowWritten(k, [rt[k] EXCEPT !.trial = call[c].trial, !.suspended = s])
  BY TypeUpdateRuntimePolicy
<1> DEFINE row == [rt[k] EXCEPT !.trial = call[c].trial, !.suspended = s]
<1>2. k \in DOMAIN rt /\ OthersStay(c) /\ Answered(c, k, call[c].shown)
  BY TypeUpdateRuntimePolicy
<1>3. /\ ~Idle(c) /\ call[c].op = "override" /\ call[c].pc # "insert"
      /\ UNCHANGED <<cp, doubt>>
  BY DEF UpdateRuntimePolicy, Arrived, At, Idle
<1>4. CallPolicy(c) /\ CallLinked(c) /\ doubt
  BY <1>3 DEF Agreed, Linked, CallPolicy
<1>5. row.trial = call[c].trial
  BY <1>2, RowTyped DEF RuntimeRow
<1>6. DOMAIN rt' = DOMAIN rt /\ \A l \in DOMAIN rt' : rt'[l].trial = call[c].trial
  BY <1>1, <1>2, <1>5, OnlyOne DEF RuntimeRowWritten
<1>7. \A i \in DOMAIN cp' : RowPolicy(i)'
  BY <1>3, <1>4, OnlyOne DEF RowPolicy, CallLinked, Named
<1>8. \A d \in Calls : Overriding(d)' => Overriding(d)
  BY <1>2, <1>3 DEF Overriding, OthersStay, Answered, Idle
<1>9. (~Idle(c) => CallPolicy(c))'
  <2> SUFFICES ASSUME call'[c] # None
               PROVE  CallPolicy(c)'
    BY DEF Idle
  <2>1. /\ call'[c].op = "override" /\ call'[c].trial = call[c].trial
        /\ call'[c].alone = call[c].alone
    BY <1>2, <1>3 DEF Answered
  <2>2. call'[c].alone => \A d \in Calls : d # c => ~Overriding(d)'
    BY <1>3, <1>4, <1>8, <2>1 DEF CallPolicy
  <2>. QED
    BY <1>3, <1>4, <1>6, <2>1, <2>2 DEF CallPolicy
<1>10. ASSUME NEW d \in Calls, d # c
       PROVE  (~Idle(d) => CallPolicy(d))'
  <2> SUFFICES ASSUME call[d] # None
               PROVE  CallPolicy(d)'
    BY <1>2, <1>10 DEF OthersStay, Idle
  <2>1. call'[d] = call[d] /\ CallPolicy(d)
    BY <1>2, <1>10 DEF OthersStay, Agreed, Idle
  <2>2. call[d].op = "override" /\ call[d].alone => FALSE
    BY <1>3, <1>10, <2>1 DEF CallPolicy, Overriding, Idle
  <2>3. DOMAIN rt' # {} /\ doubt'
    BY <1>2, <1>3, <1>4, <1>6
  <2>. QED
    BY <2>1, <2>2, <2>3 DEF CallPolicy
<1>. QED
  BY <1>7, <1>9, <1>10 DEF Agreed

\* The runtime's other steps.
LEMMA AgreedRuntime ==
  ASSUME TypeOK, Linked, Agreed, NEW c \in Calls,
         \/ CreateAgain(c) \/ RotateAgain(c)
         \/ RotateCloudAdminRoomCode(c) \/ RotateSuspended(c)
         \/ SoftDeleteCloudAdminSpace(c)
  PROVE  Agreed'
<1> DEFINE k == call[c].runtime
<1>1. /\ ~Idle(c) /\ call[c].pc # "insert" /\ call[c].op # "override"
      /\ UNCHANGED <<cp, doubt>>
  BY DEF CreateAgain, RotateAgain, RotateCloudAdminRoomCode, RotateSuspended,
         SoftDeleteCloudAdminSpace, Arrived, At, Idle
<1>2. \A l \in DOMAIN rt : rt[l] \in RuntimeRow
  BY RowTyped
<1>3. CASE CreateAgain(c) \/ RotateAgain(c)
  <2>1. OthersStay(c) /\ rt' = rt /\ (call'[c] = None \/ \E l, n : Answered(c, l, n))
    BY <1>3, TypeAnsweredAgain
  <2>2. TrialsKept
    BY <1>1, <2>1 DEF TrialsKept
  <2>3. Carries(c)
    BY <1>1, <2>1, AnsweredCarries
  <2>. QED
    BY <2>1, <2>2, <2>3, StaysCarries, AgreedKept
<1>4. ASSUME k \in DOMAIN rt, NEW row, RuntimeRowWritten(k, row), row.trial = rt[k].trial,
             row.phase # "gone" => rt[k].phase # "gone",
             OthersStay(c), NEW l, NEW n, call'[c] = None \/ Answered(c, l, n)
      PROVE  Agreed'
  <2>1. TrialsKept
    BY <1>1, <1>4 DEF TrialsKept, RuntimeRowWritten
  <2>2. Carries(c)
    BY <1>1, <1>4, AnsweredCarries
  <2>. QED
    BY <1>4, <2>1, <2>2, StaysCarries, AgreedKept
<1>5. CASE RotateCloudAdminRoomCode(c)
  <2> DEFINE row == [rt[k] EXCEPT !.code = rt[k].code + 1]
  <2>1. /\ k \in DOMAIN rt /\ RuntimeRowWritten(k, row) /\ OthersStay(c)
        /\ Answered(c, k, rt[k].code + 1)
    BY <1>5, LinkedNames, TypeRotateCloudAdminRoomCode
  <2>2. row.trial = rt[k].trial /\ row.phase = rt[k].phase
    BY <1>2, <2>1 DEF RuntimeRow
  <2>. QED
    BY <1>4, <2>1, <2>2
<1>6. CASE RotateSuspended(c)
  <2> DEFINE row == [rt[k] EXCEPT !.suspended = TRUE]
  <2>1. /\ k \in DOMAIN rt /\ RuntimeRowWritten(k, row) /\ OthersStay(c) /\ call'[c] = None
    BY <1>6, TypeRotateSuspended
  <2>2. row.trial = rt[k].trial /\ row.phase = rt[k].phase
    BY <1>2, <2>1 DEF RuntimeRow
  <2>. QED
    BY <1>4, <2>1, <2>2
<1>7. CASE SoftDeleteCloudAdminSpace(c)
  <2> DEFINE row == [rt[k] EXCEPT !.phase = "disbanded"]
  <2>1. /\ k \in DOMAIN rt /\ RuntimeRowWritten(k, row) /\ OthersStay(c)
        /\ Answered(c, k, call[c].shown)
    BY <1>7, TypeSoftDeleteCloudAdminSpace
  <2>2. rt[k].phase # "gone"
    BY <1>7 DEF SoftDeleteCloudAdminSpace, Stored
  <2>3. row.trial = rt[k].trial
    BY <1>2, <2>1 DEF RuntimeRow
  <2>. QED
    BY <1>4, <2>1, <2>2, <2>3
<1>. QED
  BY <1>3, <1>5, <1>6, <1>7

LEMMA AgreedRuntimeAlone ==
  ASSUME TypeOK, Linked, Agreed, NEW k \in DOMAIN rt, SuspendExpired(k) \/ Collect(k)
  PROVE  Agreed'
<1>1. rt[k] \in RuntimeRow
  BY RowTyped
<1>2. UNCHANGED <<cp, doubt, call>>
  BY DEF SuspendExpired, Collect
<1>3. PICK row : /\ RuntimeRowWritten(k, row) /\ row.trial = rt[k].trial
                 /\ row.phase # "gone" => rt[k].phase # "gone"
  <2>1. CASE SuspendExpired(k)
    <3> DEFINE row == [rt[k] EXCEPT !.suspended = TRUE]
    <3>1. row.trial = rt[k].trial /\ row.phase = rt[k].phase
      BY <1>1 DEF RuntimeRow
    <3>. QED
      BY <2>1, <3>1, TypeSuspendExpired
  <2>2. CASE Collect(k)
    <3> DEFINE row == [rt[k] EXCEPT !.phase = "gone"]
    <3>1. row.trial = rt[k].trial /\ row.phase = "gone"
      BY <1>1 DEF RuntimeRow
    <3>. QED
      BY <2>2, <3>1, TypeCollect
  <2>. QED
    BY <2>1, <2>2
<1>4. TrialsKept
  BY <1>2, <1>3 DEF TrialsKept, RuntimeRowWritten
<1>5. \A d \in Calls : Carries(d)
  BY <1>2 DEF Carries
<1>6. CASE Calls = {}
  BY <1>2, <1>4, <1>6 DEF Agreed, RowPolicy, TrialsKept, Stored
<1>7. ASSUME NEW c \in Calls
      PROVE  Agreed'
  BY <1>4, <1>5, AgreedKept
<1>. QED
  BY <1>6, <1>7

LEMMA Agreements == Spec => []Agreed
<1>1. Init => Agreed
  BY DEF Init, Agreed, Idle
<1>2. TypeOK /\ Linked /\ Agreed /\ [Next]_vars => Agreed'
  <2> SUFFICES ASSUME TypeOK, Linked, Agreed, [Next]_vars
               PROVE  Agreed'
    OBVIOUS
  <2>1. CASE Tick \/ UNCHANGED vars
    <3>1. UNCHANGED <<cp, rt, doubt, call>>
      BY <2>1 DEF Tick, vars
    <3>. QED
      BY <3>1 DEF Agreed, RowPolicy, CallPolicy, Stored, Overriding, Idle
  <2>2. ASSUME NEW c \in Calls, Web(c)
        PROVE  Agreed'
    BY <2>2, AgreedWeb, AgreedCreateFreeCloudSpaceGrant, AgreedStartOverride,
       AgreedUpdateResolvedPolicy DEF Web
  <2>3. ASSUME NEW c \in Calls, Runtime(c)
        PROVE  Agreed'
    BY <2>3, AgreedCreateCloudAdminSpace, AgreedUpdateRuntimePolicy, AgreedRuntime
       DEF Runtime
  <2>. QED
    BY <2>1, <2>2, <2>3, AgreedRuntimeAlone DEF Next
<1>. QED
  BY <1>1, <1>2, Links, PTL DEF Spec

\* After an override that ended well and met no other, both sides hold the
\* policy it set.
THEOREM PolicyAgreesCorrect == Spec => []PolicyAgrees
<1>1. Agreed => PolicyAgrees
  BY DEF Agreed, RowPolicy, PolicyAgrees, Stored
<1>. QED
  BY <1>1, Agreements, PTL
=============================================================================
