---------------------------- MODULE SpacesProofs ----------------------------
(***************************************************************************)
(* Theorems about module Spaces: its safety properties, for any members,   *)
(* any number of requests between middleware and handler, any content and  *)
(* any grace period.                                                       *)
(***************************************************************************)
EXTENDS Spaces, SequenceTheorems, TLAPS

-----------------------------------------------------------------------------
(***************************************************************************)
(* Rows and members.                                                       *)
(***************************************************************************)

\* Every member row keeps its type when one of them is ended.
LEMMA EndMembershipType ==
  ASSUME members \in Seq(MemberRow), NEW i \in DOMAIN members, EndMembership(i)
  PROVE  /\ members' \in Seq(MemberRow)
         /\ Len(members') = Len(members)
         /\ DOMAIN members' = DOMAIN members
         /\ \A j \in DOMAIN members :
              /\ members'[j].name = members[j].name
              /\ members'[j].creator = members[j].creator
              /\ members'[j].active <=> (members[j].active /\ j # i)
<1>1. \A j \in DOMAIN members : members[j] \in MemberRow
  OBVIOUS
<1>2. [members[i] EXCEPT !.active = FALSE] \in MemberRow
  BY <1>1 DEF MemberRow
<1>3. members' = [members EXCEPT ![i] = [members[i] EXCEPT !.active = FALSE]]
  BY DEF EndMembership
<1>4. members' \in Seq(MemberRow) /\ Len(members') = Len(members)
  BY <1>2, <1>3
<1>5. DOMAIN members' = DOMAIN members
  BY <1>3
<1>6. \A j \in DOMAIN members :
        members'[j] = IF j = i THEN [members[i] EXCEPT !.active = FALSE]
                               ELSE members[j]
  BY <1>3
<1>7. \A j \in DOMAIN members :
        /\ members'[j].name = members[j].name
        /\ members'[j].creator = members[j].creator
        /\ members'[j].active <=> (members[j].active /\ j # i)
  BY <1>1, <1>6 DEF MemberRow
<1>. QED
  BY <1>4, <1>5, <1>7

-----------------------------------------------------------------------------
(***************************************************************************)
(* Types.                                                                  *)
(***************************************************************************)

LEMMA TypeInit == Init => TypeOK
<1> SUFFICES ASSUME Init
             PROVE  TypeOK
  OBVIOUS
<1>1. /\ members \in Seq(MemberRow) /\ Len(members) <= MaxMembers
      /\ rows \in Seq(Time \union {None})
  BY SpacesAssumption DEF Init
<1>2. /\ phase = "absent" /\ grace = None /\ code = FALSE /\ wipes = {}
      /\ req = [r \in Requests |-> None]
      /\ key = FALSE /\ running = {} /\ now = 0
  BY DEF Init
<1>3. now \in Time
  BY <1>2, SpacesAssumption DEF Time
<1>. QED
  BY <1>1, <1>2, <1>3 DEF TypeOK

LEMMA TypeAnswer ==
  ASSUME TypeOK, NEW r \in Requests, Answer(r)
  PROVE  req' \in [Requests -> Request \union {None}]
  BY DEF TypeOK, Answer

LEMMA TypeCreateSpace ==
  ASSUME TypeOK, CreateSpace
  PROVE  TypeOK'
<1>1. [name |-> Creator, creator |-> TRUE, active |-> TRUE] \in MemberRow
  BY DEF MemberRow, Names
<1>2. members' \in Seq(MemberRow) /\ Len(members') = 1
  BY <1>1 DEF CreateSpace
<1>. QED
  BY <1>2, SpacesAssumption DEF TypeOK, CreateSpace

LEMMA TypeJoinSpace ==
  ASSUME TypeOK, NEW n \in Joiners, JoinSpace(n)
  PROVE  TypeOK'
<1>1. [name |-> n, creator |-> FALSE, active |-> TRUE] \in MemberRow
  BY DEF MemberRow, Names
<1>2. members' \in Seq(MemberRow) /\ Len(members') = Len(members) + 1
  BY <1>1 DEF TypeOK, JoinSpace
<1>3. Len(members') <= MaxMembers
  BY <1>2, SpacesAssumption DEF TypeOK, JoinSpace
<1>. QED
  BY <1>2, <1>3 DEF TypeOK, JoinSpace, space, content, client

LEMMA TypeAuthenticate ==
  ASSUME TypeOK, NEW r \in Requests, NEW i \in DOMAIN members, NEW op \in Ops,
         Authenticate(r, i, op)
  PROVE  TypeOK'
<1>1. i \in 1 .. MaxMembers
  BY SpacesAssumption DEF TypeOK
<1>2. [op |-> op, by |-> i, at |-> now] \in Request
  BY <1>1 DEF TypeOK, Request
<1>3. req' \in [Requests -> Request \union {None}]
  BY <1>2 DEF TypeOK, Authenticate
<1>. QED
  BY <1>3 DEF TypeOK, Authenticate, space, content, client

LEMMA TypeEndMembership ==
  ASSUME TypeOK, NEW r \in Requests, LeaveSpace(r) \/ KickMember(r)
  PROVE  TypeOK'
<1>1. PICK i \in DOMAIN members : EndMembership(i)
  BY DEF LeaveSpace, KickMember, MayLeave, Active
<1>2. members' \in Seq(MemberRow) /\ Len(members') = Len(members)
  BY <1>1, EndMembershipType DEF TypeOK
<1>3. req' \in [Requests -> Request \union {None}]
  BY TypeAnswer DEF LeaveSpace, KickMember
<1>. QED
  BY <1>2, <1>3 DEF TypeOK, LeaveSpace, KickMember, space, content, client

LEMMA TypeDisbandSpace ==
  ASSUME TypeOK, NEW r \in Requests, DisbandSpace(r)
  PROVE  TypeOK'
<1>1. req' \in [Requests -> Request \union {None}]
  BY TypeAnswer DEF DisbandSpace
<1>2. grace' \in 0 .. (MaxTime + Grace) /\ grace' # None
  BY SpacesAssumption DEF TypeOK, Time, DisbandSpace
<1>. QED
  BY <1>1, <1>2 DEF TypeOK, DisbandSpace, content, client

\* The three updates of the content.
LEMMA WipedRows ==
  ASSUME TypeOK, NEW r \in Requests, SoftWipe(r) \/ Unwipe(r)
  PROVE  /\ rows' \in Seq(Time \union {None})
         /\ DOMAIN rows' = DOMAIN rows
<1>1. /\ rows \in Seq(Time \union {None})
      /\ now \in Time
      /\ \A i \in DOMAIN rows : rows[i] \in Time \union {None}
  BY DEF TypeOK
<1>2. PICK n \in Nat : DOMAIN rows = 1 .. n
  BY <1>1
<1>3. rows' \in [1 .. n -> Time \union {None}]
  BY <1>1, <1>2 DEF SoftWipe, Unwipe
<1>. QED
  BY <1>2, <1>3

LEMMA TypeContent ==
  ASSUME TypeOK, NEW r \in Requests,
         SoftWipe(r) \/ HardWipe(r) \/ Unwipe(r) \/ WriteRow(r)
  PROVE  TypeOK'
<1>1. req' \in [Requests -> Request \union {None}]
  BY TypeAnswer DEF SoftWipe, HardWipe, Unwipe, WriteRow
<1>2. rows' \in Seq(Time \union {None})
  <2>1. CASE SoftWipe(r) \/ Unwipe(r)
    BY <2>1, WipedRows
  <2>2. CASE HardWipe(r)
    BY <2>2 DEF HardWipe, HardWiped
  <2>3. CASE WriteRow(r)
    BY <2>3 DEF TypeOK, WriteRow
  <2>. QED
    BY <2>1, <2>2, <2>3
<1>3. wipes' \in SUBSET Time
  BY DEF TypeOK, SoftWipe, HardWipe, Unwipe, WriteRow
<1>4. code' \in BOOLEAN /\ UNCHANGED <<phase, grace, members, key, running, now>>
  BY DEF TypeOK, SoftWipe, HardWipe, Unwipe, WriteRow, space, client
<1>. QED
  BY <1>1, <1>2, <1>3, <1>4 DEF TypeOK

LEMMA TypeGc ==
  ASSUME TypeOK, GcDisbandedSpaces
  PROVE  TypeOK'
<1>1. /\ members' \in Seq(MemberRow) /\ Len(members') <= MaxMembers
      /\ rows' \in Seq(Time \union {None})
  BY SpacesAssumption DEF GcDisbandedSpaces
<1>2. /\ phase' = "gone" /\ grace' = None /\ code' = FALSE /\ wipes' = {}
      /\ UNCHANGED <<req, key, running, now>>
  BY DEF GcDisbandedSpaces, client
<1>. QED
  BY <1>1, <1>2 DEF TypeOK

LEMMA TypeStep == TypeOK /\ [Next]_vars => TypeOK'
<1> SUFFICES ASSUME TypeOK, [Next]_vars
             PROVE  TypeOK'
  OBVIOUS
<1>1. CASE CreateSpace \/ GcDisbandedSpaces \/ \E n \in Joiners : JoinSpace(n)
  BY <1>1, TypeCreateSpace, TypeGc, TypeJoinSpace
<1>2. ASSUME NEW r \in Requests, NEW i \in DOMAIN members, NEW op \in Ops,
             Authenticate(r, i, op)
      PROVE  TypeOK'
  BY <1>2, TypeAuthenticate
<1>3. ASSUME NEW r \in Requests, Handle(r)
      PROVE  TypeOK'
  <2>1. CASE RotateRoomCode(r) \/ Refuse(r)
    <3>1. req' \in [Requests -> Request \union {None}]
      BY <2>1, TypeAnswer DEF RotateRoomCode, Refuse
    <3>. QED
      BY <2>1, <3>1 DEF TypeOK, RotateRoomCode, Refuse, space, content, client
  <2>. QED
    BY <1>3, <2>1, TypeEndMembership, TypeDisbandSpace, TypeContent DEF Handle
<1>4. CASE ExpireCode \/ RestoreSpace
  BY <1>4 DEF TypeOK, ExpireCode, RestoreSpace, Restored, space, content, client
<1>5. ASSUME NEW k \in Clients, StartClient(k) \/ StopClient(k) \/ CallGone(k)
      PROVE  TypeOK'
  BY <1>5 DEF TypeOK, StartClient, StopClient, CallGone, space, content
<1>6. CASE Tick
  BY <1>6, SpacesAssumption DEF TypeOK, Tick, Time, space, content, client
<1>7. CASE UNCHANGED vars
  BY <1>7 DEF TypeOK, vars
<1>. QED
  BY <1>1, <1>2, <1>3, <1>4, <1>5, <1>6, <1>7 DEF Next

\* Rows, requests and deadlines keep their types, and a Space has a deadline
\* exactly while it is disbanded.
THEOREM SpacesTypeCorrect == Spec => []TypeOK
  BY TypeInit, TypeStep, PTL DEF Spec

-----------------------------------------------------------------------------
(***************************************************************************)
(* One creator.                                                            *)
(***************************************************************************)

\* Membership looks at the rows of members only, as long as the Space exists.
LEMMA MembershipSame ==
  ASSUME Membership, UNCHANGED members,
         phase' \in {"live", "disbanded"} => phase \in {"live", "disbanded"}
  PROVE  Membership'
  BY DEF Membership, ActiveCreator, Active

LEMMA MembershipCreate ==
  ASSUME CreateSpace
  PROVE  Membership'
<1>1. /\ members' = <<[name |-> Creator, creator |-> TRUE, active |-> TRUE]>>
      /\ DOMAIN members' = {1}
  BY DEF CreateSpace
<1>2. members'[1].creator /\ members'[1].active
  BY <1>1
<1>. QED
  BY <1>1, <1>2 DEF Membership, ActiveCreator, Active

LEMMA MembershipJoin ==
  ASSUME TypeOK, Membership, NEW n \in Joiners, JoinSpace(n)
  PROVE  Membership'
<1> DEFINE m == [name |-> n, creator |-> FALSE, active |-> TRUE]
<1>1. /\ members' = Append(members, m) /\ members \in Seq(MemberRow)
      /\ m \in MemberRow
      /\ m.name = n /\ m.creator = FALSE
      /\ phase = "live"
  BY DEF JoinSpace, TypeOK, MemberRow, Names
<1> HIDE DEF m
<1>2. /\ DOMAIN members' = DOMAIN members \union {Len(members) + 1}
      /\ Len(members) + 1 \notin DOMAIN members
      /\ \A i \in DOMAIN members : members'[i] = members[i]
      /\ members'[Len(members) + 1] = m
  BY <1>1
<1>3. {i \in DOMAIN members' : ActiveCreator(i)'} = {1}
  <2>1. {i \in DOMAIN members : ActiveCreator(i)} = {1}
    BY <1>1 DEF Membership
  <2>2. \A i \in DOMAIN members' :
          ActiveCreator(i)' <=> i \in DOMAIN members /\ ActiveCreator(i)
    BY <1>1, <1>2 DEF ActiveCreator, Active
  <2>. QED
    BY <1>2, <2>1, <2>2
<1>4. \A i \in DOMAIN members : members[i].active => members[i].name # n
  BY DEF JoinSpace, NameTaken
<1>5. \A i, j \in DOMAIN members' :
        members'[i].active /\ members'[j].active /\ members'[i].name = members'[j].name
          => i = j
  BY <1>1, <1>2, <1>4 DEF Membership
<1>. QED
  BY <1>3, <1>5 DEF Membership

\* Only a row that is not the creator's is ever ended.
LEMMA MembershipEnd ==
  ASSUME TypeOK, Membership, NEW r \in Requests, LeaveSpace(r) \/ KickMember(r)
  PROVE  Membership'
<1>1. UNCHANGED phase
  BY DEF LeaveSpace, KickMember, space
<1>2. SUFFICES ASSUME phase \in {"live", "disbanded"}
               PROVE  Membership'
  BY <1>1 DEF Membership
<1>3. {i \in DOMAIN members : ActiveCreator(i)} = {1}
  BY <1>2 DEF Membership
<1>4. PICK i \in DOMAIN members : EndMembership(i) /\ i # 1
  <2>1. CASE LeaveSpace(r)
    <3>1. /\ EndMembership(req[r].by) /\ req[r].by \in DOMAIN members
          /\ ~ members[req[r].by].creator
      BY <2>1 DEF LeaveSpace, MayLeave, Active
    <3>2. members[1].creator
      BY <1>3 DEF ActiveCreator
    <3>. QED
      BY <3>1, <3>2
  <2>2. CASE KickMember(r)
    <3>1. PICK i \in DOMAIN members : MayKick(req[r].by, i) /\ EndMembership(i)
      BY <2>2 DEF KickMember
    <3>2. req[r].by = 1 /\ i # req[r].by
      BY <1>3, <3>1 DEF MayKick, ActiveCreator, Active
    <3>. QED
      BY <3>1, <3>2
  <2>. QED
    BY <2>1, <2>2
<1>5. /\ DOMAIN members' = DOMAIN members
      /\ \A j \in DOMAIN members :
           /\ members'[j].name = members[j].name
           /\ members'[j].creator = members[j].creator
           /\ members'[j].active <=> (members[j].active /\ j # i)
  BY <1>4, EndMembershipType DEF TypeOK
<1>6. {j \in DOMAIN members' : ActiveCreator(j)'} = {1}
  BY <1>3, <1>4, <1>5 DEF ActiveCreator, Active
<1>7. \A j, k \in DOMAIN members' :
        members'[j].active /\ members'[k].active /\ members'[j].name = members'[k].name
          => j = k
  BY <1>2, <1>5 DEF Membership
<1>. QED
  BY <1>6, <1>7 DEF Membership

LEMMA MembershipStep == TypeOK /\ Membership /\ [Next]_vars => Membership'
<1> SUFFICES ASSUME TypeOK, Membership, [Next]_vars
             PROVE  Membership'
  OBVIOUS
<1>1. CASE CreateSpace
  BY <1>1, MembershipCreate
<1>2. ASSUME NEW n \in Joiners, JoinSpace(n)
      PROVE  Membership'
  BY <1>2, MembershipJoin
<1>3. ASSUME NEW r \in Requests, LeaveSpace(r) \/ KickMember(r)
      PROVE  Membership'
  BY <1>3, MembershipEnd
<1>4. ASSUME NEW r \in Requests,
             \/ DisbandSpace(r) \/ SoftWipe(r) \/ HardWipe(r) \/ Unwipe(r)
             \/ RotateRoomCode(r) \/ WriteRow(r) \/ Refuse(r)
             \/ \E i \in DOMAIN members, op \in Ops : Authenticate(r, i, op)
      PROVE  Membership'
  BY <1>4, MembershipSame DEF DisbandSpace, MayDisband, SoftWipe, HardWipe, Unwipe,
     RotateRoomCode, WriteRow, Refuse, Authenticate, space
<1>5. CASE GcDisbandedSpaces
  BY <1>5 DEF GcDisbandedSpaces, Membership
<1>6. CASE \/ ExpireCode \/ RestoreSpace \/ Tick \/ UNCHANGED vars
           \/ \E k \in Clients : StartClient(k) \/ StopClient(k) \/ CallGone(k)
  BY <1>6, MembershipSame DEF ExpireCode, RestoreSpace, Restored, Tick, vars,
     StartClient, StopClient, CallGone, space
<1>. QED
  BY <1>1, <1>2, <1>3, <1>4, <1>5, <1>6 DEF Next, Handle

\* However leave, kick and join requests interleave, a Space keeps exactly one
\* creator, and the names of its active members differ.
THEOREM MembershipHolds == Spec => []Membership
<1>1. Init => Membership
  BY DEF Init, Membership
<1>2. TypeOK /\ Membership /\ [Next]_vars => Membership'
  BY MembershipStep
<1>. QED
  BY <1>1, <1>2, SpacesTypeCorrect, PTL DEF Spec

-----------------------------------------------------------------------------
(***************************************************************************)
(* Content: wipes, their reversal, and a disbanded Space.                  *)
(***************************************************************************)

\* Which steps write content.
LEMMA ContentKinds ==
  ASSUME TypeOK, [Next]_vars
  PROVE  \/ UNCHANGED content
         \/ GcDisbandedSpaces
         \/ \E r \in Requests :
              SoftWipe(r) \/ HardWipe(r) \/ Unwipe(r) \/ WriteRow(r)
<1>1. CASE \/ CreateSpace \/ ExpireCode \/ RestoreSpace \/ Tick \/ UNCHANGED vars
           \/ \E n \in Joiners : JoinSpace(n)
           \/ \E k \in Clients : StartClient(k) \/ StopClient(k) \/ CallGone(k)
  BY <1>1 DEF CreateSpace, ExpireCode, RestoreSpace, Tick, vars, JoinSpace,
     StartClient, StopClient, CallGone, content
<1>2. ASSUME NEW r \in Requests,
             \/ LeaveSpace(r) \/ KickMember(r) \/ DisbandSpace(r)
             \/ RotateRoomCode(r) \/ Refuse(r)
             \/ \E i \in DOMAIN members, op \in Ops : Authenticate(r, i, op)
      PROVE  UNCHANGED content
  BY <1>2 DEF LeaveSpace, KickMember, DisbandSpace, RotateRoomCode, Refuse,
     Authenticate, content
<1>. QED
  BY <1>1, <1>2 DEF Next, Handle

LEMMA ReversibleStep ==
  TypeOK /\ TombstonesReversible /\ [Next]_vars => TombstonesReversible'
<1> SUFFICES ASSUME TypeOK, TombstonesReversible, [Next]_vars
             PROVE  TombstonesReversible'
  OBVIOUS
<1>1. CASE UNCHANGED content
  BY <1>1 DEF TombstonesReversible, content
<1>2. CASE GcDisbandedSpaces
  BY <1>2 DEF GcDisbandedSpaces, TombstonesReversible
<1>3. ASSUME NEW r \in Requests, SoftWipe(r) \/ Unwipe(r)
      PROVE  TombstonesReversible'
  BY <1>3 DEF SoftWipe, Unwipe, TombstonesReversible
<1>4. ASSUME NEW r \in Requests, HardWipe(r)
      PROVE  TombstonesReversible'
  BY <1>4 DEF HardWipe, HardWiped, TombstonesReversible
<1>5. ASSUME NEW r \in Requests, WriteRow(r)
      PROVE  TombstonesReversible'
  <2>1. \A i \in DOMAIN rows' :
          \/ i \in DOMAIN rows /\ rows'[i] = rows[i]
          \/ rows'[i] = None
    BY <1>5 DEF TypeOK, WriteRow
  <2>. QED
    BY <1>5, <2>1 DEF WriteRow, TombstonesReversible
<1>. QED
  BY <1>1, <1>2, <1>3, <1>4, <1>5, ContentKinds

\* Whatever wipes, soft and hard, ran in whatever order, the log holds the
\* stamp by which an unwipe finds each hidden row.
THEOREM ReversibleHolds == Spec => []TombstonesReversible
<1>1. Init => TombstonesReversible
  BY DEF Init, TombstonesReversible
<1>. QED
  BY <1>1, ReversibleStep, SpacesTypeCorrect, PTL DEF Spec

\* A row that is shown again is shown by an unwipe, which shows them all.
THEOREM UnwipeShowsAllHolds == Spec => UnwipeShowsAll
<1> DEFINE Shows == \E i \in DOMAIN rows \intersect DOMAIN rows' :
                      rows[i] # None /\ rows'[i] = None
           All == \A i \in DOMAIN rows' : rows'[i] = None
<1>1. ASSUME TypeOK, TombstonesReversible, [Next]_vars, Shows
      PROVE  All
  <2>1. CASE UNCHANGED content
    BY <1>1, <2>1 DEF content
  <2>2. CASE GcDisbandedSpaces
    BY <1>1, <2>2 DEF GcDisbandedSpaces
  <2>3. ASSUME NEW r \in Requests, SoftWipe(r)
        PROVE  FALSE
    <3>1. \A i \in DOMAIN rows : rows[i] # None => rows'[i] = rows[i]
      BY <2>3 DEF SoftWipe
    <3>. QED
      BY <1>1, <3>1
  <2>4. ASSUME NEW r \in Requests, HardWipe(r)
        PROVE  All
    BY <2>4 DEF HardWipe, HardWiped
  <2>5. ASSUME NEW r \in Requests, Unwipe(r)
        PROVE  All
    BY <1>1, <2>5 DEF Unwipe, Reversible, TombstonesReversible
  <2>6. ASSUME NEW r \in Requests, WriteRow(r)
        PROVE  FALSE
    <3>1. \A i \in DOMAIN rows : rows'[i] = rows[i]
      BY <1>1, <2>6 DEF TypeOK, WriteRow
    <3>. QED
      BY <1>1, <3>1
  <2>. QED
    BY <1>1, <2>1, <2>2, <2>3, <2>4, <2>5, <2>6, ContentKinds
<1>2. TypeOK /\ TombstonesReversible /\ [Next]_vars => [Shows => All]_vars
  BY <1>1
<1>. QED
  BY <1>2, SpacesTypeCorrect, ReversibleHolds, PTL DEF Spec, UnwipeShowsAll

\* Nothing admitted before the disband moves the end of the grace period.
THEOREM GraceStandsHolds == Spec => GraceStands
<1>1. ASSUME [Next]_vars, phase = "disbanded", phase' = "disbanded"
      PROVE  grace' = grace
  <2>1. CASE \/ CreateSpace \/ ExpireCode \/ RestoreSpace \/ Tick \/ UNCHANGED vars
             \/ GcDisbandedSpaces
             \/ \E n \in Joiners : JoinSpace(n)
             \/ \E k \in Clients : StartClient(k) \/ StopClient(k) \/ CallGone(k)
    BY <1>1, <2>1 DEF CreateSpace, ExpireCode, RestoreSpace, Restored, Tick, vars,
       GcDisbandedSpaces, JoinSpace, StartClient, StopClient, CallGone, space
  <2>2. ASSUME NEW r \in Requests,
               \/ Handle(r)
               \/ \E i \in DOMAIN members, op \in Ops : Authenticate(r, i, op)
        PROVE  grace' = grace
    BY <1>1, <2>2 DEF Handle, LeaveSpace, KickMember, DisbandSpace, MayDisband,
       SoftWipe, HardWipe, Unwipe, RotateRoomCode, WriteRow, Refuse, Authenticate,
       space
  <2>. QED
    BY <1>1, <2>1, <2>2 DEF Next
<1>2. [Next]_vars =>
        [phase = "disbanded" /\ phase' = "disbanded" => grace' = grace]_vars
  BY <1>1
<1>. QED
  BY <1>2, PTL DEF Spec, GraceStands

\* Until it is collected a disbanded Space keeps what a restore brings back.
THEOREM DisbandedKeepsDataHolds == Spec => DisbandedKeepsData
<1> DEFINE Keeps == /\ Len(rows') >= Len(rows)
                    /\ \A i \in DOMAIN rows : rows'[i] = rows[i]
<1>1. ASSUME TypeOK, [Next]_vars, phase = "disbanded", phase' # "gone"
      PROVE  Keeps
  <2>0. rows \in Seq(Time \union {None}) /\ Len(rows) \in Nat
    BY <1>1 DEF TypeOK
  <2>1. CASE UNCHANGED content
    BY <2>0, <2>1 DEF content
  <2>2. CASE GcDisbandedSpaces
    BY <1>1, <2>2 DEF GcDisbandedSpaces
  <2>3. ASSUME NEW r \in Requests, SoftWipe(r) \/ HardWipe(r) \/ Unwipe(r)
        PROVE  FALSE
    BY <1>1, <2>3 DEF SoftWipe, HardWipe, Unwipe, MayWipe
  <2>4. ASSUME NEW r \in Requests, WriteRow(r)
        PROVE  Keeps
    BY <2>0, <2>4 DEF WriteRow
  <2>. QED
    BY <1>1, <2>1, <2>2, <2>3, <2>4, ContentKinds
<1>2. TypeOK /\ [Next]_vars =>
        [phase = "disbanded" /\ phase' # "gone" => Keeps]_vars
  BY <1>1
<1>. QED
  BY <1>2, SpacesTypeCorrect, PTL DEF Spec, DisbandedKeepsData
=============================================================================
