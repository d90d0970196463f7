--------------------------- MODULE DisputesProofs ---------------------------
(***************************************************************************)
(* Theorems about module Disputes, for any number of members, disputes and *)
(* moves.                                                                  *)
(***************************************************************************)
EXTENDS Disputes, ClaimsProofs

-----------------------------------------------------------------------------
(***************************************************************************)
(* Moves and logs.                                                         *)
(***************************************************************************)

\* The moves that name a proposal are the answers.
Asked == {m \in Move : m.about # 0 => m.type \in {"accept", "reject"}}

\* The moves a side may try.
LEMMA CandidateType ==
  ASSUME NEW log \in Seq(Move), NEW side \in Side, NEW m \in Candidates(log, side)
  PROVE  m \in Asked
<1>1. \A S \in Offers : S \in SUBSET Paths
  BY DisputeAssumption
<1>2. \A i \in DOMAIN log : i \in Nat
  OBVIOUS
<1>3. ASSUME NEW t \in Propose \cup {"accept", "reject", "concede_skip"},
             NEW S \in SUBSET Paths, NEW T \in SUBSET Paths, NEW i \in Nat,
             i # 0 => t \in {"accept", "reject"},
             m = Of(t, side, S, T, i)
      PROVE  m \in Asked
  BY <1>3 DEF Of, Move, Asked
<1>4. \/ \E t \in {"propose_release_full", "propose_release_after_task", "concede_skip"} :
           m = Of(t, side, {}, {}, 0)
      \/ \E T \in Offers : m = Of("propose_release_subset", side, {}, T, 0)
      \/ \E S \in Offers, T \in Offers : m = Of("propose_swap", side, S, T, 0)
      \/ \E t \in {"accept", "reject"}, i \in DOMAIN log : m = Of(t, side, {}, {}, i)
  BY DEF Candidates
<1>. QED
  BY <1>1, <1>2, <1>3, <1>4 DEF Propose

LEMMA AppendMove ==
  ASSUME NEW T, NEW s \in Seq(T), NEW e \in T
  PROVE  /\ Append(s, e) \in Seq(T)
         /\ Len(s) \in Nat /\ Len(Append(s, e)) = Len(s) + 1
         /\ DOMAIN s = 1 .. Len(s)
         /\ DOMAIN Append(s, e) = 1 .. (Len(s) + 1)
         /\ \A i \in DOMAIN s : Append(s, e)[i] = s[i]
         /\ Append(s, e)[Len(s) + 1] = e
  OBVIOUS

LEMMA FirstType ==
  ASSUME NEW cs, \E i \in 1 .. 5 : Order[i] \in cs
  PROVE  First(cs) \in cs \cap Condition
<1>1. PICK i \in 1 .. 5 :
        Order[i] \in cs /\ \A j \in 1 .. i - 1 : Order[j] \notin cs
  <2>1. CASE Order[1] \in cs
    BY <2>1
  <2>2. CASE Order[1] \notin cs /\ Order[2] \in cs
    BY <2>2
  <2>3. CASE Order[1] \notin cs /\ Order[2] \notin cs /\ Order[3] \in cs
    BY <2>3
  <2>4. CASE /\ Order[1] \notin cs /\ Order[2] \notin cs
             /\ Order[3] \notin cs /\ Order[4] \in cs
    BY <2>4
  <2>5. CASE /\ Order[1] \notin cs /\ Order[2] \notin cs
             /\ Order[3] \notin cs /\ Order[4] \notin cs
    BY <2>5
  <2>. QED
    BY <2>1, <2>2, <2>3, <2>4, <2>5
<1>. QED
  BY <1>1 DEF First, Condition

LEMMA MetType ==
  ASSUME enabled \in Configs, NEW d, NEW log, NEW pc, Met(d, log, pc) # {}
  PROVE  First(Met(d, log, pc)) \in Condition
<1>1. Met(d, log, pc) \subseteq Condition
  <2>1. enabled \subseteq Condition
    BY DisputeAssumption
  <2>2. "explicit" = Order[2] /\ "user_override" = Order[1]
    BY DEF Order
  <2>. QED
    BY <2>1, <2>2 DEF Met, Condition
<1>. QED
  BY <1>1, FirstType DEF Condition

-----------------------------------------------------------------------------
(***************************************************************************)
(* What a step does to the disputes: nothing, or it opens one, posts a     *)
(* move, or closes one.                                                    *)
(***************************************************************************)

\* Dispute d is closed, by proposal i of its thread unless i is 0.
Closes(d, status, reason, outcome, i) ==
  /\ disputes' = ClosedAs(d, status, reason, outcome)
  /\ \E S \in SUBSET Paths, g \in ClaimId \cup {0} :
       /\ i = 0 => g = 0
       /\ closings' = Append(closings,
            [thread |-> d, outcome |-> outcome, proposal |-> i,
             claimed |-> S, granted |-> g])

Untouched == UNCHANGED <<disputes, moves, closings>>

DisputeTypes ==
  /\ DOMAIN disputes \subseteq DisputeId
  /\ disputes \in [DOMAIN disputes -> Dispute]
  /\ moves \in [DisputeId -> Seq(Move)]
  /\ closings \in Seq(Closing)

LEMMA TerminateCloses ==
  ASSUME NEW d, NEW reason, NEW outcome, Terminate(d, reason, outcome)
  PROVE  Closes(d, "terminated", reason, outcome, 0) /\ UNCHANGED <<claims, ended>>
  BY DEF Terminate, Closes

LEMMA AcceptCloses ==
  ASSUME DisputesTypeOK, NEW d \in DOMAIN disputes,
         NEW i \in OpenProposals(moves[d]), NEW reason, AcceptOutcome(d, i, reason)
  PROVE  /\ Closes(d, "resolved", reason, OutcomeOf(moves[d][i]), i)
         /\ i \in Nat \ {0}
         /\ OutcomeOf(moves[d][i]) \in Outcome
<1> DEFINE m == moves[d][i]
           S == Claimed(d, m)
<1>1. moves[d] \in Seq(Move) /\ i \in DOMAIN moves[d] /\ m.type \in Propose
  BY DEF DisputesTypeOK, OpenProposals
<1>2. i \in Nat \ {0} /\ m \in Move
  BY <1>1
<1>3. S \in SUBSET Paths
  BY <1>2, ScopeAssumption DEF Claimed, Move, DisputesTypeOK, Dispute
<1>4. OutcomeOf(m) \in Outcome
  <2>1. CASE m.type = "propose_release_full"
    BY <2>1 DEF OutcomeOf, Outcome
  <2>2. CASE m.type = "propose_release_subset"
    BY <2>2 DEF OutcomeOf, Outcome
  <2>3. CASE m.type = "propose_release_after_task"
    BY <2>3 DEF OutcomeOf, Outcome
  <2>4. CASE m.type = "propose_swap"
    BY <2>4 DEF OutcomeOf, Outcome
  <2>. QED
    BY <1>1, <2>1, <2>2, <2>3, <2>4 DEF Propose
<1>5. PICK g \in ClaimId \cup {0} :
        /\ disputes' = ClosedAs(d, "resolved", reason, OutcomeOf(m))
        /\ closings' = Append(closings,
             [thread |-> d, outcome |-> OutcomeOf(m), proposal |-> i,
              claimed |-> S, granted |-> g])
  BY DEF AcceptOutcome
<1>. QED
  BY <1>2, <1>3, <1>4, <1>5 DEF Closes

\* The row and the log entry of a closing are in type.
LEMMA ClosesType ==
  ASSUME DisputeTypes, NEW d \in DOMAIN disputes, NEW status \in {"resolved", "terminated"},
         NEW reason \in Condition, NEW outcome \in Outcome, NEW i \in Nat,
         Closes(d, status, reason, outcome, i)
  PROVE  /\ DOMAIN disputes' = DOMAIN disputes
         /\ disputes' \in [DOMAIN disputes -> Dispute]
         /\ \A e \in DOMAIN disputes : disputes'[e].claim = disputes[e].claim
         /\ \A e \in DOMAIN disputes \ {d} : disputes'[e] = disputes[e]
         /\ disputes'[d].status = status
         /\ disputes'[d].reason = reason
         /\ disputes'[d].outcome = outcome
         /\ closings' \in Seq(Closing)
<1> DEFINE row == [disputes[d] EXCEPT !.status = status, !.reason = reason,
                                      !.outcome = outcome]
<1>1. disputes[d] \in Dispute
  BY DEF DisputeTypes
<1>2. row \in Dispute /\ row.claim = disputes[d].claim
      /\ row.status = status /\ row.reason = reason /\ row.outcome = outcome
  BY <1>1 DEF Dispute
<1>3. disputes' = [disputes EXCEPT ![d] = row]
  BY DEF Closes, ClosedAs
<1> HIDE DEF row
<1>4. closings' \in Seq(Closing)
  <2>1. PICK S \in SUBSET Paths, g \in ClaimId \cup {0} :
          closings' = Append(closings,
            [thread |-> d, outcome |-> outcome, proposal |-> i,
             claimed |-> S, granted |-> g])
    BY DEF Closes
  <2>2. d \in DisputeId
    BY DEF DisputeTypes
  <2>3. [thread |-> d, outcome |-> outcome, proposal |-> i,
         claimed |-> S, granted |-> g] \in Closing
    BY <2>2 DEF Closing
  <2>. QED
    BY <2>1, <2>3, AppendMove DEF DisputeTypes
<1>. QED
  BY <1>2, <1>3, <1>4 DEF DisputeTypes

-----------------------------------------------------------------------------
(***************************************************************************)
(* What an agreement does to the claims.                                   *)
(***************************************************************************)

\* A row that hands over S loses the patterns S touches.
LEMMA NarrowedRow ==
  ASSUME TypeOK, NEW cs, NEW S, NEW c \in DOMAIN claims
  PROVE  /\ Narrowed(cs, S)[c] \in Claim
         /\ Narrowed(cs, S)[c].scope \subseteq claims[c].scope
         /\ c \in cs => Narrowed(cs, S)[c].scope = Kept(claims[c].scope, S)
<1> DEFINE kept == Kept(claims[c].scope, S)
           left == [claims[c] EXCEPT !.scope = kept,
                      !.status = IF kept = {} THEN "released" ELSE @]
<1>1. claims[c] \in Claim
  BY DEF TypeOK
<1>2. kept \in Patterns /\ kept \subseteq claims[c].scope
  BY <1>1 DEF Claim, Kept, Patterns
<1>3. left \in Claim /\ left.scope = kept
  <2> HIDE DEF kept
  <2>1. CASE kept = {}
    <3>1. left = [claims[c] EXCEPT !.scope = kept, !.status = "released"]
      BY <2>1
    <3>. QED
      BY <1>1, <1>2, <3>1 DEF Claim
  <2>2. CASE kept # {}
    <3>1. left = [claims[c] EXCEPT !.scope = kept]
      BY <1>1, <2>2 DEF Claim
    <3>. QED
      BY <1>1, <1>2, <3>1 DEF Claim
  <2>. QED
    BY <2>1, <2>2
<1>4. Narrowed(cs, S)[c] =
        IF c \notin cs \/ Matched(claims[c].scope, S) = {} THEN claims[c] ELSE left
  BY DEF Narrowed
<1>5. Matched(claims[c].scope, S) = {} => kept = claims[c].scope
  BY DEF Kept
<1> HIDE DEF left, kept
<1>. QED
  BY <1>1, <1>2, <1>3, <1>4, <1>5 DEF kept

\* The claims after an agreement that is no promise to release later.
LEMMA AcceptClaims ==
  ASSUME TypeOK, DisputesTypeOK, NEW d \in DOMAIN disputes,
         NEW i \in OpenProposals(moves[d]), NEW reason, AcceptOutcome(d, i, reason),
         moves[d][i].type # "propose_release_after_task"
  PROVE  LET c == disputes[d].claim
         IN  /\ Shrinks
             /\ claims' \in [DOMAIN claims' -> Claim]
             /\ DOMAIN claims' \subseteq ClaimId
             /\ DOMAIN claims' = 1 .. Cardinality(DOMAIN claims')
             /\ ended' \subseteq (DOMAIN claims) \X ReleaseEvents
             /\ claims'[c].scope = Kept(claims[c].scope, Surrendered(d, moves[d][i]))
<1> DEFINE m == moves[d][i]
           c == disputes[d].claim
           opener == disputes[d].opener
           S == Claimed(d, m)
           g == IF S = {} THEN 0 ELSE Cardinality(DOMAIN claims) + 1
           left == [e \in DOMAIN claims |->
                      IF e = c THEN Narrowed({c}, Surrendered(d, m))[e]
                               ELSE Narrowed(Given(d), m.gives)[e]]
           over == {e \in DOMAIN claims : left[e].scope = {} /\ claims[e].scope # {}}
           row == GrantedRow(opener, S, GrantLease)
<1>1. disputes[d] \in Dispute /\ c \in DOMAIN claims
  BY DEF DisputesTypeOK
<1>2. moves[d] \in Seq(Move) /\ m \in Move
  BY DEF DisputesTypeOK, OpenProposals
<1>3. /\ g \in ClaimId \cup {0}
      /\ claims' = IF g = 0 THEN left ELSE WithRow(left, g, row)
      /\ ended' = ended \cup (over \X {"scope_released"})
  BY DEF AcceptOutcome
<1>4. /\ DOMAIN left = DOMAIN claims
      /\ \A e \in DOMAIN claims :
           left[e] \in Claim /\ left[e].scope \subseteq claims[e].scope
      /\ left[c].scope = Kept(claims[c].scope, Surrendered(d, m))
  <2>1. DOMAIN left = DOMAIN claims
    OBVIOUS
  <2>2. ASSUME NEW e \in DOMAIN claims
        PROVE  left[e] \in Claim /\ left[e].scope \subseteq claims[e].scope
    <3>1. CASE e = c
      <4>1. left[e] = Narrowed({c}, Surrendered(d, m))[e]
        BY <3>1
      <4> HIDE DEF left, c, m
      <4>. QED
        BY <4>1, NarrowedRow
    <3>2. CASE e # c
      <4>1. left[e] = Narrowed(Given(d), m.gives)[e]
        BY <3>2
      <4> HIDE DEF left, c, m
      <4>. QED
        BY <4>1, NarrowedRow
    <3>. QED
      BY <3>1, <3>2
  <2>3. left[c].scope = Kept(claims[c].scope, Surrendered(d, m))
    <3>1. left[c] = Narrowed({c}, Surrendered(d, m))[c]
      BY <1>1
    <3> HIDE DEF left, c, m
    <3>. QED
      BY <1>1, <3>1, NarrowedRow
  <2>. QED
    BY <2>1, <2>2, <2>3
<1>5. row \in Claim
  <2>1. now \in Nat /\ now + GrantLease \in Nat
    BY TimeAssumption, DisputeAssumption DEF TypeOK
  <2>2. S \in Patterns
    BY <1>1, <1>2, ScopeAssumption DEF Claimed, Move, Dispute, Patterns
  <2>3. opener \in Principals
    BY <1>1 DEF Dispute
  <2>. QED
    BY <2>1, <2>2, <2>3, AgreedAssumption DEF TypeOK, Claim, GrantedRow, Mode
<1>6. over \X {"scope_released"} \subseteq (DOMAIN claims) \X ReleaseEvents
  BY DEF ReleaseEvents
<1>7. ended' \subseteq (DOMAIN claims) \X ReleaseEvents
  BY <1>3, <1>6 DEF TypeOK
<1>8. DOMAIN claims \subseteq ClaimId /\ DOMAIN claims = 1 .. Cardinality(DOMAIN claims)
  BY DEF TypeOK
<1> HIDE DEF left, row, over, m, S
<1>9. CASE g = 0
  <2>1. claims' = left
    BY <1>3, <1>9
  <2>2. claims' \in [DOMAIN claims' -> Claim]
    <3>1. left = [e \in DOMAIN left |-> left[e]]
      BY DEF left
    <3>. QED
      BY <1>4, <2>1, <3>1
  <2> HIDE DEF g, c
  <2>. QED
    BY <1>1, <1>4, <1>7, <1>8, <2>1, <2>2 DEF Shrinks, c, m
<1>10. CASE g # 0
  <2>1. g \notin DOMAIN claims
        /\ DOMAIN claims \cup {g} = 1 .. Cardinality(DOMAIN claims \cup {g})
    BY <1>10, NextId
  <2>2. claims' = WithRow(left, g, row) /\ g \in ClaimId
    BY <1>3, <1>10
  <2> HIDE DEF g, c
  <2>3. /\ DOMAIN claims' = DOMAIN claims \cup {g}
        /\ claims' \in [DOMAIN claims' -> Claim]
        /\ \A e \in DOMAIN claims : claims'[e] = left[e]
    BY <1>4, <1>5, <2>1, <2>2 DEF WithRow
  <2>. QED
    BY <1>1, <1>4, <1>7, <1>8, <2>1, <2>2, <2>3 DEF Shrinks, c, m
<1>. QED
  BY <1>9, <1>10

\* The claims part of the type invariant survives an agreement.
LEMMA AcceptType ==
  ASSUME TypeOK, DisputesTypeOK, NEW d \in DOMAIN disputes,
         NEW i \in OpenProposals(moves[d]), NEW reason, AcceptOutcome(d, i, reason),
         UNCHANGED <<keyed, unread, pending, sprintOf, now>>
  PROVE  TypeOK' /\ Shrinks
<1>1. CASE moves[d][i].type = "propose_release_after_task"
  <2>1. UNCHANGED <<claims, ended>>
    BY <1>1 DEF AcceptOutcome
  <2>. QED
    BY <2>1, ShrinksSame DEF TypeOK
<1>2. CASE moves[d][i].type # "propose_release_after_task"
  <2>1. /\ Shrinks
        /\ claims' \in [DOMAIN claims' -> Claim]
        /\ DOMAIN claims' \subseteq ClaimId
        /\ DOMAIN claims' = 1 .. Cardinality(DOMAIN claims')
        /\ ended' \subseteq (DOMAIN claims) \X ReleaseEvents
    BY <1>2, AcceptClaims
  <2>2. DOMAIN claims \subseteq DOMAIN claims'
    BY <2>1 DEF Shrinks
  <2>3. /\ DOMAIN keyed' \subseteq Principals \X Scopes \X Contexts
        /\ keyed' \in [DOMAIN keyed' -> DOMAIN claims']
        /\ ended' \subseteq (DOMAIN claims') \X ReleaseEvents
        /\ unread' \subseteq DOMAIN claims'
    BY <2>1, <2>2 DEF TypeOK
  <2>4. /\ DOMAIN pending' \subseteq PendingId
        /\ pending' \in [DOMAIN pending' -> PendingEdit]
        /\ \A q \in DOMAIN pending' : pending'[q].blocking \in DOMAIN claims'
        /\ sprintOf' \in [Principals -> Contexts]
        /\ now' \in 0 .. MaxTime
    BY <2>2 DEF TypeOK
  <2>. QED
    BY <2>1, <2>3, <2>4 DEF TypeOK
<1>. QED
  BY <1>1, <1>2

-----------------------------------------------------------------------------
(***************************************************************************)
(* The steps.                                                              *)
(***************************************************************************)

DisputesInv == TypeOK /\ DisputesTypeOK

Opens(d, row) ==
  /\ d \in DisputeId \ DOMAIN disputes
  /\ row \in Dispute /\ row.claim \in DOMAIN claims
  /\ row.status = "open" /\ row.reason = "none"
  /\ disputes' = WithRow(disputes, d, row)
  /\ UNCHANGED <<moves, closings>>

\* d is closed, as agreed exactly when a proposal was accepted.
Closed(d) ==
  \E status \in {"resolved", "terminated"}, reason \in Condition,
     outcome \in Outcome, i \in Nat :
    /\ Closes(d, status, reason, outcome, i)
    /\ status = "resolved" <=> i # 0

\* d is closed, but by no move.
ClosesWithout(d) == IsOpen(d) /\ UNCHANGED moves /\ Closed(d)

Posts(d, m) ==
  LET log == Append(moves[d], m)
  IN  /\ IsOpen(d)
      /\ Legal(moves[d], m)
      /\ moves' = [moves EXCEPT ![d] = log]
      /\ \/ /\ m.type \in Propose \cup {"reject"}
            /\ \/ Met(d, log, FALSE) = {} /\ UNCHANGED <<disputes, closings>>
               \/ Closed(d)
         \/ /\ m.type = "concede_skip"
            /\ Closes(d, "terminated", "explicit", "skip", 0)
         \/ /\ m.type = "accept"
            /\ \E outcome \in Outcome, i \in Nat \ {0} :
                 Closes(d, "resolved", "explicit", outcome, i)

LEMMA ReasonTypes ==
  {"explicit", "user_override"} \subseteq Condition
  /\ {"skip", "deny"} \subseteq Outcome
<1>1. "explicit" = Order[2] /\ "user_override" = Order[1]
  BY DEF Order
<1>. QED
  BY <1>1 DEF Condition, Outcome

LEMMA TerminateClosed ==
  ASSUME NEW d, NEW reason \in Condition, NEW outcome \in {"skip", "deny"},
         Terminate(d, reason, outcome)
  PROVE  Closed(d)
<1>1. Closes(d, "terminated", reason, outcome, 0)
  BY TerminateCloses
<1>. QED
  BY <1>1, ReasonTypes DEF Closed

LEMMA AcceptClosed ==
  ASSUME DisputesTypeOK, NEW d \in DOMAIN disputes,
         NEW i \in OpenProposals(moves[d]), NEW reason \in Condition,
         AcceptOutcome(d, i, reason)
  PROVE  Closed(d)
<1>1. /\ Closes(d, "resolved", reason, OutcomeOf(moves[d][i]), i)
      /\ i \in Nat \ {0} /\ OutcomeOf(moves[d][i]) \in Outcome
  BY AcceptCloses
<1>. QED
  BY <1>1 DEF Closed

\* A posted move ends the dispute before it counts, or counts.
LEMMA PostStep ==
  ASSUME DisputesInv, NEW d \in DOMAIN disputes, NEW m \in Move, DisputePostMove(d, m)
  PROVE  ClosesWithout(d) \/ Posts(d, m)
<1> DEFINE log == Append(moves[d], m)
           before == Met(d, moves[d], PrefChanged(d))
<1>1. enabled \in Configs
  BY DEF DisputesInv, DisputesTypeOK
<1>2. IsOpen(d)
  BY DEF DisputePostMove
<1>3. CASE before # {} /\ Terminate(d, First(before), "skip") /\ UNCHANGED moves
  <2>1. Closed(d)
    BY <1>1, <1>3, MetType, TerminateClosed
  <2>. QED
    BY <1>2, <1>3, <2>1 DEF ClosesWithout
<1>4. CASE /\ Legal(moves[d], m)
           /\ moves' = [moves EXCEPT ![d] = log]
           /\ \/ /\ m.type \in Propose \cup {"reject"}
                 /\ IF Met(d, log, FALSE) = {}
                    THEN UNCHANGED <<disputes, closings, claims, ended>>
                    ELSE Terminate(d, First(Met(d, log, FALSE)), "skip")
              \/ m.type = "concede_skip" /\ Terminate(d, "explicit", "skip")
              \/ m.type = "accept" /\ AcceptOutcome(d, m.about, "explicit")
  <2>1. CASE m.type \in Propose \cup {"reject"}
    <3>1. m.type # "concede_skip" /\ m.type # "accept"
      BY <2>1 DEF Propose
    <3>2. CASE Met(d, log, FALSE) = {}
      BY <1>2, <1>4, <2>1, <3>1, <3>2 DEF Posts
    <3>3. CASE Met(d, log, FALSE) # {}
      <4>1. Terminate(d, First(Met(d, log, FALSE)), "skip")
        BY <1>4, <3>1, <3>3
      <4>2. Closed(d)
        BY <1>1, <3>3, <4>1, MetType, TerminateClosed
      <4>. QED
        BY <1>2, <1>4, <2>1, <4>2 DEF Posts
    <3>. QED
      BY <3>2, <3>3
  <2>2. CASE m.type = "concede_skip" /\ Terminate(d, "explicit", "skip")
    BY <1>2, <1>4, <2>2, TerminateCloses DEF Posts
  <2>3. CASE m.type = "accept" /\ AcceptOutcome(d, m.about, "explicit")
    <3>1. m.about \in OpenProposals(moves[d])
      BY <1>4, <2>3 DEF Legal, Answers
    <3>2. /\ Closes(d, "resolved", "explicit", OutcomeOf(moves[d][m.about]), m.about)
          /\ m.about \in Nat \ {0} /\ OutcomeOf(moves[d][m.about]) \in Outcome
      BY <2>3, <3>1, AcceptCloses DEF DisputesInv
    <3>. QED
      BY <1>2, <1>4, <2>3, <3>2 DEF Posts
  <2>. QED
    BY <1>4, <2>1, <2>2, <2>3
<1>. QED
  BY <1>3, <1>4 DEF DisputePostMove

LEMMA EndStep ==
  ASSUME DisputesInv, NEW d \in DOMAIN disputes, EndDispute(d)
  PROVE  ClosesWithout(d)
<1>1. IsOpen(d) /\ UNCHANGED moves
  BY DEF EndDispute
<1>2. ASSUME NEW outcome \in {"deny", "skip"}, Terminate(d, "user_override", outcome)
      PROVE  Closed(d)
  BY <1>2, ReasonTypes, TerminateClosed
<1>3. ASSUME NEW i \in OpenProposals(moves[d]), AcceptOutcome(d, i, "user_override")
      PROVE  Closed(d)
  BY <1>3, ReasonTypes, AcceptClosed DEF DisputesInv
<1>4. Closed(d)
  BY <1>2, <1>3 DEF EndDispute
<1>. QED
  BY <1>1, <1>4 DEF ClosesWithout

LEMMA OpenStep ==
  ASSUME DisputesInv, NEW p \in Principals, NEW c \in DOMAIN claims, NEW S \in Scopes,
         OpenDispute(p, c, S)
  PROVE  \E d, row : Opens(d, row)
<1>1. PICK d \in DisputeId \ DOMAIN disputes :
        disputes' = WithRow(disputes, d,
          [opener |-> p, target |-> claims[c].owner, claim |-> c, paths |-> S,
           opened |-> now, status |-> "open", reason |-> "none",
           outcome |-> "none"])
  BY DEF OpenDispute
<1>2. claims[c].owner \in Principals /\ now \in Nat /\ c \in ClaimId
  BY TimeAssumption DEF DisputesInv, TypeOK, Claim
<1>3. [opener |-> p, target |-> claims[c].owner, claim |-> c, paths |-> S,
       opened |-> now, status |-> "open", reason |-> "none",
       outcome |-> "none"] \in Dispute
  BY <1>2 DEF Dispute
<1>4. UNCHANGED <<moves, closings>>
  BY DEF OpenDispute
<1>. QED
  BY <1>1, <1>3, <1>4 DEF Opens

LEMMA DisputeStep ==
  ASSUME DisputesInv, [DisputesNext]_dvarsAll
  PROVE  \/ Untouched
         \/ \E d, row : Opens(d, row)
         \/ \E d \in DOMAIN disputes : ClosesWithout(d)
         \/ \E d \in DOMAIN disputes, m \in Asked : Posts(d, m)
<1>1. ASSUME NEW p \in Principals, NEW c \in DOMAIN claims, NEW S \in Scopes,
             OpenDispute(p, c, S)
      PROVE  \E d, row : Opens(d, row)
  BY <1>1, OpenStep
<1>2. ASSUME NEW d \in DOMAIN disputes, NEW side \in Side,
             NEW m \in Candidates(moves[d], side), DisputePostMove(d, m)
      PROVE  m \in Asked /\ (ClosesWithout(d) \/ Posts(d, m))
  <2>1. moves[d] \in Seq(Move)
    BY DEF DisputesInv, DisputesTypeOK
  <2>2. m \in Asked /\ m \in Move
    BY <2>1, CandidateType DEF Asked
  <2>. QED
    BY <1>2, <2>2, PostStep
<1>3. ASSUME NEW d \in DOMAIN disputes, EndDispute(d)
      PROVE  ClosesWithout(d)
  BY <1>3, EndStep
<1>4. CASE \/ ClaimTool
           \/ \E cs \in Configs : UpdateDisputeTerminations(cs)
           \/ \E p \in Principals : UpdateCoordPref(p)
           \/ UNCHANGED dvarsAll
  BY <1>4 DEF ClaimTool, UpdateDisputeTerminations, UpdateCoordPref, dvarsAll,
              dvars, Untouched
<1>. QED
  BY <1>1, <1>2, <1>3, <1>4 DEF DisputesNext

\* What the steps of Disputes do to the tables of Claims.
LEMMA ClaimsPart ==
  ASSUME DisputesInv, [DisputesNext]_dvarsAll
  PROVE  TypeOK' /\ Shrinks
<1>1. ASSUME [Next]_vars
      PROVE  TypeOK' /\ Shrinks
  BY <1>1, TypeStep, ShrinksStep DEF DisputesInv
<1>2. ASSUME UNCHANGED <<claims, ended, keyed, unread, pending, sprintOf, now>>
      PROVE  TypeOK' /\ Shrinks
  BY <1>1, <1>2 DEF vars
<1>3. ASSUME NEW d \in DOMAIN disputes, NEW i \in OpenProposals(moves[d]),
             NEW reason, AcceptOutcome(d, i, reason),
             UNCHANGED <<keyed, unread, pending, sprintOf, now>>
      PROVE  TypeOK' /\ Shrinks
  BY <1>3, AcceptType DEF DisputesInv
<1>4. ASSUME NEW d \in DOMAIN disputes, NEW m, DisputePostMove(d, m)
      PROVE  TypeOK' /\ Shrinks
  <2>1. UNCHANGED <<keyed, unread, pending, sprintOf, now>>
    BY <1>4 DEF DisputePostMove
  <2>2. CASE UNCHANGED <<claims, ended>>
    BY <1>2, <2>1, <2>2
  <2>3. CASE /\ Legal(moves[d], m) /\ m.type = "accept"
             /\ AcceptOutcome(d, m.about, "explicit")
    BY <1>3, <2>1, <2>3 DEF Legal, Answers
  <2>4. \/ UNCHANGED <<claims, ended>>
        \/ Legal(moves[d], m) /\ m.type = "accept"
           /\ AcceptOutcome(d, m.about, "explicit")
    BY <1>4, TerminateCloses DEF DisputePostMove, Terminate
  <2>. QED
    BY <2>2, <2>3, <2>4
<1>5. ASSUME NEW d \in DOMAIN disputes, EndDispute(d)
      PROVE  TypeOK' /\ Shrinks
  <2>1. UNCHANGED <<keyed, unread, pending, sprintOf, now>>
    BY <1>5 DEF EndDispute
  <2>2. \/ UNCHANGED <<claims, ended>>
        \/ \E i \in OpenProposals(moves[d]) : AcceptOutcome(d, i, "user_override")
    BY <1>5 DEF EndDispute, Terminate
  <2>. QED
    BY <1>2, <1>3, <2>1, <2>2
<1>6. CASE \/ \E p \in Principals, c \in DOMAIN claims, S \in Scopes :
                OpenDispute(p, c, S)
           \/ ClaimTool
           \/ \E cs \in Configs : UpdateDisputeTerminations(cs)
           \/ \E p \in Principals : UpdateCoordPref(p)
           \/ UNCHANGED dvarsAll
  <2>1. [Next]_vars
    BY <1>6 DEF OpenDispute, ClaimTool, UpdateDisputeTerminations, UpdateCoordPref,
                dvarsAll
  <2>. QED
    BY <1>1, <2>1
<1>. QED
  BY <1>4, <1>5, <1>6 DEF DisputesNext

-----------------------------------------------------------------------------
(***************************************************************************)
(* Types.                                                                  *)
(***************************************************************************)

LEMMA OpensType ==
  ASSUME DisputesInv, Shrinks, NEW d, NEW row, Opens(d, row)
  PROVE  /\ DOMAIN disputes' = DOMAIN disputes \cup {d}
         /\ disputes' \in [DOMAIN disputes' -> Dispute]
         /\ disputes'[d] = row /\ d \in DisputeId
         /\ \A e \in DOMAIN disputes : disputes'[e] = disputes[e]
         /\ \A e \in DOMAIN disputes' : disputes'[e].claim \in DOMAIN claims'
<1>1. /\ DOMAIN disputes' = DOMAIN disputes \cup {d}
      /\ disputes' \in [DOMAIN disputes' -> Dispute]
      /\ disputes'[d] = row /\ d \in DisputeId
      /\ \A e \in DOMAIN disputes : disputes'[e] = disputes[e]
  BY DEF DisputesInv, DisputesTypeOK, Opens, WithRow
<1>2. DOMAIN claims \subseteq DOMAIN claims' /\ row.claim \in DOMAIN claims
  BY DEF Shrinks, Opens
<1>. QED
  BY <1>1, <1>2 DEF DisputesInv, DisputesTypeOK

LEMMA ClosedType ==
  ASSUME DisputesInv, Shrinks, NEW d \in DOMAIN disputes, Closed(d)
  PROVE  /\ DOMAIN disputes' = DOMAIN disputes
         /\ disputes' \in [DOMAIN disputes' -> Dispute]
         /\ \A e \in DOMAIN disputes' : disputes'[e].claim \in DOMAIN claims'
         /\ closings' \in Seq(Closing)
<1>1. PICK status \in {"resolved", "terminated"}, reason \in Condition,
           outcome \in Outcome, i \in Nat : Closes(d, status, reason, outcome, i)
  BY DEF Closed
<1>2. DisputeTypes
  BY DEF DisputesInv, DisputesTypeOK, DisputeTypes
<1>3. /\ DOMAIN disputes' = DOMAIN disputes
      /\ disputes' \in [DOMAIN disputes -> Dispute]
      /\ \A e \in DOMAIN disputes : disputes'[e].claim = disputes[e].claim
      /\ closings' \in Seq(Closing)
  BY <1>1, <1>2, ClosesType
<1>4. \A e \in DOMAIN disputes : disputes[e].claim \in DOMAIN claims'
  BY DEF Shrinks, DisputesInv, DisputesTypeOK
<1>. QED
  BY <1>3, <1>4

LEMMA PostsClosed ==
  ASSUME NEW d, NEW m, Posts(d, m)
  PROVE  \/ Closed(d)
         \/ /\ m.type \in Propose \cup {"reject"}
            /\ Met(d, Append(moves[d], m), FALSE) = {}
            /\ UNCHANGED <<disputes, closings>>
<1>1. CASE Closes(d, "terminated", "explicit", "skip", 0)
  BY <1>1, ReasonTypes DEF Closed
<1>2. ASSUME NEW outcome \in Outcome, NEW i \in Nat \ {0},
             Closes(d, "resolved", "explicit", outcome, i)
      PROVE  Closed(d)
  BY <1>2, ReasonTypes DEF Closed
<1>. QED
  BY <1>1, <1>2 DEF Posts

LEMMA MovesType ==
  ASSUME DisputesInv, NEW d \in DOMAIN disputes, NEW m \in Move, Posts(d, m)
  PROVE  /\ moves' \in [DisputeId -> Seq(Move)]
         /\ moves'[d] = Append(moves[d], m)
         /\ \A e \in DisputeId \ {d} : moves'[e] = moves[e]
<1>1. d \in DisputeId /\ moves \in [DisputeId -> Seq(Move)]
  BY DEF DisputesInv, DisputesTypeOK
<1>2. Append(moves[d], m) \in Seq(Move)
  BY <1>1, AppendMove
<1>3. moves' = [moves EXCEPT ![d] = Append(moves[d], m)]
  BY DEF Posts
<1>. QED
  BY <1>1, <1>2, <1>3

LEMMA ConfigType ==
  ASSUME DisputesInv, [DisputesNext]_dvarsAll
  PROVE  enabled' \in Configs /\ auto' \subseteq Principals
<1>1. enabled \in Configs /\ auto \subseteq Principals
  BY DEF DisputesInv, DisputesTypeOK
<1>2. \/ UNCHANGED <<enabled, auto>>
      \/ \E cs \in Configs : enabled' = cs /\ UNCHANGED auto
      \/ \E p \in Principals :
           /\ auto' = IF p \in auto THEN auto \ {p} ELSE auto \cup {p}
           /\ UNCHANGED enabled
  BY DEF DisputesNext, ClaimTool, OpenDispute, DisputePostMove, EndDispute,
         UpdateDisputeTerminations, UpdateCoordPref, dvars, dvarsAll
<1>. QED
  BY <1>1, <1>2

LEMMA DisputesTypeStep == DisputesInv /\ [DisputesNext]_dvarsAll => DisputesInv'
<1> SUFFICES ASSUME DisputesInv, [DisputesNext]_dvarsAll
             PROVE  DisputesInv'
  OBVIOUS
<1>1. TypeOK' /\ Shrinks
  BY ClaimsPart
<1>2. enabled' \in Configs /\ auto' \subseteq Principals
  BY ConfigType
<1>3. /\ DOMAIN disputes \subseteq DisputeId
      /\ disputes \in [DOMAIN disputes -> Dispute]
      /\ \A d \in DOMAIN disputes : disputes[d].claim \in DOMAIN claims'
      /\ moves \in [DisputeId -> Seq(Move)]
      /\ closings \in Seq(Closing)
  BY <1>1 DEF Shrinks, DisputesInv, DisputesTypeOK
<1>4. CASE Untouched
  BY <1>1, <1>2, <1>3, <1>4 DEF Untouched, DisputesInv, DisputesTypeOK
<1>5. ASSUME NEW d, NEW row, Opens(d, row)
      PROVE  DisputesInv'
  <2>1. UNCHANGED <<moves, closings>>
    BY <1>5 DEF Opens
  <2>2. /\ DOMAIN disputes' = DOMAIN disputes \cup {d} /\ d \in DisputeId
        /\ disputes' \in [DOMAIN disputes' -> Dispute]
        /\ \A e \in DOMAIN disputes' : disputes'[e].claim \in DOMAIN claims'
    BY <1>1, <1>5, OpensType
  <2>3. moves' \in [DisputeId -> Seq(Move)] /\ closings' \in Seq(Closing)
    BY <1>3, <2>1
  <2>. QED
    BY <1>1, <1>2, <2>2, <2>3 DEF DisputesInv, DisputesTypeOK
<1>6. ASSUME NEW d \in DOMAIN disputes, ClosesWithout(d)
      PROVE  DisputesInv'
  BY <1>1, <1>2, <1>3, <1>6, ClosedType
  DEF ClosesWithout, DisputesInv, DisputesTypeOK
<1>7. ASSUME NEW d \in DOMAIN disputes, NEW m \in Move, Posts(d, m)
      PROVE  DisputesInv'
  <2>1. moves' \in [DisputeId -> Seq(Move)]
    BY <1>7, MovesType
  <2>2. CASE UNCHANGED <<disputes, closings>>
    BY <1>1, <1>2, <1>3, <2>1, <2>2 DEF DisputesInv, DisputesTypeOK
  <2>3. CASE Closed(d)
    BY <1>1, <1>2, <1>3, <2>1, <2>3, ClosedType DEF DisputesInv, DisputesTypeOK
  <2>. QED
    BY <1>7, <2>2, <2>3, PostsClosed
<1>. QED
  BY <1>4, <1>5, <1>6, <1>7, DisputeStep DEF Asked

LEMMA DisputesInvInit == DisputesInit => DisputesInv
<1> SUFFICES ASSUME DisputesInit
             PROVE  DisputesInv
  OBVIOUS
<1>1. TypeOK
  BY FS_EmptySet, TimeAssumption DEF DisputesInit, Init, TypeOK, NoRows, Contexts
<1>2. AllConditions \in Configs
  BY DisputeAssumption
<1>. QED
  BY <1>1, <1>2 DEF DisputesInit, DisputesInv, DisputesTypeOK, NoRows

\* The rows of the disputes, the log of moves and the log of closings keep
\* their shape, and a dispute is always about a claim in the table.
THEOREM DisputesTypeCorrect == DisputesSpec => []DisputesTypeOK
<1>1. DisputesInv => DisputesTypeOK
  BY DEF DisputesInv
<1>. QED
  BY <1>1, DisputesInvInit, DisputesTypeStep, PTL DEF DisputesSpec

-----------------------------------------------------------------------------
(***************************************************************************)
(* A dispute ends once.                                                    *)
(***************************************************************************)

\* A thread without a row has no moves and no closing.
NoThread ==
  /\ \A d \in DisputeId \ DOMAIN disputes : moves[d] = <<>>
  /\ \A i \in DOMAIN closings : closings[i].thread \in DOMAIN disputes

OnceInv == DisputesInv /\ NoThread /\ ClosesOnce

\* The entry a closing adds to the log.
LEMMA ClosedEntry ==
  ASSUME DisputesInv, NEW d \in DOMAIN disputes, Closed(d)
  PROVE  /\ DOMAIN disputes' = DOMAIN disputes
         /\ \A e \in DOMAIN disputes \ {d} : disputes'[e] = disputes[e]
         /\ disputes'[d].status # "open"
         /\ DOMAIN closings = 1 .. Len(closings)
         /\ DOMAIN closings' = 1 .. (Len(closings) + 1) /\ Len(closings) \in Nat
         /\ \A i \in DOMAIN closings : closings'[i] = closings[i]
         /\ closings'[Len(closings) + 1].thread = d
         /\ closings'[Len(closings) + 1].outcome = disputes'[d].outcome
         /\ disputes'[d].status = "resolved"
              <=> closings'[Len(closings) + 1].proposal # 0
<1>1. PICK status \in {"resolved", "terminated"}, reason \in Condition,
           outcome \in Outcome, i \in Nat :
        /\ Closes(d, status, reason, outcome, i)
        /\ status = "resolved" <=> i # 0
  BY DEF Closed
<1>2. DisputeTypes
  BY DEF DisputesInv, DisputesTypeOK, DisputeTypes
<1>3. /\ DOMAIN disputes' = DOMAIN disputes
      /\ \A e \in DOMAIN disputes \ {d} : disputes'[e] = disputes[e]
      /\ disputes'[d].status = status /\ disputes'[d].outcome = outcome
  BY <1>1, <1>2, ClosesType
<1>4. PICK S \in SUBSET Paths, g \in ClaimId \cup {0} :
        closings' = Append(closings,
          [thread |-> d, outcome |-> outcome, proposal |-> i,
           claimed |-> S, granted |-> g])
  BY <1>1 DEF Closes
<1> DEFINE e == [thread |-> d, outcome |-> outcome, proposal |-> i,
                 claimed |-> S, granted |-> g]
<1>5. e.thread = d /\ e.outcome = outcome /\ e.proposal = i /\ e \in Closing
  BY <1>2 DEF Closing, DisputeTypes
<1> HIDE DEF e
<1>6. /\ closings \in Seq(Closing) /\ closings' = Append(closings, e)
  BY <1>2, <1>4 DEF DisputeTypes, e
<1>. QED
  BY <1>1, <1>3, <1>5, <1>6, AppendMove

LEMMA OnceClosed ==
  ASSUME OnceInv, NEW d \in DOMAIN disputes, IsOpen(d), Closed(d)
  PROVE  ClosesOnce' /\ \A i \in DOMAIN closings' : closings'[i].thread \in DOMAIN disputes'
<1> DEFINE n == Len(closings) + 1
<1>1. /\ DOMAIN disputes' = DOMAIN disputes
      /\ \A e \in DOMAIN disputes \ {d} : disputes'[e] = disputes[e]
      /\ disputes'[d].status # "open"
      /\ n \notin DOMAIN closings /\ DOMAIN closings' = DOMAIN closings \cup {n}
      /\ \A i \in DOMAIN closings : closings'[i] = closings[i]
      /\ closings'[n].thread = d /\ closings'[n].outcome = disputes'[d].outcome
      /\ disputes'[d].status = "resolved" <=> closings'[n].proposal # 0
  <2>1. DisputesInv
    BY DEF OnceInv
  <2>2. /\ DOMAIN closings = 1 .. Len(closings) /\ Len(closings) \in Nat
        /\ DOMAIN closings' = 1 .. n
    BY <2>1, ClosedEntry
  <2>3. n \notin DOMAIN closings /\ DOMAIN closings' = DOMAIN closings \cup {n}
    BY <2>2
  <2>. QED
    BY <2>1, <2>3, ClosedEntry
<1> HIDE DEF n
<1>2. \A i \in DOMAIN closings : closings[i].thread # d
  BY DEF OnceInv, ClosesOnce, IsOpen
<1>3. ASSUME NEW e \in DOMAIN disputes
      PROVE  LET es == {i \in DOMAIN closings' : closings'[i].thread = e}
             IN  IF disputes'[e].status = "open" THEN es = {}
                 ELSE \E i \in es :
                        /\ es = {i}
                        /\ closings'[i].outcome = disputes'[e].outcome
                        /\ disputes'[e].status = "resolved"
                             <=> closings'[i].proposal # 0
  <2>1. CASE e = d
    <3>1. {i \in DOMAIN closings' : closings'[i].thread = e} = {n}
      BY <1>1, <1>2, <2>1
    <3>. QED
      BY <1>1, <2>1, <3>1
  <2>2. CASE e # d
    <3> DEFINE es == {i \in DOMAIN closings : closings[i].thread = e}
    <3>1. {i \in DOMAIN closings' : closings'[i].thread = e} = es
      BY <1>1, <2>2
    <3>2. disputes'[e] = disputes[e] /\ \A i \in es : closings'[i] = closings[i]
      BY <1>1, <2>2
    <3>3. IF disputes[e].status = "open" THEN es = {}
          ELSE \E i \in es :
                 /\ es = {i}
                 /\ closings[i].outcome = disputes[e].outcome
                 /\ disputes[e].status = "resolved" <=> closings[i].proposal # 0
      BY DEF OnceInv, ClosesOnce
    <3> HIDE DEF es
    <3>. QED
      BY <3>1, <3>2, <3>3
  <2>. QED
    BY <2>1, <2>2
<1>. QED
  BY <1>1, <1>3 DEF ClosesOnce, OnceInv, NoThread

LEMMA OnceStep == OnceInv /\ [DisputesNext]_dvarsAll => OnceInv'
<1> SUFFICES ASSUME OnceInv, [DisputesNext]_dvarsAll
             PROVE  OnceInv'
  OBVIOUS
<1>1. DisputesInv /\ DisputesInv' /\ Shrinks
  BY DisputesTypeStep, ClaimsPart DEF OnceInv
<1>2. CASE Untouched
  BY <1>1, <1>2 DEF Untouched, OnceInv, NoThread, ClosesOnce
<1>3. ASSUME NEW d, NEW row, Opens(d, row)
      PROVE  OnceInv'
  <2>1. /\ DOMAIN disputes' = DOMAIN disputes \cup {d}
        /\ disputes'[d] = row /\ d \in DisputeId \ DOMAIN disputes
        /\ \A e \in DOMAIN disputes : disputes'[e] = disputes[e]
    BY <1>1, <1>3, OpensType DEF Opens
  <2>2. UNCHANGED <<moves, closings>> /\ row.status = "open"
    BY <1>3 DEF Opens
  <2>3. NoThread'
    BY <2>1, <2>2 DEF OnceInv, NoThread
  <2>4. \A i \in DOMAIN closings : closings[i].thread # d
    BY <2>1 DEF OnceInv, NoThread
  <2>5. ClosesOnce'
    BY <2>1, <2>2, <2>4 DEF OnceInv, ClosesOnce
  <2>. QED
    BY <1>1, <2>3, <2>5 DEF OnceInv
<1>4. ASSUME NEW d \in DOMAIN disputes, ClosesWithout(d)
      PROVE  OnceInv'
  <2>1. ClosesOnce' /\ \A i \in DOMAIN closings' : closings'[i].thread \in DOMAIN disputes'
    BY <1>4, OnceClosed DEF ClosesWithout
  <2>2. DOMAIN disputes' = DOMAIN disputes /\ UNCHANGED moves
    BY <1>1, <1>4, ClosedType DEF ClosesWithout
  <2>. QED
    BY <1>1, <2>1, <2>2 DEF OnceInv, NoThread
<1>5. ASSUME NEW d \in DOMAIN disputes, NEW m \in Move, Posts(d, m)
      PROVE  OnceInv'
  <2>1. \A e \in DisputeId \ DOMAIN disputes : moves'[e] = <<>>
    BY <1>1, <1>5, MovesType DEF OnceInv, NoThread
  <2>2. CASE UNCHANGED <<disputes, closings>>
    BY <1>1, <2>1, <2>2 DEF OnceInv, NoThread, ClosesOnce
  <2>3. CASE Closed(d)
    <3>1. ClosesOnce' /\ \A i \in DOMAIN closings' : closings'[i].thread \in DOMAIN disputes'
      BY <1>5, <2>3, OnceClosed DEF Posts
    <3>2. DOMAIN disputes' = DOMAIN disputes
      BY <1>1, <2>3, ClosedType
    <3>. QED
      BY <1>1, <2>1, <3>1, <3>2 DEF OnceInv, NoThread
  <2>. QED
    BY <1>5, <2>2, <2>3, PostsClosed
<1>. QED
  BY <1>1, <1>2, <1>3, <1>4, <1>5, DisputeStep DEF Asked

\* Moves, overrides, caps and changes of preference race to close a dispute,
\* and one of them does: the log holds no closing of an open dispute and one of
\* a closed one, with the outcome its row names.
THEOREM ClosesOnceHolds == DisputesSpec => []ClosesOnce
<1>1. DisputesInit => OnceInv
  <2>1. DisputesInit => DisputesInv
    BY DisputesInvInit
  <2>2. DisputesInit => NoThread /\ ClosesOnce
    BY DEF DisputesInit, NoThread, ClosesOnce, NoRows
  <2>. QED
    BY <2>1, <2>2 DEF OnceInv
<1>2. OnceInv => ClosesOnce
  BY DEF OnceInv
<1>. QED
  BY <1>1, <1>2, OnceStep, PTL DEF DisputesSpec

-----------------------------------------------------------------------------
(***************************************************************************)
(* The log and the row.                                                    *)
(***************************************************************************)

LogInv == OnceInv /\ LogAgreesWithRow

LEMMA ReplayAppend ==
  ASSUME NEW log \in Seq(Move), NEW m \in Move, ReplayStatus(log) = "open"
  PROVE  /\ ReplayStatus(Append(log, m))
              = IF m.type = "accept" THEN "resolved"
                ELSE IF m.type = "concede_skip" THEN "terminated" ELSE "open"
         /\ Append(log, m) # <<>>
         /\ Append(log, m)[Len(Append(log, m))] = m
<1> DEFINE new == Append(log, m)
           n == Len(log) + 1
<1>1. /\ n \in Nat /\ Len(new) = n /\ DOMAIN log = 1 .. (n - 1) /\ DOMAIN new = 1 .. n
      /\ \A i \in DOMAIN log : new[i] = log[i]
      /\ new[n] = m
  BY AppendMove
<1>2. /\ \A i \in DOMAIN log : log[i].type # "accept" /\ log[i].type # "concede_skip"
  BY DEF ReplayStatus
<1>3. new # <<>>
  BY <1>1
<1> HIDE DEF new, n
<1>4. \A i \in DOMAIN new : i # n => i \in DOMAIN log
  BY <1>1
<1>5. \A i \in DOMAIN new :
        i # n => new[i].type # "accept" /\ new[i].type # "concede_skip"
  BY <1>1, <1>2, <1>4
<1>6. n \in DOMAIN new
  BY <1>1 DEF n
<1>. QED
  BY <1>1, <1>3, <1>5, <1>6 DEF ReplayStatus, new

\* The row of d after a closing.
LEMMA ClosesRow ==
  ASSUME DisputesInv, NEW d \in DOMAIN disputes, NEW status \in {"resolved", "terminated"},
         NEW reason \in Condition, NEW outcome \in Outcome, NEW i \in Nat,
         Closes(d, status, reason, outcome, i)
  PROVE  /\ DOMAIN disputes' = DOMAIN disputes
         /\ disputes'[d].status = status /\ disputes'[d].reason = reason
         /\ \A e \in DOMAIN disputes : disputes'[e].claim = disputes[e].claim
         /\ \A e \in DOMAIN disputes \ {d} : disputes'[e] = disputes[e]
<1>1. DisputeTypes
  BY DEF DisputesInv, DisputesTypeOK, DisputeTypes
<1>. QED
  BY <1>1, ClosesType

Agrees(log, row) ==
  ReplayStatus(log) # "open" <=>
    /\ row.status = ReplayStatus(log) /\ row.reason = "explicit"
    /\ log # <<>> /\ log[Len(log)].type \in {"accept", "concede_skip"}

LEMMA AgreesEach ==
  LogAgreesWithRow <=> \A d \in DOMAIN disputes : Agrees(moves[d], disputes[d])
  BY DEF LogAgreesWithRow, Agrees

LEMMA LogStep == LogInv /\ [DisputesNext]_dvarsAll => LogInv'
<1> SUFFICES ASSUME LogInv, [DisputesNext]_dvarsAll
             PROVE  LogAgreesWithRow'
  BY OnceStep DEF LogInv
<1>1. /\ DisputesInv /\ Shrinks /\ NoThread
      /\ \A e \in DOMAIN disputes : Agrees(moves[e], disputes[e])
  BY AgreesEach, ClaimsPart DEF LogInv, OnceInv
<1>2. CASE Untouched
  BY <1>2 DEF Untouched, LogInv, LogAgreesWithRow
<1>3. ASSUME NEW d \in DOMAIN disputes, DOMAIN disputes' = DOMAIN disputes,
             Agrees(moves'[d], disputes'[d]),
             \A e \in DOMAIN disputes \ {d} :
               disputes'[e] = disputes[e] /\ moves'[e] = moves[e]
      PROVE  LogAgreesWithRow'
  <2>1. \A e \in DOMAIN disputes' : Agrees(moves'[e], disputes'[e])
    BY <1>1, <1>3
  <2>. QED
    BY <2>1 DEF LogAgreesWithRow, Agrees
<1>4. ASSUME NEW d, NEW row, Opens(d, row)
      PROVE  LogAgreesWithRow'
  <2>1. /\ DOMAIN disputes' = DOMAIN disputes \cup {d}
        /\ disputes'[d] = row /\ d \in DisputeId \ DOMAIN disputes
        /\ \A e \in DOMAIN disputes : disputes'[e] = disputes[e]
    BY <1>1, <1>4, OpensType DEF Opens
  <2>2. UNCHANGED moves /\ row.status = "open" /\ row.reason = "none"
    BY <1>4 DEF Opens
  <2>3. moves[d] = <<>>
    BY <1>1, <2>1 DEF NoThread
  <2>4. Agrees(<<>>, row)
    BY <2>2 DEF Agrees, ReplayStatus
  <2>5. \A e \in DOMAIN disputes' : Agrees(moves'[e], disputes'[e])
    BY <1>1, <2>1, <2>2, <2>3, <2>4
  <2>. QED
    BY <2>5 DEF LogAgreesWithRow, Agrees
<1>5. ASSUME NEW d \in DOMAIN disputes, IsOpen(d)
      PROVE  ReplayStatus(moves[d]) = "open"
  BY <1>1, <1>5 DEF Agrees, IsOpen
<1>6. ASSUME NEW d \in DOMAIN disputes, ClosesWithout(d)
      PROVE  LogAgreesWithRow'
  <2>1. /\ DOMAIN disputes' = DOMAIN disputes
        /\ \A e \in DOMAIN disputes \ {d} : disputes'[e] = disputes[e]
        /\ disputes'[d].status # "open" /\ UNCHANGED moves
    BY <1>1, <1>6, ClosedEntry DEF ClosesWithout
  <2>2. ReplayStatus(moves[d]) = "open"
    BY <1>5, <1>6 DEF ClosesWithout
  <2>3. Agrees(moves'[d], disputes'[d])
    BY <2>1, <2>2 DEF Agrees
  <2>. QED
    BY <1>3, <2>1, <2>3
<1>7. ASSUME NEW d \in DOMAIN disputes, NEW m \in Asked, Posts(d, m)
      PROVE  LogAgreesWithRow'
  <2> DEFINE new == Append(moves[d], m)
  <2>1. /\ moves'[d] = new
        /\ \A e \in DOMAIN disputes \ {d} : moves'[e] = moves[e]
        /\ m \in Move /\ moves[d] \in Seq(Move)
    BY <1>1, <1>7, MovesType DEF Asked, DisputesInv, DisputesTypeOK
  <2>2. ReplayStatus(moves[d]) = "open"
    BY <1>7 DEF Posts, Legal
  <2>3. /\ ReplayStatus(new) = IF m.type = "accept" THEN "resolved"
                               ELSE IF m.type = "concede_skip" THEN "terminated"
                               ELSE "open"
        /\ new # <<>> /\ new[Len(new)] = m
    BY <2>1, <2>2, ReplayAppend
  <2> HIDE DEF new
  <2>4. CASE m.type \in Propose \cup {"reject"} /\ UNCHANGED <<disputes, closings>>
    <3>1. m.type # "accept" /\ m.type # "concede_skip"
      BY <2>4 DEF Propose
    <3>2. Agrees(new, disputes[d])
      BY <2>3, <3>1 DEF Agrees
    <3>. QED
      BY <1>3, <2>1, <2>4, <3>2
  <2>5. CASE m.type \in Propose \cup {"reject"} /\ Closed(d)
    <3>1. m.type # "accept" /\ m.type # "concede_skip"
      BY <2>5 DEF Propose
    <3>2. /\ DOMAIN disputes' = DOMAIN disputes
          /\ \A e \in DOMAIN disputes \ {d} : disputes'[e] = disputes[e]
      BY <1>1, <2>5, ClosedEntry
    <3>3. Agrees(new, disputes'[d])
      BY <2>3, <3>1 DEF Agrees
    <3>. QED
      BY <1>3, <2>1, <3>2, <3>3
  <2>6. CASE m.type = "concede_skip" /\ Closes(d, "terminated", "explicit", "skip", 0)
    <3>1. /\ DOMAIN disputes' = DOMAIN disputes
          /\ \A e \in DOMAIN disputes \ {d} : disputes'[e] = disputes[e]
          /\ disputes'[d].status = "terminated" /\ disputes'[d].reason = "explicit"
      BY <1>1, <2>6, ReasonTypes, ClosesRow
    <3>2. Agrees(new, disputes'[d])
      BY <2>3, <2>6, <3>1 DEF Agrees
    <3>. QED
      BY <1>3, <2>1, <3>1, <3>2
  <2>7. ASSUME NEW outcome \in Outcome, NEW i \in Nat \ {0}, m.type = "accept",
               Closes(d, "resolved", "explicit", outcome, i)
        PROVE  LogAgreesWithRow'
    <3>1. /\ DOMAIN disputes' = DOMAIN disputes
          /\ \A e \in DOMAIN disputes \ {d} : disputes'[e] = disputes[e]
          /\ disputes'[d].status = "resolved" /\ disputes'[d].reason = "explicit"
      BY <1>1, <2>7, ReasonTypes, ClosesRow
    <3>2. Agrees(new, disputes'[d])
      BY <2>3, <2>7, <3>1 DEF Agrees
    <3>. QED
      BY <1>3, <2>1, <3>1, <3>2
  <2>. QED
    BY <1>7, <2>4, <2>5, <2>6, <2>7 DEF Posts
<1>. QED
  BY <1>1, <1>2, <1>4, <1>6, <1>7, DisputeStep

\* Replaying the log agrees with the row, whatever interleaving of moves, caps
\* and overrides wrote them: no accepted dispute is left open, and the last move
\* of an agreement is its accept or its concession.
THEOREM LogAgreesHolds == DisputesSpec => []LogAgreesWithRow
<1>1. DisputesInit => LogInv
  <2>1. DisputesInit => OnceInv
    <3>1. DisputesInit => NoThread /\ ClosesOnce
      BY DEF DisputesInit, NoThread, ClosesOnce, NoRows
    <3>. QED
      BY <3>1, DisputesInvInit DEF OnceInv
  <2>2. DisputesInit => LogAgreesWithRow
    BY DEF DisputesInit, LogAgreesWithRow, NoRows
  <2>. QED
    BY <2>1, <2>2 DEF LogInv
<1>2. LogInv => LogAgreesWithRow
  BY DEF LogInv
<1>. QED
  BY <1>1, <1>2, LogStep, PTL DEF DisputesSpec

-----------------------------------------------------------------------------
(***************************************************************************)
(* Turns and answers.                                                      *)
(***************************************************************************)

\* What TurnsAndAnswers says of one log.
Orderly(log) ==
  \A i \in DOMAIN log :
    /\ i > 1 => log[i].side # log[i - 1].side
    /\ log[i].about # 0 =>
         /\ log[i].about < i
         /\ log[log[i].about].type \in Propose
         /\ log[log[i].about].side # log[i].side
         /\ \A j \in DOMAIN log : log[j].about = log[i].about => j = i

LEMMA OrderlyAppend ==
  ASSUME NEW log \in Seq(Move), NEW m \in Asked, Orderly(log), Legal(log, m)
  PROVE  Orderly(Append(log, m))
<1> DEFINE new == Append(log, m)
           n == Len(log) + 1
<1>1. /\ n \in Nat /\ DOMAIN log = 1 .. (n - 1) /\ DOMAIN new = 1 .. n
      /\ \A i \in DOMAIN log : new[i] = log[i]
      /\ new[n] = m /\ m \in Move
  BY AppendMove DEF Asked
<1>2. log # <<>> => log[n - 1].side # m.side
  BY <1>1 DEF Legal, InTurn
<1>3. m.about # 0 => /\ m.about \in OpenProposals(log)
                     /\ log[m.about].side # m.side
  BY DEF Asked, Legal, Answers
<1>4. \A i \in DOMAIN log : log[i].about \in Nat
  <2>1. \A i \in DOMAIN log : log[i] \in Move
    OBVIOUS
  <2>. QED
    BY <2>1 DEF Move
<1>5. n > 1 => log # <<>>
  BY <1>1
<1> HIDE DEF new, n
<1>6. ASSUME NEW i \in DOMAIN new, i # n
      PROVE  /\ i > 1 => new[i].side # new[i - 1].side
             /\ new[i].about # 0 =>
                  /\ new[i].about < i
                  /\ new[new[i].about].type \in Propose
                  /\ new[new[i].about].side # new[i].side
                  /\ \A j \in DOMAIN new : new[j].about = new[i].about => j = i
  <2>1. i \in DOMAIN log /\ new[i] = log[i] /\ i \in Nat
    BY <1>1, <1>6
  <2>2. i > 1 => i - 1 \in DOMAIN log /\ new[i - 1] = log[i - 1]
    BY <1>1, <2>1
  <2>3. CASE log[i].about # 0
    <3> DEFINE a == log[i].about
    <3>1. a \in DOMAIN log /\ new[a] = log[a] /\ a < i
      BY <1>1, <1>4, <2>1, <2>3 DEF Orderly
    <3>2. a \notin OpenProposals(log)
      BY <2>1 DEF OpenProposals
    <3>3. m.about # a
      BY <1>3, <2>3, <3>2
    <3>4. \A j \in DOMAIN new : new[j].about = a => j = i
      <4>1. ASSUME NEW j \in DOMAIN new, new[j].about = a
            PROVE  j = i
        <5>1. j # n
          BY <1>1, <3>3, <4>1
        <5>2. j \in DOMAIN log /\ log[j].about = a
          BY <1>1, <4>1, <5>1
        <5>. QED
          BY <2>1, <2>3, <5>2 DEF Orderly
      <4>. QED
        BY <4>1
    <3>5. log[a].type \in Propose /\ log[a].side # log[i].side
      BY <2>1, <2>3 DEF Orderly
    <3>6. i > 1 => new[i].side # new[i - 1].side
      BY <2>1, <2>2 DEF Orderly
    <3>. QED
      BY <2>1, <3>1, <3>4, <3>5, <3>6
  <2>4. CASE log[i].about = 0
    BY <2>1, <2>2, <2>4 DEF Orderly
  <2>. QED
    BY <2>3, <2>4
<1>7. /\ n > 1 => new[n].side # new[n - 1].side
      /\ new[n].about # 0 =>
           /\ new[n].about < n
           /\ new[new[n].about].type \in Propose
           /\ new[new[n].about].side # new[n].side
           /\ \A j \in DOMAIN new : new[j].about = new[n].about => j = n
  <2>1. n > 1 => new[n - 1] = log[n - 1]
    BY <1>1
  <2>2. CASE m.about # 0
    <3>1. /\ m.about \in DOMAIN log /\ log[m.about].type \in Propose
          /\ \A j \in DOMAIN log : log[j].about # m.about
      BY <1>3, <2>2 DEF OpenProposals
    <3>2. new[m.about] = log[m.about] /\ m.about < n
      BY <1>1, <3>1
    <3>3. \A j \in DOMAIN new : new[j].about = m.about => j = n
      BY <1>1, <3>1
    <3>. QED
      BY <1>1, <1>2, <1>3, <1>5, <2>1, <2>2, <3>1, <3>2, <3>3
  <2>3. CASE m.about = 0
    BY <1>1, <1>2, <1>5, <2>1, <2>3
  <2>. QED
    BY <2>2, <2>3
<1>8. Orderly(new)
  BY <1>6, <1>7 DEF Orderly
<1>. QED
  BY <1>8 DEF new

LEMMA OrderlyStep ==
  ASSUME DisputesInv, TurnsAndAnswers, [DisputesNext]_dvarsAll
  PROVE  TurnsAndAnswers'
<1>1. \A d \in DisputeId : Orderly(moves[d])
  BY DEF TurnsAndAnswers, Orderly
<1>2. CASE UNCHANGED moves
  BY <1>2 DEF TurnsAndAnswers
<1>3. ASSUME NEW d \in DOMAIN disputes, NEW m \in Asked, Posts(d, m)
      PROVE  TurnsAndAnswers'
  <2>1. /\ moves'[d] = Append(moves[d], m) /\ d \in DisputeId
        /\ \A e \in DisputeId \ {d} : moves'[e] = moves[e]
        /\ moves[d] \in Seq(Move)
    BY <1>3, MovesType DEF Asked, DisputesInv, DisputesTypeOK
  <2>2. Orderly(moves'[d])
    BY <1>1, <1>3, <2>1, OrderlyAppend DEF Posts
  <2>3. \A e \in DisputeId : Orderly(moves'[e])
    BY <1>1, <2>1, <2>2
  <2>. QED
    BY <2>3 DEF TurnsAndAnswers, Orderly
<1>. QED
  BY <1>2, <1>3, DisputeStep DEF Untouched, Opens, ClosesWithout

\* However moves and overrides race, the log of a thread is a negotiation: the
\* sides alternate, and a proposal is answered at most once, by the other side.
THEOREM TurnsAndAnswersHold == DisputesSpec => []TurnsAndAnswers
<1>1. DisputesInit => TurnsAndAnswers
  BY DEF DisputesInit, TurnsAndAnswers
<1>2. DisputesInv /\ TurnsAndAnswers /\ [DisputesNext]_dvarsAll => TurnsAndAnswers'
  BY OrderlyStep
<1>. QED
  BY <1>1, <1>2, DisputesInvInit, DisputesTypeStep, PTL DEF DisputesSpec

-----------------------------------------------------------------------------
(***************************************************************************)
(* The cap on turns.                                                       *)
(***************************************************************************)

CapAlwaysOn == \A cs \in Configs : "turns" \in cs

LEMMA WithinTurnsStep ==
  ASSUME CapAlwaysOn, OnceInv, WithinTurns, [DisputesNext]_dvarsAll
  PROVE  WithinTurns'
<1>1. DisputesInv /\ NoThread /\ Shrinks
  BY ClaimsPart DEF OnceInv
<1>2. MaxTurns \in Nat \ {0}
  BY DisputeAssumption
<1>3. CASE Untouched
  BY <1>3 DEF Untouched, WithinTurns, IsOpen
<1>4. ASSUME NEW d, NEW row, Opens(d, row)
      PROVE  WithinTurns'
  <2>1. /\ DOMAIN disputes' = DOMAIN disputes \cup {d} /\ d \in DisputeId \ DOMAIN disputes
        /\ \A e \in DOMAIN disputes : disputes'[e] = disputes[e]
        /\ UNCHANGED moves
    BY <1>1, <1>4, OpensType DEF Opens
  <2>2. Len(moves[d]) = 0
    BY <1>1, <2>1 DEF NoThread
  <2>. QED
    BY <1>2, <2>1, <2>2 DEF WithinTurns, IsOpen
<1>5. ASSUME NEW d \in DOMAIN disputes, ClosesWithout(d)
      PROVE  WithinTurns'
  <2>1. /\ DOMAIN disputes' = DOMAIN disputes
        /\ \A e \in DOMAIN disputes \ {d} : disputes'[e] = disputes[e]
        /\ disputes'[d].status # "open" /\ UNCHANGED moves
    BY <1>1, <1>5, ClosedEntry DEF ClosesWithout
  <2>. QED
    BY <2>1 DEF WithinTurns, IsOpen
<1>6. ASSUME NEW d \in DOMAIN disputes, NEW m \in Asked, Posts(d, m)
      PROVE  WithinTurns'
  <2> DEFINE new == Append(moves[d], m)
  <2>1. /\ moves'[d] = new /\ d \in DisputeId /\ m \in Move
        /\ \A e \in DisputeId \ {d} : moves'[e] = moves[e]
        /\ moves[d] \in Seq(Move)
    BY <1>1, <1>6, MovesType DEF Asked, DisputesInv, DisputesTypeOK
  <2>2. Len(new) \in Nat /\ Len(new) <= MaxTurns
    <3>1. Len(moves[d]) \in Nat /\ Len(new) = Len(moves[d]) + 1
      BY <2>1, AppendMove
    <3>2. Len(moves[d]) < MaxTurns
      BY <1>6, <2>1 DEF WithinTurns, Posts
    <3>. QED
      BY <1>2, <3>1, <3>2
  <2> HIDE DEF new
  <2>3. CASE Closed(d)
    <3>1. /\ DOMAIN disputes' = DOMAIN disputes
          /\ \A e \in DOMAIN disputes \ {d} : disputes'[e] = disputes[e]
          /\ disputes'[d].status # "open"
      BY <1>1, <2>3, ClosedEntry
    <3>. QED
      BY <2>1, <2>2, <3>1 DEF WithinTurns, IsOpen
  <2>4. CASE /\ m.type \in Propose \cup {"reject"}
             /\ Met(d, new, FALSE) = {} /\ UNCHANGED <<disputes, closings>>
    <3>1. m.type # "accept" /\ m.type # "concede_skip"
      BY <2>4 DEF Propose
    <3>2. ReplayStatus(new) = "open"
      BY <1>6, <2>1, <3>1, ReplayAppend DEF Posts, Legal, new
    <3>3. "turns" \in enabled
      BY <1>1 DEF CapAlwaysOn, DisputesInv, DisputesTypeOK
    <3>4. ~ TurnsUp(new)
      BY <2>4, <3>2, <3>3 DEF Met
    <3>5. Len(new) < MaxTurns
      BY <1>2, <2>2, <3>4 DEF TurnsUp
    <3>. QED
      BY <2>1, <2>2, <2>4, <3>5 DEF WithinTurns, IsOpen
  <2>. QED
    BY <1>6, <2>3, <2>4, PostsClosed DEF new
<1>. QED
  BY <1>1, <1>3, <1>4, <1>5, <1>6, DisputeStep

\* In a Space that never disables the cap no negotiation passes it, and one that
\* reaches it is closed in the same transaction.
THEOREM WithinTurnsHolds ==
  ASSUME CapAlwaysOn
  PROVE  DisputesSpec => []WithinTurns
<1>1. DisputesInit => OnceInv /\ WithinTurns
  <2>1. DisputesInit => NoThread /\ ClosesOnce
    BY DEF DisputesInit, NoThread, ClosesOnce, NoRows
  <2>2. DisputesInit => WithinTurns
    BY DisputeAssumption DEF DisputesInit, WithinTurns, IsOpen, NoRows
  <2>. QED
    BY <2>1, <2>2, DisputesInvInit DEF OnceInv
<1>2. OnceInv /\ WithinTurns /\ [DisputesNext]_dvarsAll => WithinTurns'
  BY WithinTurnsStep
<1>. QED
  BY <1>1, <1>2, OnceStep, PTL DEF DisputesSpec

-----------------------------------------------------------------------------
(***************************************************************************)
(* What an agreement hands over.                                           *)
(***************************************************************************)

\* The disputed claim after an agreement that made a claim.
LEMMA AcceptIsClean ==
  ASSUME DisputesInv, NEW d \in DOMAIN disputes, NEW i \in OpenProposals(moves[d]),
         NEW reason, AcceptOutcome(d, i, reason)
  PROVE  \E e \in Closing :
           /\ closings' = Append(closings, e) /\ e.thread = d
           /\ e.granted # 0 => ~ Overlap(claims'[disputes[d].claim].scope, e.claimed)
<1> DEFINE m == moves[d][i]
           c == disputes[d].claim
           S == Claimed(d, m)
           waits == m.type = "propose_release_after_task"
           g == IF waits \/ S = {} THEN 0 ELSE Cardinality(DOMAIN claims) + 1
           e == [thread |-> d, outcome |-> OutcomeOf(m), proposal |-> i,
                 claimed |-> S, granted |-> g]
<1>1. /\ d \in DisputeId /\ disputes[d] \in Dispute /\ c \in DOMAIN claims
      /\ moves[d] \in Seq(Move) /\ m \in Move /\ i \in Nat /\ i \in DOMAIN moves[d]
  BY DEF DisputesInv, DisputesTypeOK, OpenProposals
<1>2. OutcomeOf(m) \in Outcome
  BY AcceptCloses DEF DisputesInv
<1>3. S \in SUBSET Paths
  BY <1>1, ScopeAssumption DEF Claimed, Move, Dispute
<1>4. g \in ClaimId \cup {0} /\ closings' = Append(closings, e)
  BY DEF AcceptOutcome
<1>5. e \in Closing /\ e.thread = d /\ e.granted = g /\ e.claimed = S
  <2> HIDE DEF g, S, m
  <2>. QED
    BY <1>1, <1>2, <1>3, <1>4 DEF Closing
<1>6. ASSUME g # 0
      PROVE  ~ Overlap(claims'[c].scope, S)
  <2>1. ~ waits
    BY <1>6
  <2>2. claims'[c].scope = Kept(claims[c].scope, Surrendered(d, m))
    BY <2>1, AcceptClaims DEF DisputesInv
  <2>3. CASE m.type = "propose_release_full"
    <3>1. claims[c].scope \subseteq Paths
      BY <1>1 DEF DisputesInv, TypeOK, Claim, Patterns
    <3>2. Kept(claims[c].scope, claims[c].scope) = {}
      BY <3>1, PathAssumption DEF Kept, Matched
    <3>3. claims'[c].scope = {}
      BY <2>2, <2>3, <3>2 DEF Surrendered
    <3>. QED
      BY <3>3 DEF Overlap, Matched
  <2>4. CASE m.type # "propose_release_full"
    BY <2>2, <2>4, KeptIsClear DEF Surrendered, Claimed
  <2>. QED
    BY <2>3, <2>4
<1> HIDE DEF e, g, S
<1>. QED
  BY <1>4, <1>5, <1>6

\* Every entry a step adds to the closings is clean.
LEMMA CleanEntry ==
  ASSUME DisputesInv, [DisputesNext]_dvarsAll, ~ UNCHANGED closings
  PROVE  \E d \in DOMAIN disputes, e \in Closing :
           /\ closings' = Append(closings, e) /\ e.thread = d
           /\ e.granted # 0 => ~ Overlap(claims'[disputes[d].claim].scope, e.claimed)
<1>1. ASSUME NEW d \in DOMAIN disputes, NEW reason, NEW outcome \in {"skip", "deny"},
             Terminate(d, reason, outcome)
      PROVE  \E e \in Closing :
               closings' = Append(closings, e) /\ e.thread = d /\ e.granted = 0
  <2> DEFINE e == [thread |-> d, outcome |-> outcome, proposal |-> 0,
                   claimed |-> {}, granted |-> 0]
  <2>1. e \in Closing /\ e.thread = d /\ e.granted = 0
    BY DEF Closing, Outcome, DisputesInv, DisputesTypeOK
  <2>2. closings' = Append(closings, e)
    BY <1>1 DEF Terminate
  <2>. QED
    BY <2>1, <2>2
<1>2. ASSUME NEW d \in DOMAIN disputes, NEW i \in OpenProposals(moves[d]),
             NEW reason, AcceptOutcome(d, i, reason)
      PROVE  \E e \in Closing :
               /\ closings' = Append(closings, e) /\ e.thread = d
               /\ e.granted # 0 => ~ Overlap(claims'[disputes[d].claim].scope, e.claimed)
  BY <1>2, AcceptIsClean
<1> DEFINE Clean(d) ==
             \E e \in Closing :
               /\ closings' = Append(closings, e) /\ e.thread = d
               /\ e.granted # 0 => ~ Overlap(claims'[disputes[d].claim].scope, e.claimed)
<1>3. ASSUME NEW d \in DOMAIN disputes, NEW m, DisputePostMove(d, m)
      PROVE  Clean(d)
  <2>1. CASE Terminate(d, First(Met(d, moves[d], PrefChanged(d))), "skip")
    BY <1>1, <2>1
  <2>2. CASE /\ Legal(moves[d], m)
             /\ \/ /\ m.type \in Propose \cup {"reject"}
                   /\ \/ UNCHANGED closings
                      \/ Terminate(d, First(Met(d, Append(moves[d], m), FALSE)), "skip")
                \/ Terminate(d, "explicit", "skip")
                \/ m.type = "accept" /\ AcceptOutcome(d, m.about, "explicit")
    <3>1. CASE m.type = "accept" /\ AcceptOutcome(d, m.about, "explicit")
      <4>1. m.about \in OpenProposals(moves[d])
        BY <2>2, <3>1 DEF Legal, Answers
      <4>. QED
        BY <1>2, <3>1, <4>1
    <3>2. CASE \E reason : Terminate(d, reason, "skip")
      BY <1>1, <3>2
    <3>. QED
      BY <2>2, <3>1, <3>2
  <2> HIDE DEF Clean
  <2>. QED
    BY <1>3, <2>1, <2>2 DEF DisputePostMove
<1>4. ASSUME NEW d \in DOMAIN disputes, EndDispute(d)
      PROVE  Clean(d)
  <2>1. CASE \E outcome \in {"deny", "skip"} : Terminate(d, "user_override", outcome)
    BY <1>1, <2>1
  <2>2. CASE \E i \in OpenProposals(moves[d]) : AcceptOutcome(d, i, "user_override")
    BY <1>2, <2>2
  <2> HIDE DEF Clean
  <2>. QED
    BY <1>4, <2>1, <2>2 DEF EndDispute
<1>5. ASSUME \/ \E p \in Principals, c \in DOMAIN claims, S \in Scopes :
                  OpenDispute(p, c, S)
             \/ ClaimTool
             \/ \E cs \in Configs : UpdateDisputeTerminations(cs)
             \/ \E p \in Principals : UpdateCoordPref(p)
             \/ UNCHANGED dvarsAll
      PROVE  FALSE
  BY <1>5 DEF OpenDispute, ClaimTool, UpdateDisputeTerminations, UpdateCoordPref,
              dvarsAll, dvars
<1>6. \E d \in DOMAIN disputes : Clean(d)
  <2> HIDE DEF Clean
  <2>. QED
    BY <1>3, <1>4, <1>5 DEF DisputesNext
<1>. QED
  BY <1>6

\* A dispute keeps its claim.
LEMMA SameClaim ==
  ASSUME DisputesInv, [DisputesNext]_dvarsAll, NEW d \in DOMAIN disputes
  PROVE  d \in DOMAIN disputes' /\ disputes'[d].claim = disputes[d].claim
<1>1. Shrinks
  BY ClaimsPart
<1>2. CASE Untouched
  BY <1>2 DEF Untouched
<1>3. ASSUME NEW e, NEW row, Opens(e, row)
      PROVE  d \in DOMAIN disputes' /\ disputes'[d] = disputes[d]
  BY <1>1, <1>3, OpensType
<1>4. ASSUME NEW e \in DOMAIN disputes, Closed(e)
      PROVE  d \in DOMAIN disputes' /\ disputes'[d].claim = disputes[d].claim
  <2>1. PICK status \in {"resolved", "terminated"}, reason \in Condition,
             outcome \in Outcome, i \in Nat : Closes(e, status, reason, outcome, i)
    BY <1>4 DEF Closed
  <2>. QED
    BY <2>1, ClosesRow
<1>5. ASSUME NEW e \in DOMAIN disputes, NEW m, Posts(e, m)
      PROVE  d \in DOMAIN disputes' /\ disputes'[d].claim = disputes[d].claim
  BY <1>4, <1>5, PostsClosed
<1>. QED
  BY <1>2, <1>3, <1>4, <1>5, DisputeStep DEF ClosesWithout

HandInv == OnceInv /\ HandedOver

LEMMA HandStep == HandInv /\ [DisputesNext]_dvarsAll => HandInv'
<1> SUFFICES ASSUME HandInv, [DisputesNext]_dvarsAll
             PROVE  HandedOver'
  BY OnceStep DEF HandInv
<1>1. DisputesInv /\ NoThread /\ Shrinks /\ closings \in Seq(Closing)
  BY ClaimsPart DEF HandInv, OnceInv, DisputesInv, DisputesTypeOK
<1>2. ASSUME NEW i \in DOMAIN closings, closings[i].granted # 0
      PROVE  ~ Overlap(claims'[disputes'[closings[i].thread].claim].scope,
                       closings[i].claimed)
  <2> DEFINE d == closings[i].thread
             c == disputes[d].claim
  <2>1. d \in DOMAIN disputes /\ c \in DOMAIN claims
    BY <1>1 DEF NoThread, DisputesInv, DisputesTypeOK
  <2>2. disputes'[d].claim = c
    BY <1>1, <2>1, SameClaim
  <2>3. ~ Overlap(claims[c].scope, closings[i].claimed)
    BY <1>2 DEF HandInv, HandedOver
  <2>4. claims'[c].scope \subseteq claims[c].scope
    BY <1>1, <2>1 DEF Shrinks
  <2>. QED
    BY <2>2, <2>3, <2>4, OverlapShrinks
<1>3. CASE UNCHANGED closings
  BY <1>2, <1>3 DEF HandedOver
<1>4. CASE ~ UNCHANGED closings
  <2>1. PICK d \in DOMAIN disputes, e \in Closing :
          /\ closings' = Append(closings, e) /\ e.thread = d
          /\ e.granted # 0 => ~ Overlap(claims'[disputes[d].claim].scope, e.claimed)
    BY <1>1, <1>4, CleanEntry
  <2>2. disputes'[d].claim = disputes[d].claim
    BY <1>1, SameClaim
  <2> DEFINE n == Len(closings) + 1
  <2>3. /\ DOMAIN closings' = DOMAIN closings \cup {n}
        /\ closings'[n] = e
        /\ \A i \in DOMAIN closings : closings'[i] = closings[i]
    BY <1>1, <2>1, AppendMove
  <2> HIDE DEF n
  <2>. QED
    BY <1>2, <2>1, <2>2, <2>3 DEF HandedOver
<1>. QED
  BY <1>3, <1>4

\* A claim that lost patterns to an agreement never touches them again: not by a
\* later claim, refresh, release, pause or another agreement.
THEOREM HandedOverHolds == DisputesSpec => []HandedOver
<1>1. DisputesInit => HandInv
  <2>1. DisputesInit => NoThread /\ ClosesOnce /\ HandedOver
    BY DEF DisputesInit, NoThread, ClosesOnce, NoRows, HandedOver
  <2>. QED
    BY <2>1, DisputesInvInit DEF OnceInv, HandInv
<1>2. HandInv => HandedOver
  BY DEF HandInv
<1>. QED
  BY <1>1, <1>2, HandStep, PTL DEF DisputesSpec
=============================================================================
