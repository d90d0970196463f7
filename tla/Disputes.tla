------------------------------ MODULE Disputes ------------------------------
(***************************************************************************)
(* Disputes: the opener of a dispute and the target, the owner of the      *)
(* claim in its way, take turns at structured moves until they agree or a  *)
(* termination condition holds.  An agreement is applied to the claims.    *)
(* Composed with module Claims, whose tools run beside the negotiation.    *)
(*                                                                         *)
(* Handlers replay the moves from the log of discussion_posted events in   *)
(* the transaction that acts on them, so each is one action.               *)
(***************************************************************************)
EXTENDS Claims, Sequences

CONSTANTS
  DisputeId,   \* threads
  Offers,      \* sets of patterns a proposal may name, the empty set included
  Configs,     \* sets of termination conditions a Space may enable
  MaxTurns,    \* max_turns, 4 in DEFAULT_DISPUTE_CONFIG
  MaxSeconds,  \* max_seconds, in ticks
  GrantLease,  \* lifetime of the claim an agreement makes, in ticks (one hour)
  MaxMoves     \* bound: moves in a dispute (binds when turns is not enabled)

\* The termination conditions, in the order in which the first to hold wins.
Order == <<"user_override", "explicit", "pref_changed", "turns", "wallclock">>
Condition == {Order[i] : i \in 1 .. 5}
AllConditions == Condition    \* DEFAULT_DISPUTE_CONFIG

ASSUME DisputeAssumption ==
  /\ Offers \subseteq SUBSET Paths
  /\ Configs \subseteq (SUBSET Condition) \ {{}}
  /\ AllConditions \in Configs
  /\ MaxTurns \in Nat \ {0} /\ MaxSeconds \in Nat \ {0}
  /\ GrantLease \in Nat \ {0} /\ MaxMoves \in Nat
ASSUME AgreedAssumption == <<"", "">> \in Places /\ NoHead \in AcquiredAt

VARIABLES
  disputes,  \* rows of disputes
  moves,     \* the moves in the log of each thread
  closings,  \* dispute_resolved and dispute_terminated events in the log
  enabled,   \* dispute_terminations_json of the Space
  auto       \* members whose coord_pref is auto-discuss

dvars == <<disputes, moves, closings, enabled, auto>>

Side == {"opener", "target"}
Propose == {"propose_release_full", "propose_release_subset",
            "propose_release_after_task", "propose_swap"}
Outcome == {"deny", "skip", "wait", "release_full", "release_subset", "swap"}

Dispute ==
  [opener : Principals, target : Principals, claim : ClaimId, paths : Scopes,
   opened : Nat, status : {"open", "resolved", "terminated"},
   reason : Condition \cup {"none"}, outcome : Outcome \cup {"none"}]

\* gives is i_release; takes is you_release, or the paths of a subset;
\* about is the proposal an accept or a reject names.
Move ==
  [type : Propose \cup {"accept", "reject", "concede_skip"}, side : Side,
   gives : SUBSET Paths, takes : SUBSET Paths, about : Nat]

\* proposal is the accepted one, granted the claim it made, 0 if there is none.
Closing ==
  [thread : DisputeId, outcome : Outcome, proposal : Nat,
   claimed : SUBSET Paths, granted : ClaimId \cup {0}]

DisputesTypeOK ==
  /\ DOMAIN disputes \subseteq DisputeId
  /\ disputes \in [DOMAIN disputes -> Dispute]
  /\ \A d \in DOMAIN disputes : disputes[d].claim \in DOMAIN claims
  /\ moves \in [DisputeId -> Seq(Move)]
  /\ closings \in Seq(Closing)
  /\ enabled \in Configs
  /\ auto \subseteq Principals

DisputesInit ==
  /\ Init
  /\ disputes = NoRows
  /\ moves = [d \in DisputeId |-> <<>>]
  /\ closings = <<>>
  /\ enabled = AllConditions
  /\ auto = {}

-----------------------------------------------------------------------------
(***************************************************************************)
(* The replayed state of a log of moves.                                   *)
(***************************************************************************)

\* Proposals that no accept or reject names.
OpenProposals(log) ==
  {i \in DOMAIN log : /\ log[i].type \in Propose
                      /\ \A j \in DOMAIN log : log[j].about # i}

\* The status applyMove leaves; a move after one of these two is not legal.
ReplayStatus(log) ==
  IF \E i \in DOMAIN log : log[i].type = "accept" THEN "resolved"
  ELSE IF \E i \in DOMAIN log : log[i].type = "concede_skip" THEN "terminated"
  ELSE "open"

\* validateMove.
LegalOnOwn(log, m) ==
  m.type \in {"accept", "reject"} => m.about \in OpenProposals(log)
Answers(log, m) ==
  m.type \in {"accept", "reject"} =>
    m.about \in OpenProposals(log) /\ log[m.about].side # m.side

InTurn(log, m) == log # <<>> => log[Len(log)].side # m.side

Legal(log, m) ==
  /\ ReplayStatus(log) = "open"
  /\ InTurn(log, m)
  /\ m.type = "propose_release_full" => m.side = "opener" /\ log = <<>>
  /\ m.type = "propose_release_subset" => m.takes # {}
  /\ m.type = "propose_release_after_task" => m.side = "target"
  /\ m.type = "concede_skip" => m.side = "opener"
  /\ Answers(log, m)

\* The moves a side may try: fields a move does not use are empty.
Of(type, side, S, T, i) ==
  [type |-> type, side |-> side, gives |-> S, takes |-> T, about |-> i]

Candidates(log, side) ==
  {Of(t, side, {}, {}, 0) :
     t \in {"propose_release_full", "propose_release_after_task", "concede_skip"}}
  \cup {Of("propose_release_subset", side, {}, T, 0) : T \in Offers}
  \cup {Of("propose_swap", side, S, T, 0) : S, T \in Offers}
  \cup {Of(t, side, {}, {}, i) : t \in {"accept", "reject"}, i \in DOMAIN log}

\* checkTermination: what ends a dispute with this log.
TurnsLater(log) == Len(log) > MaxTurns
TurnsUp(log) == Len(log) >= MaxTurns

Met(d, log, prefChanged) ==
  CASE ReplayStatus(log) = "resolved"   -> {"explicit"}
    [] ReplayStatus(log) = "terminated" -> {"user_override"}
    [] OTHER ->
         {c \in enabled :
            \/ c = "pref_changed" /\ prefChanged
            \/ c = "turns" /\ TurnsUp(log)
            \/ c = "wallclock" /\ now - disputes[d].opened >= MaxSeconds}

First(cs) ==
  Order[CHOOSE i \in 1 .. 5 : /\ Order[i] \in cs
                             /\ \A j \in 1 .. i - 1 : Order[j] \notin cs]

-----------------------------------------------------------------------------
(***************************************************************************)
(* The end of a dispute.                                                   *)
(***************************************************************************)

ClosedStillOpen(d, status, reason, outcome) ==
  [disputes EXCEPT ![d].reason = reason, ![d].outcome = outcome]
ClosedAs(d, status, reason, outcome) ==
  [disputes EXCEPT ![d].status = status, ![d].reason = reason,
                   ![d].outcome = outcome]

\* finalizeTermination.
Terminate(d, reason, outcome) ==
  /\ disputes' = ClosedAs(d, "terminated", reason, outcome)
  /\ closings' = Append(closings,
       [thread |-> d, outcome |-> outcome, proposal |-> 0,
        claimed |-> {}, granted |-> 0])
  /\ UNCHANGED <<claims, ended>>

\* The claims after the rows of cs have handed over S.
Narrowed(cs, S) ==
  [c \in DOMAIN claims |->
     IF c \notin cs \/ Matched(claims[c].scope, S) = {} THEN claims[c]
     ELSE LET kept == Kept(claims[c].scope, S)
          IN  [claims[c] EXCEPT !.scope = kept,
                 !.status = IF kept = {} THEN "released" ELSE @]]

\* The claims of the opener that a swap narrows.
Given(d) == {c \in DOMAIN claims : Visible(c) /\ claims[c].owner = disputes[d].opener}

\* What the disputed claim hands over, and what the opener is to claim.
Surrendered(d, m) ==
  IF m.type = "propose_release_full" THEN claims[disputes[d].claim].scope
                                     ELSE m.takes
Claimed(d, m) ==
  IF m.type = "propose_release_full" THEN disputes[d].paths ELSE m.takes

OutcomeOf(m) ==
  CASE m.type = "propose_release_full"       -> "release_full"
    [] m.type = "propose_release_subset"     -> "release_subset"
    [] m.type = "propose_release_after_task" -> "wait"
    [] m.type = "propose_swap"               -> "swap"

\* applyAcceptOutcome of proposal i.  The disputed claim may be over by now, and
\* other members' claims are not looked at.  A promise to release later
\* changes no claim.
AcceptOutcome(d, i, reason) ==
  LET m == moves[d][i]
      c == disputes[d].claim
      opener == disputes[d].opener
      S == Claimed(d, m)
      waits == m.type = "propose_release_after_task"
      g == IF waits \/ S = {} THEN 0 ELSE Cardinality(DOMAIN claims) + 1
      left == [e \in DOMAIN claims |->
                 IF e = c THEN Narrowed({c}, Surrendered(d, m))[e]
                          ELSE Narrowed(Given(d), m.gives)[e]]
      over == {e \in DOMAIN claims : left[e].scope = {} /\ claims[e].scope # {}}
  IN  /\ g \in ClaimId \cup {0}
      /\ disputes' = ClosedAs(d, "resolved", reason, OutcomeOf(m))
      /\ closings' = Append(closings,
           [thread |-> d, outcome |-> OutcomeOf(m), proposal |-> i,
            claimed |-> S, granted |-> g])
      /\ IF waits THEN UNCHANGED <<claims, ended>>
         ELSE /\ claims' = IF g = 0 THEN left
                           ELSE WithRow(left, g, GrantedRow(opener, S, GrantLease))
              /\ ended' = ended \cup (over \X {"scope_released"})

-----------------------------------------------------------------------------
(***************************************************************************)
(* The tools.                                                              *)
(***************************************************************************)

\* open_dispute, about a claim of somebody else.
OpenDispute(p, c, S) ==
  \E d \in DisputeId \ DOMAIN disputes :
    /\ c \in DOMAIN claims /\ ~ claims[c].tombstoned /\ claims[c].owner # p
    /\ disputes' = WithRow(disputes, d,
         [opener |-> p, target |-> claims[c].owner, claim |-> c, paths |-> S,
          opened |-> now, status |-> "open", reason |-> "none",
          outcome |-> "none"])
    /\ UNCHANGED <<moves, closings, enabled, auto>> /\ UNCHANGED vars

IsOpenAnyway(d) == d \in DOMAIN disputes
IsOpen(d) == d \in DOMAIN disputes /\ disputes[d].status = "open"

PrefChanged(d) == ~ {disputes[d].opener, disputes[d].target} \subseteq auto

\* dispute_post_move.  A condition that holds already ends the dispute instead
\* of the move; the cap on turns is looked at again when the move counts.
DisputePostMove(d, m) ==
  LET log == Append(moves[d], m)
  IN  /\ IsOpen(d)
      /\ \/ /\ Met(d, moves[d], PrefChanged(d)) # {}
            /\ Terminate(d, First(Met(d, moves[d], PrefChanged(d))), "skip")
            /\ UNCHANGED moves
         \/ /\ Met(d, moves[d], PrefChanged(d)) = {}
            /\ Legal(moves[d], m)
            /\ Len(log) <= MaxMoves    \* bound
            /\ moves' = [moves EXCEPT ![d] = log]
            /\ \/ /\ m.type \in Propose \cup {"reject"}
                  /\ IF Met(d, log, FALSE) = {}
                     THEN UNCHANGED <<disputes, closings, claims, ended>>
                     ELSE Terminate(d, First(Met(d, log, FALSE)), "skip")
               \/ m.type = "concede_skip" /\ Terminate(d, "explicit", "skip")
               \/ m.type = "accept" /\ AcceptOutcome(d, m.about, "explicit")
      /\ UNCHANGED <<enabled, auto, keyed, unread, pending, sprintOf, now>>

\* end_dispute, by either party: deny or skip, or the latest open proposal,
\* whoever made it.
EndDispute(d) ==
  /\ IsOpen(d)
  /\ \/ \E outcome \in {"deny", "skip"} : Terminate(d, "user_override", outcome)
     \/ \E i \in OpenProposals(moves[d]) :
          /\ \A j \in OpenProposals(moves[d]) : j <= i
          /\ AcceptOutcome(d, i, "user_override")
  /\ UNCHANGED <<moves, enabled, auto, keyed, unread, pending, sprintOf, now>>

\* update_dispute_terminations, by the creator of the Space.
UpdateDisputeTerminations(cs) ==
  /\ enabled' = cs
  /\ UNCHANGED <<disputes, moves, closings, auto>> /\ UNCHANGED vars

\* update_coord_pref.
UpdateCoordPref(p) ==
  /\ auto' = IF p \in auto THEN auto \ {p} ELSE auto \cup {p}
  /\ UNCHANGED <<disputes, moves, closings, enabled>> /\ UNCHANGED vars

ClaimTool == Next /\ UNCHANGED dvars

DisputesNext ==
  \/ ClaimTool
  \/ \E p \in Principals, c \in DOMAIN claims, S \in Scopes : OpenDispute(p, c, S)
  \/ \E d \in DOMAIN disputes, side \in Side :
       \E m \in Candidates(moves[d], side) : DisputePostMove(d, m)
  \/ \E d \in DOMAIN disputes : EndDispute(d)
  \/ \E cs \in Configs : UpdateDisputeTerminations(cs)
  \/ \E p \in Principals : UpdateCoordPref(p)

dvarsAll == <<vars, dvars>>

DisputesSpec == DisputesInit /\ [][DisputesNext]_dvarsAll

-----------------------------------------------------------------------------
(***************************************************************************)
(* Properties.                                                             *)
(***************************************************************************)

\* A dispute ends once and its outcome is applied once: while it is open its
\* thread holds no closing event, and afterwards exactly one, which says what
\* the row says, whatever moves, overrides and changes of preference raced.
ClosesOnce ==
  \A d \in DOMAIN disputes :
    LET es == {i \in DOMAIN closings : closings[i].thread = d}
    IN  IF disputes[d].status = "open" THEN es = {}
        ELSE \E i \in es : /\ es = {i}
                           /\ closings[i].outcome = disputes[d].outcome
                           /\ disputes[d].status = "resolved" <=> closings[i].proposal # 0

\* The log and the row tell one story: replaying the moves gives "open" unless
\* the row was closed by one of them, the last.  A replay never finds a dispute
\* agreed whose row is open, or was closed another way.
LogAgreesWithRow ==
  \A d \in DOMAIN disputes :
    LET log == moves[d]
        row == disputes[d]
    IN  ReplayStatus(log) # "open" <=>
          /\ row.status = ReplayStatus(log) /\ row.reason = "explicit"
          /\ log # <<>> /\ log[Len(log)].type \in {"accept", "concede_skip"}

\* What any reader of a thread may rely on: sides take turns, and each answer
\* is to an earlier proposal of the other side that had no answer yet.
TurnsAndAnswers ==
  \A d \in DisputeId :
    LET log == moves[d]
    IN  \A i \in DOMAIN log :
          /\ i > 1 => log[i].side # log[i - 1].side
          /\ log[i].about # 0 =>
               /\ log[i].about < i
               /\ log[log[i].about].type \in Propose
               /\ log[log[i].about].side # log[i].side
               /\ \A j \in DOMAIN log : log[j].about = log[i].about => j = i

\* An agreement splits the disputed claim: from then on it is clear of every
\* pattern the opener was given, whatever else happens to it.
HandedOver ==
  \A i \in DOMAIN closings :
    closings[i].granted # 0 =>
      ~ Overlap(claims[disputes[closings[i].thread].claim].scope,
                closings[i].claimed)

\* A negotiation stays within the cap: an open dispute of a Space that always
\* had the condition enabled has fewer moves than max_turns, and none has more.
WithinTurns ==
  \A d \in DisputeId :
    /\ Len(moves[d]) <= MaxTurns
    /\ IsOpen(d) => Len(moves[d]) < MaxTurns

\* context.ts: "The proposer says 'I release i_release; you release
\* you_release'."  After a swap the target's claim is clear of what the target
\* was to release.
SwapReleasesAsProposed ==
  \A i \in DOMAIN closings :
    closings[i].outcome = "swap" =>
      LET d == closings[i].thread
          m == moves[d][closings[i].proposal]
      IN  ~ Overlap(claims[disputes[d].claim].scope,
                    IF m.side = "opener" THEN m.takes ELSE m.gives)
=============================================================================
