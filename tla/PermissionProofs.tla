-------------------------- MODULE PermissionProofs --------------------------
(***************************************************************************)
(* Theorems about module Permission: what TLC checks on two members, two   *)
(* requests and two processes holds for any number of them.                *)
(***************************************************************************)
EXTENDS Permission, ClaimsProofs

-----------------------------------------------------------------------------
(***************************************************************************)
(* The rows of the requests.                                               *)
(***************************************************************************)

\* What a resolution event does to the rows.
LEMMA ResolvedRows ==
  ASSUME NEW r, NEW status, NEW c
  PROVE  /\ DOMAIN Resolved(r, status, c) = DOMAIN requests
         /\ \A i \in DOMAIN requests \ OpenRequests :
              Resolved(r, status, c)[i] = requests[i]
         /\ \A i \in DOMAIN requests \ {r} :
              Resolved(r, status, c)[i] = requests[i]
  BY DEF Resolved, OpenRequests

\* Every step keeps the rows of resolved requests as they are.
LEMMA ResolvedKept ==
  ASSUME [PermissionNext]_pvarsAll, NEW r \in DOMAIN requests \ OpenRequests
  PROVE  r \in DOMAIN requests' /\ requests'[r] = requests[r]
<1>1. CASE UNCHANGED requests
  BY <1>1
<1>2. ASSUME NEW i, NEW status, NEW c, requests' = Resolved(i, status, c)
      PROVE  r \in DOMAIN requests' /\ requests'[r] = requests[r]
  BY <1>2, ResolvedRows
<1>3. ASSUME NEW i, NEW row, i \notin DOMAIN requests,
             requests' = WithRow(requests, i, row)
      PROVE  r \in DOMAIN requests' /\ requests'[r] = requests[r]
  BY <1>3 DEF WithRow
<1>4. ASSUME NEW k \in DOMAIN calls, Insert(k)
      PROVE  r \in DOMAIN requests' /\ requests'[r] = requests[r]
  BY <1>1, <1>3, <1>4 DEF Insert
<1>5. ASSUME NEW k \in DOMAIN calls, Expire(k)
      PROVE  r \in DOMAIN requests' /\ requests'[r] = requests[r]
  BY <1>2, <1>5 DEF Expire
<1>6. ASSUME NEW p \in Principals, NEW i \in ReqId, NEW s \in Servers,
             Deny(p, i, s) \/ Accept(p, i, s)
      PROVE  r \in DOMAIN requests' /\ requests'[r] = requests[r]
  BY <1>2, <1>6 DEF Deny, Accept
<1>7. CASE ClaimTool
  BY <1>1, <1>7 DEF ClaimTool, pvars
<1>8. ASSUME NEW k \in CallId, NEW p \in Principals, NEW i \in ReqId,
             NEW s \in Servers,
             \/ \E c \in DOMAIN claims, S \in Scopes, only \in BOOLEAN :
                  Check(k, p, i, c, S, s, only)
             \/ Rejoin(k, p, i, s)
      PROVE  UNCHANGED requests
  BY <1>8 DEF Check, Rejoin
<1>9. ASSUME NEW k \in DOMAIN calls, Poll(k) \/ Timeout(k)
      PROVE  UNCHANGED requests
  BY <1>9 DEF Poll, Timeout
<1>10. ASSUME NEW s \in Servers, Restart(s)
       PROVE  UNCHANGED requests
  BY <1>10 DEF Restart
<1>11. CASE UNCHANGED pvarsAll
  BY <1>1, <1>11 DEF pvarsAll, pvars
<1>. QED
  BY <1>1, <1>4, <1>5, <1>6, <1>7, <1>8, <1>9, <1>10, <1>11 DEF PermissionNext

\* A request is resolved once, for any number of calls, timers, answers and
\* processes that race for it.
THEOREM ResolvedOnceHolds == PermissionSpec => ResolvedOnce
<1>1. [PermissionNext]_pvarsAll =>
        [\A r \in DOMAIN requests \ OpenRequests :
           r \in DOMAIN requests' /\ requests'[r] = requests[r]]_pvarsAll
  BY ResolvedKept
<1>. QED
  BY <1>1, PTL DEF PermissionSpec, ResolvedOnce
-----------------------------------------------------------------------------
(***************************************************************************)
(* The claims after a grant.  LeaseMatchesMode does not hold here, so the  *)
(* lemmas of ClaimsProofs that rest on it do not apply.                    *)
(***************************************************************************)

\* The claims and the request after a grant: one claim is narrowed, one is new.
GrantAs(d, r) ==
  LET c == requests[r].claim
      kept == Kept(claims[c].scope, requests[r].paths)
  IN  /\ d \in ClaimId \ DOMAIN claims
      /\ DOMAIN claims' = DOMAIN claims \cup {d}
      /\ DOMAIN claims' = 1 .. Cardinality(DOMAIN claims')
      /\ claims' \in [DOMAIN claims' -> Claim]
      /\ claims'[c].scope = kept
      /\ \A e \in DOMAIN claims \ {c} : claims'[e] = claims[e]
      /\ ended' \in {ended, ended \cup ({c} \X {"scope_released"})}
      /\ requests' = Resolved(r, "granted", d)

LEMMA AcceptStep ==
  ASSUME TypeOK, PermissionTypeOK, NEW p \in Principals, NEW r \in ReqId,
         NEW s \in Servers, Accept(p, r, s)
  PROVE  \E d \in ClaimId : GrantAs(d, r)
<1> DEFINE c == requests[r].claim
           S == requests[r].paths
           q == requests[r].requester
           n == Cardinality(DOMAIN claims)
           d == n + 1
           kept == Kept(claims[c].scope, S)
           narrowed == [claims EXCEPT ![c].scope = kept,
                          ![c].status = IF kept = {} THEN "released" ELSE @]
           row == GrantedRow(q, S, GrantLease)
<1>1. c \in DOMAIN claims /\ S \in Scopes /\ q \in Principals
  BY DEF PermissionTypeOK, Accept, OpenRequests, Request
<1>2. row \in Claim
  <2>1. now \in Nat /\ now + GrantLease \in Nat
    BY TimeAssumption, RequestAssumption DEF TypeOK
  <2>2. S \in Patterns
    BY <1>1, ScopePatterns
  <2>. QED
    BY <1>1, <2>1, <2>2, GrantAssumption DEF TypeOK, Claim, GrantedRow, Mode
<1>3. /\ d \in ClaimId /\ claims' = WithRow(narrowed, d, row)
      /\ ended' = IF kept = {} THEN ended \cup {<<c, "scope_released">>} ELSE ended
      /\ requests' = Resolved(r, "granted", d)
  BY DEF Accept, GrantedRow
<1>4. d \notin DOMAIN claims
      /\ DOMAIN claims \cup {d} = 1 .. Cardinality(DOMAIN claims \cup {d})
  BY NextId
<1>5. kept \in Patterns
  BY <1>1 DEF TypeOK, Claim, Kept, Patterns
<1> DEFINE left == [claims[c] EXCEPT !.scope = kept,
                      !.status = IF kept = {} THEN "released" ELSE @]
<1> HIDE DEF d, row, kept, S, q
<1>6. /\ DOMAIN narrowed = DOMAIN claims
      /\ narrowed \in [DOMAIN claims -> Claim]
      /\ narrowed[c].scope = kept
      /\ \A e \in DOMAIN claims \ {c} : narrowed[e] = claims[e]
  <2>1. claims \in [DOMAIN claims -> Claim]
    BY DEF TypeOK
  <2>2. left \in Claim /\ left.scope = kept
    <3>1. claims[c] \in Claim
      BY <1>1, <2>1
    <3>2. CASE kept = {}
      <4>1. left = [claims[c] EXCEPT !.scope = kept, !.status = "released"]
        BY <3>2
      <4>. QED
        BY <1>5, <3>1, <4>1 DEF Claim
    <3>3. CASE kept # {}
      <4>1. left = [claims[c] EXCEPT !.scope = kept]
        BY <3>1, <3>3 DEF Claim
      <4>. QED
        BY <1>5, <3>1, <4>1 DEF Claim
    <3>. QED
      BY <3>2, <3>3
  <2>3. narrowed = [claims EXCEPT ![c] = left]
    BY <1>1, <2>1
  <2> HIDE DEF left, narrowed
  <2>. QED
    BY <1>1, <2>1, <2>2, <2>3
<1> HIDE DEF narrowed, c
<1>7. /\ DOMAIN claims' = DOMAIN claims \cup {d}
      /\ claims' \in [DOMAIN claims' -> Claim]
      /\ claims'[c].scope = kept
      /\ \A e \in DOMAIN claims \ {c} : claims'[e] = claims[e]
  BY <1>1, <1>2, <1>3, <1>4, <1>6 DEF WithRow
<1>8. ended' \in {ended, ended \cup ({c} \X {"scope_released"})}
  BY <1>3
<1>9. DOMAIN claims' = 1 .. Cardinality(DOMAIN claims')
  BY <1>4, <1>7
<1>. QED
  BY <1>3, <1>4, <1>7, <1>8, <1>9 DEF GrantAs, c, S, kept

LEMMA ShrinksAccept ==
  ASSUME TypeOK, NEW r, NEW d, requests[r].claim \in DOMAIN claims, GrantAs(d, r)
  PROVE  Shrinks
  BY DEF GrantAs, Shrinks, Kept

-----------------------------------------------------------------------------
(***************************************************************************)
(* Types.                                                                  *)
(***************************************************************************)

PermissionInv == TypeOK /\ PermissionTypeOK

RequestsOK ==
  /\ DOMAIN requests \subseteq ReqId
  /\ requests \in [DOMAIN requests -> Request]
  /\ \A r \in DOMAIN requests : requests[r].claim \in DOMAIN claims

CallsOK ==
  /\ DOMAIN calls \subseteq CallId
  /\ calls \in [DOMAIN calls -> Call]
  /\ \A k \in DOMAIN calls : calls[k].claim \in DOMAIN claims

WakersOK == wakers \in [Servers -> [ReqId -> DOMAIN calls \cup {0}]]
BusyOK == busy \in [Servers -> DOMAIN calls \cup {0}]

LEMMA PermissionTypeParts ==
  PermissionTypeOK <=> RequestsOK /\ CallsOK /\ WakersOK /\ BusyOK
  BY DEF PermissionTypeOK, RequestsOK, CallsOK, WakersOK, BusyOK

\* Rows stay in type while no claim is dropped from the table.
LEMMA RequestsSame ==
  ASSUME RequestsOK, Shrinks, UNCHANGED requests
  PROVE  RequestsOK'
  BY DEF RequestsOK, Shrinks

LEMMA CallsSame ==
  ASSUME CallsOK, Shrinks, UNCHANGED calls
  PROVE  CallsOK'
  BY DEF CallsOK, Shrinks

LEMMA RequestsResolved ==
  ASSUME RequestsOK, Shrinks, NEW r, NEW status \in Status,
         NEW d \in ClaimId \cup {0}, requests' = Resolved(r, status, d)
  PROVE  RequestsOK'
<1>1. DOMAIN requests' = DOMAIN requests
  BY ResolvedRows
<1>2. ASSUME NEW i \in DOMAIN requests
      PROVE  requests'[i] \in Request /\ requests'[i].claim = requests[i].claim
  <2>1. requests[i] \in Request
    BY DEF RequestsOK
  <2>2. CASE requests'[i] = requests[i]
    BY <2>1, <2>2
  <2>3. CASE r \in OpenRequests /\ i = r
    <3>1. requests'[i] = [requests[i] EXCEPT !.status = status, !.granted = d]
      BY <2>1, <2>3 DEF Resolved, Request
    <3>. QED
      BY <2>1, <3>1 DEF Request
  <2>. QED
    BY <2>2, <2>3, ResolvedRows DEF Resolved
<1>3. requests' \in [DOMAIN requests' -> Request]
  <2>1. requests' = [i \in DOMAIN requests' |-> requests'[i]]
    BY DEF Resolved, RequestsOK
  <2>. QED
    BY <1>1, <1>2, <2>1
<1>. QED
  BY <1>1, <1>2, <1>3 DEF RequestsOK, Shrinks

\* A call whose phase and answer change is a call.
LEMMA CallsMoved ==
  ASSUME CallsOK, Shrinks, NEW k \in DOMAIN calls,
         NEW ph \in Phase, NEW a \in Answer,
         calls' = [calls EXCEPT ![k].phase = ph, ![k].answer = a]
  PROVE  CallsOK'
<1>1. \A l \in DOMAIN calls : calls[l] \in Call
  BY DEF CallsOK
<1>2. [calls[k] EXCEPT !.phase = ph, !.answer = a] \in Call
  BY <1>1 DEF Call
<1>3. calls' = [calls EXCEPT ![k] = [calls[k] EXCEPT !.phase = ph, !.answer = a]]
  OBVIOUS
<1>4. DOMAIN calls' = DOMAIN calls /\ calls' \in [DOMAIN calls -> Call]
  BY <1>2, <1>3 DEF CallsOK
<1>5. \A l \in DOMAIN calls : calls'[l].claim = calls[l].claim
  BY <1>1, <1>3 DEF Call
<1>. QED
  BY <1>4, <1>5 DEF CallsOK, Shrinks

LEMMA CallsPhase ==
  ASSUME CallsOK, Shrinks, NEW k \in DOMAIN calls, NEW ph \in Phase,
         calls' = [calls EXCEPT ![k].phase = ph]
  PROVE  CallsOK'
<1>1. \A l \in DOMAIN calls : calls[l] \in Call
  BY DEF CallsOK
<1>2. [calls[k] EXCEPT !.phase = ph] \in Call
  BY <1>1 DEF Call
<1>3. calls' = [calls EXCEPT ![k] = [calls[k] EXCEPT !.phase = ph]]
  OBVIOUS
<1>4. DOMAIN calls' = DOMAIN calls /\ calls' \in [DOMAIN calls -> Call]
  BY <1>2, <1>3 DEF CallsOK
<1>5. \A l \in DOMAIN calls : calls'[l].claim = calls[l].claim
  BY <1>1, <1>3 DEF Call
<1>. QED
  BY <1>4, <1>5 DEF CallsOK, Shrinks

LEMMA SettleType ==
  ASSUME CallsOK, WakersOK, Shrinks, NEW k \in DOMAIN calls,
         NEW ph \in Phase, NEW a \in Answer,
         Settle(k, a, ph)
  PROVE  CallsOK' /\ WakersOK' /\ DOMAIN calls' = DOMAIN calls
<1>1. CallsOK'
  BY CallsMoved DEF Settle
<1>2. calls[k].server \in Servers /\ calls[k].req \in ReqId
  BY DEF CallsOK, Call
<1>3. DOMAIN calls' = DOMAIN calls
  BY DEF Settle
<1>4. WakersOK'
  BY <1>2, <1>3 DEF Settle, WakersOK
<1>. QED
  BY <1>1, <1>3, <1>4

LEMMA WakeType ==
  ASSUME CallsOK, WakersOK, Shrinks, NEW s \in Servers, NEW r \in ReqId,
         NEW a \in Answer, Wake(s, r, a)
  PROVE  CallsOK' /\ WakersOK' /\ DOMAIN calls' = DOMAIN calls
<1>1. CASE UNCHANGED <<calls, wakers>>
  BY <1>1, CallsSame DEF WakersOK
<1>2. CASE wakers[s][r] \in DOMAIN calls /\ Settle(wakers[s][r], a, "done")
  <2>1. "done" \in Phase
    BY DEF Phase
  <2>. QED
    BY <1>2, <2>1, SettleType
<1>3. wakers[s][r] \in DOMAIN calls \cup {0}
  BY DEF WakersOK
<1>. QED
  BY <1>1, <1>2, <1>3 DEF Wake

LEMMA NewCallType ==
  ASSUME CallsOK, Shrinks, NEW k \in CallId, NEW p \in Principals, NEW r \in ReqId,
         NEW c \in DOMAIN claims \cap ClaimId, NEW S \in Scopes, NEW o \in Principals,
         NEW s \in Servers, NEW only \in BOOLEAN,
         NEW ph \in Phase, NEW a \in Answer,
         NewCall(k, p, r, c, S, o, s, only, ph, a)
  PROVE  CallsOK' /\ DOMAIN calls' = DOMAIN calls \cup {k}
<1> DEFINE row == [by |-> p, req |-> r, claim |-> c, paths |-> S,
                   incumbent |-> o, server |-> s, createOnly |-> only,
                   phase |-> ph, answer |-> a]
<1>1. row \in Call /\ row.claim = c
  BY DEF Call
<1>2. calls' = WithRow(calls, k, row)
  BY DEF NewCall
<1> HIDE DEF row
<1>. QED
  BY <1>1, <1>2 DEF CallsOK, WithRow, Shrinks

\* The actions that leave the claims alone.
LEMMA TypeCheck ==
  ASSUME PermissionInv, NEW k \in CallId, NEW p \in Principals, NEW r \in ReqId,
         NEW c \in DOMAIN claims, NEW S \in Scopes, NEW s \in Servers,
         NEW only \in BOOLEAN, Check(k, p, r, c, S, s, only)
  PROVE  RequestsOK' /\ CallsOK' /\ WakersOK' /\ BusyOK'
<1>1. RequestsOK /\ CallsOK /\ WakersOK /\ BusyOK
  BY PermissionTypeParts DEF PermissionInv
<1>2. Shrinks /\ RequestsOK'
  BY <1>1, ShrinksSame, RequestsSame DEF Check, vars
<1>3. claims[c].owner \in Principals /\ c \in DOMAIN claims \cap ClaimId
  BY DEF PermissionInv, TypeOK, Claim
<1>4. CallsOK' /\ DOMAIN calls' = DOMAIN calls \cup {k}
  BY <1>1, <1>2, <1>3, NewCallType DEF Check, Answer, Phase
<1>5. WakersOK'
  BY <1>1, <1>4 DEF Check, WakersOK
<1>6. BusyOK'
  BY <1>1, <1>4 DEF Check, BusyOK
<1>. QED
  BY <1>2, <1>4, <1>5, <1>6

LEMMA TypeInsert ==
  ASSUME PermissionInv, NEW k \in DOMAIN calls, Insert(k)
  PROVE  RequestsOK' /\ CallsOK' /\ WakersOK' /\ BusyOK'
<1> DEFINE row == [requester |-> calls[k].by, incumbent |-> calls[k].incumbent,
                   claim |-> calls[k].claim, paths |-> calls[k].paths,
                   status |-> "open", granted |-> 0]
<1>1. RequestsOK /\ CallsOK /\ WakersOK /\ BusyOK
  BY PermissionTypeParts DEF PermissionInv
<1>2. calls[k] \in Call /\ calls[k].claim \in DOMAIN claims
  BY <1>1 DEF CallsOK
<1>3. Shrinks
  BY ShrinksSame DEF Insert, vars
<1>4. DOMAIN calls' = DOMAIN calls /\ BusyOK'
  BY <1>1, <1>2 DEF Insert, BusyOK, Call
<1>5. RequestsOK'
  <2>1. row \in Request /\ row.claim = calls[k].claim
    BY <1>2 DEF Call, Request, Status
  <2>2. UNCHANGED requests \/ requests' = WithRow(requests, calls[k].req, row)
    BY DEF Insert
  <2>3. calls[k].req \in ReqId
    BY <1>2 DEF Call
  <2> HIDE DEF row
  <2>4. CASE requests' = WithRow(requests, calls[k].req, row)
    BY <1>1, <1>2, <1>3, <2>1, <2>3, <2>4 DEF RequestsOK, WithRow, Shrinks
  <2>. QED
    BY <1>1, <1>3, <2>2, <2>4, RequestsSame
<1>6. CallsOK'
  <2>1. CASE \/ calls' = [calls EXCEPT ![k].phase = "done", ![k].answer = "error"]
             \/ calls' = [calls EXCEPT ![k].phase = "done", ![k].answer = "pending"]
    BY <1>1, <1>3, <2>1, CallsMoved DEF Answer, Phase
  <2>2. CASE calls' = [calls EXCEPT ![k].phase = "waiting"]
    BY <1>1, <1>3, <2>2, CallsPhase DEF Phase
  <2>. QED
    BY <2>1, <2>2 DEF Insert
<1>7. WakersOK'
  <2>1. UNCHANGED wakers
        \/ wakers' = [wakers EXCEPT ![calls[k].server][calls[k].req] = k]
    BY DEF Insert
  <2>. QED
    BY <1>1, <1>2, <1>4, <2>1 DEF WakersOK, Call
<1>. QED
  BY <1>4, <1>5, <1>6, <1>7

LEMMA TypeRejoin ==
  ASSUME PermissionInv, NEW k \in CallId, NEW p \in Principals, NEW r \in ReqId,
         NEW s \in Servers, Rejoin(k, p, r, s)
  PROVE  RequestsOK' /\ CallsOK' /\ WakersOK' /\ BusyOK'
<1> DEFINE q == requests[r]
<1>1. RequestsOK /\ CallsOK /\ WakersOK /\ BusyOK
  BY PermissionTypeParts DEF PermissionInv
<1>2. Shrinks /\ RequestsOK'
  BY <1>1, ShrinksSame, RequestsSame DEF Rejoin, vars
<1>3. /\ q.claim \in DOMAIN claims \cap ClaimId
      /\ q.paths \in Scopes /\ q.incumbent \in Principals
  BY <1>1 DEF PermissionInv, TypeOK, RequestsOK, Rejoin, Request
<1>4. PICK ph \in Phase, a \in Answer :
        NewCall(k, p, r, q.claim, q.paths, q.incumbent, s, FALSE, ph, a)
  BY DEF Rejoin, Resolution, Answer, Phase
<1>5. CallsOK' /\ DOMAIN calls' = DOMAIN calls \cup {k}
  <2>1. ASSUME NEW c \in DOMAIN claims \cap ClaimId, NEW S \in Scopes,
               NEW o \in Principals, NEW only \in BOOLEAN,
               NewCall(k, p, r, c, S, o, s, only, ph, a)
        PROVE  CallsOK' /\ DOMAIN calls' = DOMAIN calls \cup {k}
    BY <1>1, <1>2, <2>1, NewCallType
  <2> HIDE DEF q
  <2>. QED
    BY <1>3, <1>4, <2>1
<1>6. UNCHANGED busy /\ (UNCHANGED wakers \/ wakers' = [wakers EXCEPT ![s][r] = k])
  BY DEF Rejoin
<1> HIDE DEF q
<1>7. WakersOK'
  BY <1>1, <1>5, <1>6 DEF WakersOK
<1>8. BusyOK'
  BY <1>1, <1>5, <1>6 DEF BusyOK
<1>. QED
  BY <1>2, <1>5, <1>7, <1>8

LEMMA TypePoll ==
  ASSUME PermissionInv, NEW k \in DOMAIN calls, Poll(k)
  PROVE  RequestsOK' /\ CallsOK' /\ WakersOK' /\ BusyOK'
<1>1. RequestsOK /\ CallsOK /\ WakersOK /\ BusyOK
  BY PermissionTypeParts DEF PermissionInv
<1>2. Shrinks /\ RequestsOK'
  BY <1>1, ShrinksSame, RequestsSame DEF Poll, vars
<1>3. CallsOK' /\ WakersOK' /\ DOMAIN calls' = DOMAIN calls
  BY <1>1, <1>2, SettleType DEF Poll, Resolution, Answer, Phase
<1>. QED
  BY <1>1, <1>2, <1>3 DEF Poll, BusyOK

LEMMA TypeTimeout ==
  ASSUME PermissionInv, NEW k \in DOMAIN calls, Timeout(k)
  PROVE  RequestsOK' /\ CallsOK' /\ WakersOK' /\ BusyOK'
<1>1. RequestsOK /\ CallsOK /\ WakersOK /\ BusyOK
  BY PermissionTypeParts DEF PermissionInv
<1>2. Shrinks /\ RequestsOK'
  BY <1>1, ShrinksSame, RequestsSame DEF Timeout, vars
<1>3. CallsOK' /\ WakersOK' /\ DOMAIN calls' = DOMAIN calls
  BY <1>1, <1>2, SettleType DEF Timeout, Answer, Phase
<1>4. calls[k].server \in Servers
  BY <1>1 DEF CallsOK, Call
<1>. QED
  BY <1>1, <1>2, <1>3, <1>4 DEF Timeout, BusyOK

LEMMA TypeExpire ==
  ASSUME PermissionInv, NEW k \in DOMAIN calls, Expire(k)
  PROVE  RequestsOK' /\ CallsOK' /\ WakersOK' /\ BusyOK'
<1>1. RequestsOK /\ CallsOK /\ WakersOK /\ BusyOK
  BY PermissionTypeParts DEF PermissionInv
<1>2. Shrinks
  BY ShrinksSame DEF Expire, vars
<1>3. RequestsOK'
  BY <1>1, <1>2, RequestsResolved DEF Expire, Status
<1>4. CallsOK' /\ DOMAIN calls' = DOMAIN calls
  BY <1>1, <1>2, CallsPhase DEF Expire, Phase
<1>. QED
  BY <1>1, <1>3, <1>4 DEF Expire, WakersOK, BusyOK

LEMMA TypeDeny ==
  ASSUME PermissionInv, NEW p \in Principals, NEW r \in ReqId, NEW s \in Servers,
         Deny(p, r, s)
  PROVE  RequestsOK' /\ CallsOK' /\ WakersOK' /\ BusyOK'
<1>1. RequestsOK /\ CallsOK /\ WakersOK /\ BusyOK
  BY PermissionTypeParts DEF PermissionInv
<1>2. Shrinks
  BY ShrinksSame DEF Deny, vars
<1>3. RequestsOK'
  BY <1>1, <1>2, RequestsResolved DEF Deny, Status
<1>4. CallsOK' /\ WakersOK' /\ DOMAIN calls' = DOMAIN calls
  BY <1>1, <1>2, WakeType DEF Deny, Answer
<1>. QED
  BY <1>1, <1>3, <1>4 DEF Deny, BusyOK

LEMMA TypeRestart ==
  ASSUME PermissionInv, NEW s \in Servers, Restart(s)
  PROVE  RequestsOK' /\ CallsOK' /\ WakersOK' /\ BusyOK'
<1>1. RequestsOK /\ CallsOK /\ WakersOK /\ BusyOK
  BY PermissionTypeParts DEF PermissionInv
<1>2. Shrinks /\ RequestsOK'
  BY <1>1, ShrinksSame, RequestsSame DEF Restart, vars
<1>3. DOMAIN calls' = DOMAIN calls
  BY DEF Restart
<1>4. \A k \in DOMAIN calls : calls'[k] \in Call /\ calls'[k].claim = calls[k].claim
  BY <1>1 DEF Restart, CallsOK, Call, Answer, Phase
<1>5. CallsOK'
  <2>1. calls' = [k \in DOMAIN calls' |-> calls'[k]]
    BY DEF Restart
  <2>. QED
    BY <1>1, <1>2, <1>3, <1>4, <2>1 DEF CallsOK, Shrinks
<1>. QED
  BY <1>1, <1>2, <1>3, <1>5 DEF Restart, WakersOK, BusyOK

\* A grant: both tables change.
LEMMA TypeAccept ==
  ASSUME PermissionInv, NEW p \in Principals, NEW r \in ReqId, NEW s \in Servers,
         Accept(p, r, s)
  PROVE  TypeOK' /\ RequestsOK' /\ CallsOK' /\ WakersOK' /\ BusyOK'
<1>1. RequestsOK /\ CallsOK /\ WakersOK /\ BusyOK
  BY PermissionTypeParts DEF PermissionInv
<1>2. PICK d \in ClaimId : GrantAs(d, r)
  BY AcceptStep DEF PermissionInv
<1>3. requests[r].claim \in DOMAIN claims
  BY <1>1 DEF RequestsOK, Accept, OpenRequests
<1>4. Shrinks
  BY <1>2, <1>3, ShrinksAccept DEF PermissionInv
<1>5. RequestsOK'
  BY <1>1, <1>2, <1>4, RequestsResolved DEF GrantAs, Status
<1>6. CallsOK' /\ WakersOK' /\ DOMAIN calls' = DOMAIN calls
  BY <1>1, <1>4, WakeType DEF Accept, Answer
<1>7. BusyOK'
  BY <1>1, <1>6 DEF Accept, BusyOK
<1>8. ended' \subseteq (DOMAIN claims') \X ReleaseEvents
  <2>1. {requests[r].claim} \X {"scope_released"} \subseteq (DOMAIN claims) \X ReleaseEvents
    BY <1>3 DEF ReleaseEvents
  <2>2. ended \subseteq (DOMAIN claims) \X ReleaseEvents
    BY DEF PermissionInv, TypeOK
  <2>3. ended' \subseteq (DOMAIN claims) \X ReleaseEvents
    BY <1>2, <2>1, <2>2 DEF GrantAs
  <2>. QED
    BY <1>4, <2>3 DEF Shrinks
<1>9. /\ DOMAIN claims' = 1 .. Cardinality(DOMAIN claims')
      /\ DOMAIN claims' \subseteq ClaimId
      /\ claims' \in [DOMAIN claims' -> Claim]
      /\ DOMAIN claims \subseteq DOMAIN claims'
  BY <1>2 DEF GrantAs, PermissionInv, TypeOK
<1>10. UNCHANGED <<keyed, unread, pending, sprintOf, now>>
  BY DEF Accept
<1>11. TypeOK'
  BY <1>8, <1>9, <1>10 DEF PermissionInv, TypeOK
<1>. QED
  BY <1>5, <1>6, <1>7, <1>11

LEMMA ShrinksPermission ==
  ASSUME PermissionInv, [PermissionNext]_pvarsAll
  PROVE  Shrinks
<1>1. CASE ClaimTool
  BY <1>1, ShrinksStep DEF ClaimTool, PermissionInv
<1>2. ASSUME NEW p \in Principals, NEW r \in ReqId, NEW s \in Servers, Accept(p, r, s)
      PROVE  Shrinks
  <2>1. requests[r].claim \in DOMAIN claims
    BY <1>2 DEF PermissionInv, PermissionTypeOK, Accept, OpenRequests
  <2>. QED
    BY <1>2, <2>1, AcceptStep, ShrinksAccept DEF PermissionInv
<1>3. CASE UNCHANGED claims
  BY <1>3, ShrinksSame
<1>4. ASSUME NEW k \in CallId, NEW p \in Principals, NEW r \in ReqId, NEW s \in Servers,
             \/ \E c \in DOMAIN claims, S \in Scopes, only \in BOOLEAN :
                  Check(k, p, r, c, S, s, only)
             \/ Rejoin(k, p, r, s)
      PROVE  UNCHANGED claims
  BY <1>4 DEF Check, Rejoin, vars
<1>5. ASSUME NEW k \in DOMAIN calls, Insert(k) \/ Poll(k) \/ Timeout(k) \/ Expire(k)
      PROVE  UNCHANGED claims
  BY <1>5 DEF Insert, Poll, Timeout, Expire, vars
<1>6. ASSUME NEW s \in Servers,
             Restart(s) \/ \E p \in Principals, r \in ReqId : Deny(p, r, s)
      PROVE  UNCHANGED claims
  BY <1>6 DEF Restart, Deny, vars
<1>7. CASE UNCHANGED pvarsAll
  BY <1>3, <1>7 DEF pvarsAll, vars
<1>. QED
  BY <1>1, <1>2, <1>3, <1>4, <1>5, <1>6, <1>7 DEF PermissionNext

\* Every step keeps the tables of both modules in type.
LEMMA PermissionTypeStep ==
  ASSUME PermissionInv, [PermissionNext]_pvarsAll
  PROVE  PermissionInv'
<1> DEFINE Rest == RequestsOK /\ CallsOK /\ WakersOK /\ BusyOK
<1>1. Rest
  BY PermissionTypeParts DEF PermissionInv
<1>2. CASE ClaimTool \/ UNCHANGED pvarsAll
  <2>1. [Next]_vars /\ UNCHANGED pvars
    BY <1>2 DEF ClaimTool, pvarsAll, pvars
  <2>2. TypeOK' /\ Shrinks
    BY <2>1, TypeStep, ShrinksStep DEF PermissionInv
  <2>. QED
    BY <1>1, <2>1, <2>2, RequestsSame, CallsSame, PermissionTypeParts
    DEF pvars, PermissionInv, PermissionTypeOK, WakersOK, BusyOK, RequestsOK, CallsOK
<1>3. ASSUME NEW p \in Principals, NEW r \in ReqId, NEW s \in Servers, Accept(p, r, s)
      PROVE  TypeOK' /\ Rest'
  BY <1>3, TypeAccept
<1>4. ASSUME NEW k \in CallId, NEW p \in Principals, NEW r \in ReqId,
             NEW c \in DOMAIN claims, NEW S \in Scopes, NEW s \in Servers,
             NEW only \in BOOLEAN, Check(k, p, r, c, S, s, only)
      PROVE  UNCHANGED vars /\ Rest'
  <2>1. UNCHANGED vars
    BY <1>4 DEF Check
  <2>. QED
    BY <1>4, <2>1, TypeCheck
<1>5. ASSUME NEW k \in CallId, NEW p \in Principals, NEW r \in ReqId, NEW s \in Servers,
             Rejoin(k, p, r, s)
      PROVE  UNCHANGED vars /\ Rest'
  <2>1. UNCHANGED vars
    BY <1>5 DEF Rejoin
  <2>. QED
    BY <1>5, <2>1, TypeRejoin
<1>6. ASSUME NEW k \in DOMAIN calls, Insert(k) \/ Poll(k) \/ Timeout(k) \/ Expire(k)
      PROVE  UNCHANGED vars /\ Rest'
  <2>1. UNCHANGED vars
    BY <1>6 DEF Insert, Poll, Timeout, Expire
  <2>2. Rest'
    BY <1>6, TypeInsert, TypePoll, TypeTimeout, TypeExpire
  <2>. QED
    BY <2>1, <2>2
<1>7. ASSUME NEW s \in Servers, Restart(s)
      PROVE  UNCHANGED vars /\ Rest'
  <2>1. UNCHANGED vars
    BY <1>7 DEF Restart
  <2>. QED
    BY <1>7, <2>1, TypeRestart
<1>8. ASSUME NEW p \in Principals, NEW r \in ReqId, NEW s \in Servers, Deny(p, r, s)
      PROVE  UNCHANGED vars /\ Rest'
  <2>1. UNCHANGED vars
    BY <1>8 DEF Deny
  <2>. QED
    BY <1>8, <2>1, TypeDeny
<1>9. ASSUME TypeOK', Rest'
      PROVE  PermissionInv'
  <2>1. PermissionTypeOK'
    BY <1>9 DEF PermissionTypeOK, RequestsOK, CallsOK, WakersOK, BusyOK
  <2>. QED
    BY <1>9, <2>1 DEF PermissionInv
<1> HIDE DEF Rest
<1>10. ASSUME UNCHANGED vars
       PROVE  TypeOK'
  BY <1>10 DEF PermissionInv, TypeOK, vars
<1>. QED
  BY <1>2, <1>3, <1>4, <1>5, <1>6, <1>7, <1>8, <1>9, <1>10 DEF PermissionNext

LEMMA PermissionInvInit == PermissionInit => PermissionInv
<1>1. Init => TypeOK
  BY FS_EmptySet, TimeAssumption DEF Init, TypeOK, NoRows, Contexts
<1>2. PermissionInit => PermissionTypeOK
  BY DEF PermissionInit, PermissionTypeOK, NoRows
<1>. QED
  BY <1>1, <1>2 DEF PermissionInit, PermissionInv

\* Every state of claims, requests, calls and wakers is well typed, for any
\* number of members, requests, processes and calls: a grant writes a claim
\* like any other, and rows and calls refer only to claims in the table.
THEOREM PermissionTypeCorrect == PermissionSpec => [](TypeOK /\ PermissionTypeOK)
<1>1. PermissionInv /\ [PermissionNext]_pvarsAll => PermissionInv'
  BY PermissionTypeStep
<1>2. PermissionSpec => []PermissionInv
  BY <1>1, PermissionInvInit, PTL DEF PermissionSpec
<1>. QED
  BY <1>2, PTL DEF PermissionInv

-----------------------------------------------------------------------------
(***************************************************************************)
(* Grants split claims.                                                    *)
(***************************************************************************)

\* A request is granted by Accept and by no other step.
LEMMA GrantedBefore ==
  ASSUME PermissionInv, [PermissionNext]_pvarsAll,
         ~ \E p \in Principals, r \in ReqId, s \in Servers : Accept(p, r, s),
         NEW r \in DOMAIN requests', requests'[r].status = "granted"
  PROVE  r \in DOMAIN requests /\ requests'[r] = requests[r]
<1>1. CASE UNCHANGED requests
  BY <1>1
<1>2. \A i \in DOMAIN requests : requests[i] \in Request
  BY DEF PermissionInv, PermissionTypeOK
<1>3. ASSUME NEW i, NEW status \in {"denied", "expired"},
             requests' = Resolved(i, status, 0)
      PROVE  r \in DOMAIN requests /\ requests'[r] = requests[r]
  <2>1. r \in DOMAIN requests
    BY <1>3, ResolvedRows
  <2>2. CASE r = i /\ i \in OpenRequests
    <3>1. requests'[r].status = status
      BY <1>2, <1>3, <2>1, <2>2 DEF Resolved, Request
    <3>. QED
      BY <1>3, <3>1
  <2>. QED
    BY <1>3, <2>1, <2>2, ResolvedRows DEF Resolved
<1>4. ASSUME NEW k \in DOMAIN calls, Insert(k)
      PROVE  r \in DOMAIN requests /\ requests'[r] = requests[r]
  <2>1. CASE UNCHANGED requests
    BY <2>1
  <2>2. ASSUME NEW row, row.status = "open",
               requests' = WithRow(requests, calls[k].req, row)
        PROVE  r \in DOMAIN requests /\ requests'[r] = requests[r]
    BY <2>2 DEF WithRow
  <2>. QED
    BY <1>4, <2>1, <2>2 DEF Insert
<1>5. ASSUME NEW k \in DOMAIN calls, Expire(k)
      PROVE  r \in DOMAIN requests /\ requests'[r] = requests[r]
  BY <1>3, <1>5 DEF Expire
<1>6. ASSUME NEW p \in Principals, NEW i \in ReqId, NEW s \in Servers, Deny(p, i, s)
      PROVE  r \in DOMAIN requests /\ requests'[r] = requests[r]
  BY <1>3, <1>6 DEF Deny
<1>7. CASE ClaimTool \/ UNCHANGED pvarsAll
  BY <1>1, <1>7 DEF ClaimTool, pvars, pvarsAll
<1>8. ASSUME NEW k \in CallId, NEW p \in Principals, NEW i \in ReqId, NEW s \in Servers,
             \/ \E c \in DOMAIN claims, S \in Scopes, only \in BOOLEAN :
                  Check(k, p, i, c, S, s, only)
             \/ Rejoin(k, p, i, s)
      PROVE  UNCHANGED requests
  BY <1>8 DEF Check, Rejoin
<1>9. ASSUME NEW k \in DOMAIN calls, Poll(k) \/ Timeout(k)
      PROVE  UNCHANGED requests
  BY <1>9 DEF Poll, Timeout
<1>10. ASSUME NEW s \in Servers, Restart(s)
       PROVE  UNCHANGED requests
  BY <1>10 DEF Restart
<1>. QED
  BY <1>1, <1>4, <1>5, <1>6, <1>7, <1>8, <1>9, <1>10 DEF PermissionNext

LEMMA SplitStep ==
  ASSUME PermissionInv, SplitIsClean, [PermissionNext]_pvarsAll
  PROVE  SplitIsClean'
<1> SUFFICES ASSUME NEW r \in DOMAIN requests', requests'[r].status = "granted"
             PROVE  ~ Overlap(claims'[requests'[r].claim].scope, requests'[r].paths)
  BY DEF SplitIsClean
<1>1. Shrinks
  BY ShrinksPermission
<1>2. ASSUME r \in DOMAIN requests, requests'[r] = requests[r]
      PROVE  ~ Overlap(claims'[requests'[r].claim].scope, requests'[r].paths)
  <2>1. requests[r].claim \in DOMAIN claims
    BY <1>2 DEF PermissionInv, PermissionTypeOK
  <2>2. ~ Overlap(claims[requests[r].claim].scope, requests[r].paths)
    BY <1>2 DEF SplitIsClean
  <2>3. claims'[requests[r].claim].scope \subseteq claims[requests[r].claim].scope
    BY <1>1, <2>1 DEF Shrinks
  <2>. QED
    BY <1>2, <2>2, <2>3, OverlapShrinks
<1>3. ASSUME NEW p \in Principals, NEW i \in ReqId, NEW s \in Servers, Accept(p, i, s)
      PROVE  ~ Overlap(claims'[requests'[r].claim].scope, requests'[r].paths)
  <2>1. PICK d \in ClaimId : GrantAs(d, i)
    BY <1>3, AcceptStep DEF PermissionInv
  <2>2. CASE r # i
    BY <1>2, <2>1, <2>2, ResolvedRows DEF GrantAs
  <2>3. CASE r = i
    <3>1. i \in DOMAIN requests /\ requests[i] \in Request
      BY <1>3 DEF PermissionInv, PermissionTypeOK, Accept, OpenRequests
    <3>2. /\ requests'[i].claim = requests[i].claim
          /\ requests'[i].paths = requests[i].paths
      <4>1. requests'[i] = [requests[i] EXCEPT !.status = "granted", !.granted = d]
        <5>1. requests' = Resolved(i, "granted", d) /\ i \in OpenRequests
          BY <1>3, <2>1 DEF GrantAs, Accept
        <5>. QED
          BY <3>1, <5>1 DEF Resolved, Request
      <4>. QED
        BY <3>1, <4>1 DEF Request
    <3>3. claims'[requests[i].claim].scope
            = Kept(claims[requests[i].claim].scope, requests[i].paths)
      BY <2>1 DEF GrantAs
    <3>. QED
      BY <2>3, <3>2, <3>3, KeptIsClear
  <2>. QED
    BY <2>2, <2>3
<1>. QED
  BY <1>2, <1>3, GrantedBefore

\* A grant hands patterns over for good: whatever is asked of the narrowed
\* claim later, it never again touches a pattern that was granted from it.
THEOREM SplitHolds == PermissionSpec => []SplitIsClean
<1>1. PermissionInit => SplitIsClean
  BY DEF PermissionInit, SplitIsClean, NoRows
<1>2. PermissionInv /\ SplitIsClean /\ [PermissionNext]_pvarsAll => SplitIsClean'
  BY SplitStep
<1>3. PermissionInv /\ [PermissionNext]_pvarsAll => PermissionInv'
  BY PermissionTypeStep
<1>. QED
  BY <1>1, <1>2, <1>3, PermissionInvInit, PTL DEF PermissionSpec

-----------------------------------------------------------------------------
(***************************************************************************)
(* Handlers of one process do not overlap.                                 *)
(***************************************************************************)

Running(k) == calls[k].phase \in {"checked", "late"}

\* A call between two steps of its handler occupies its process.
RunInv == \A k \in DOMAIN calls : Running(k) => busy[calls[k].server] = k

\* Call k reached phase ph, and the other calls are as they were.
Moved(k, ph) ==
  /\ DOMAIN calls' = DOMAIN calls
  /\ calls'[k].phase = ph
  /\ \A l \in DOMAIN calls :
       /\ calls'[l].server = calls[l].server
       /\ l # k => calls'[l] = calls[l]

LEMMA MovedBy ==
  ASSUME PermissionInv, NEW k \in DOMAIN calls, NEW ph, NEW a,
         \/ calls' = [calls EXCEPT ![k].phase = ph, ![k].answer = a]
         \/ calls' = [calls EXCEPT ![k].phase = ph]
  PROVE  Moved(k, ph)
<1>1. calls \in [DOMAIN calls -> Call]
  BY DEF PermissionInv, PermissionTypeOK
<1>2. calls[k] \in Call
  BY <1>1
<1>3. CASE calls' = [calls EXCEPT ![k].phase = ph, ![k].answer = a]
  BY <1>1, <1>2, <1>3 DEF Moved, Call
<1>4. CASE calls' = [calls EXCEPT ![k].phase = ph]
  BY <1>1, <1>2, <1>4 DEF Moved, Call
<1>. QED
  BY <1>3, <1>4

LEMMA NoneRuns ==
  ASSUME PermissionInv, RunInv, NEW s \in Servers, Idle(s),
         NEW k \in DOMAIN calls, calls[k].server = s
  PROVE  ~ Running(k)
<1>1. k # 0
  BY RequestAssumption DEF PermissionInv, PermissionTypeOK, CallId
<1>. QED
  BY <1>1 DEF RunInv, Idle

\* A call that stops running, or never ran, leaves the others to theirs.
LEMMA RunMoved ==
  ASSUME RunInv, NEW k \in DOMAIN calls, NEW ph, Moved(k, ph),
         ph \notin {"checked", "late"}, UNCHANGED busy
  PROVE  RunInv'
  BY DEF RunInv, Running, Moved

LEMMA RunAdded ==
  ASSUME RunInv, NEW k, NEW row, calls' = WithRow(calls, k, row),
         row.phase \notin {"checked", "late"}, UNCHANGED busy
  PROVE  RunInv'
  BY DEF RunInv, Running, WithRow

LEMMA RunWake ==
  ASSUME PermissionInv, RunInv, NEW s \in Servers, NEW r \in ReqId, NEW a,
         Wake(s, r, a), UNCHANGED busy
  PROVE  RunInv'
<1>1. wakers[s][r] \in DOMAIN calls \cup {0}
  BY DEF PermissionInv, PermissionTypeOK
<1>2. CASE UNCHANGED calls
  BY <1>2 DEF RunInv, Running
<1>3. CASE wakers[s][r] \in DOMAIN calls /\ Settle(wakers[s][r], a, "done")
  <2>1. Moved(wakers[s][r], "done")
    BY <1>3, MovedBy DEF Settle
  <2>. QED
    BY <1>3, <2>1, RunMoved
<1>. QED
  BY <1>1, <1>2, <1>3 DEF Wake

LEMMA RunCheck ==
  ASSUME PermissionInv, RunInv, NEW k \in CallId, NEW p, NEW r, NEW c, NEW S,
         NEW s \in Servers, NEW only, Check(k, p, r, c, S, s, only)
  PROVE  /\ RunInv'
         /\ \A l \in DOMAIN calls' \ {k} : l \in DOMAIN calls /\ calls'[l] = calls[l]
<1>1. /\ DOMAIN calls' = DOMAIN calls \cup {k}
      /\ \A l \in DOMAIN calls \ {k} : calls'[l] = calls[l]
      /\ calls'[k].server = s
  BY DEF Check, NewCall, WithRow
<1>2. busy' = [busy EXCEPT ![s] = k] /\ busy \in [Servers -> DOMAIN calls \cup {0}]
  BY DEF Check, PermissionInv, PermissionTypeOK
<1>3. \A l \in DOMAIN calls : calls[l].server \in Servers
  BY DEF PermissionInv, PermissionTypeOK, Call
<1>4. ASSUME NEW l \in DOMAIN calls \ {k}, Running(l)
      PROVE  busy'[calls[l].server] = l
  <2>1. calls[l].server # s
    BY <1>4, NoneRuns DEF Check
  <2>. QED
    BY <1>2, <1>3, <1>4, <2>1 DEF RunInv
<1>. QED
  BY <1>1, <1>2, <1>4 DEF RunInv, Running

LEMMA RunEnd ==
  ASSUME PermissionInv, RunInv, NEW k \in DOMAIN calls, Running(k), NEW ph,
         Moved(k, ph), ph \notin {"checked", "late"},
         busy' = [busy EXCEPT ![calls[k].server] = 0]
  PROVE  RunInv'
<1>1. busy \in [Servers -> DOMAIN calls \cup {0}]
  BY DEF PermissionInv, PermissionTypeOK
<1>2. \A l \in DOMAIN calls : calls[l].server \in Servers
  BY DEF PermissionInv, PermissionTypeOK, Call
<1>3. ASSUME NEW l \in DOMAIN calls, l # k, Running(l)
      PROVE  busy'[calls[l].server] = l
  <2>1. calls[l].server # calls[k].server
    BY <1>3 DEF RunInv
  <2>. QED
    BY <1>1, <1>2, <1>3, <2>1 DEF RunInv
<1>. QED
  BY <1>3 DEF RunInv, Running, Moved

LEMMA RunTimeout ==
  ASSUME PermissionInv, RunInv, NEW k \in DOMAIN calls, Timeout(k)
  PROVE  RunInv'
<1> DEFINE s == calls[k].server
<1>1. busy \in [Servers -> DOMAIN calls \cup {0}]
  BY DEF PermissionInv, PermissionTypeOK
<1>2. \A l \in DOMAIN calls : calls[l].server \in Servers
  BY DEF PermissionInv, PermissionTypeOK, Call
<1>3. CASE Settle(k, "timeout", "done") /\ UNCHANGED busy
  BY <1>3, MovedBy, RunMoved DEF Settle
<1>4. CASE Settle(k, "timeout", "late") /\ busy' = [busy EXCEPT ![s] = k]
  <2>1. Moved(k, "late")
    BY <1>4, MovedBy DEF Settle
  <2>2. ASSUME NEW l \in DOMAIN calls, l # k, Running(l)
        PROVE  busy'[calls[l].server] = l
    <3>1. calls[l].server # s
      BY <1>2, <2>2, NoneRuns DEF Timeout
    <3>. QED
      BY <1>1, <1>2, <1>4, <2>2, <3>1 DEF RunInv
  <2>3. busy'[s] = k
    BY <1>1, <1>2, <1>4
  <2>. QED
    BY <2>1, <2>2, <2>3 DEF RunInv, Running, Moved
<1>. QED
  BY <1>3, <1>4 DEF Timeout

LEMMA RunRestart ==
  ASSUME PermissionInv, RunInv, NEW s \in Servers, Restart(s)
  PROVE  RunInv'
<1>1. busy \in [Servers -> DOMAIN calls \cup {0}]
  BY DEF PermissionInv, PermissionTypeOK
<1>2. \A l \in DOMAIN calls : calls[l] \in Call /\ calls[l].server \in Servers
  BY DEF PermissionInv, PermissionTypeOK, Call
<1>3. DOMAIN calls' = DOMAIN calls /\ busy' = [busy EXCEPT ![s] = 0]
  BY DEF Restart
<1>4. ASSUME NEW l \in DOMAIN calls, Running(l)'
      PROVE  calls[l].server # s /\ calls'[l] = calls[l]
  BY <1>2, <1>4 DEF Restart, Running, Call
<1>. QED
  BY <1>1, <1>2, <1>3, <1>4 DEF RunInv, Running

LEMMA RunStep ==
  ASSUME PermissionInv, RunInv, [PermissionNext]_pvarsAll
  PROVE  RunInv'
<1>1. CASE ClaimTool \/ UNCHANGED pvarsAll
  BY <1>1 DEF ClaimTool, pvarsAll, pvars, RunInv, Running
<1>2. ASSUME NEW k \in CallId, NEW p \in Principals, NEW r \in ReqId,
             NEW c \in DOMAIN claims, NEW S \in Scopes, NEW s \in Servers,
             NEW only \in BOOLEAN, Check(k, p, r, c, S, s, only)
      PROVE  RunInv'
  BY <1>2, RunCheck
<1>3. ASSUME NEW k \in CallId, NEW p \in Principals, NEW r \in ReqId,
             NEW s \in Servers, Rejoin(k, p, r, s)
      PROVE  RunInv'
  <2>1. PICK row : /\ calls' = WithRow(calls, k, row)
                   /\ row.phase \in {"waiting", "done"}
    BY <1>3 DEF Rejoin, NewCall
  <2>2. UNCHANGED busy
    BY <1>3 DEF Rejoin
  <2>. QED
    BY <2>1, <2>2, RunAdded
<1>4. ASSUME NEW k \in DOMAIN calls, Insert(k)
      PROVE  RunInv'
  <2>1. PICK ph \in {"done", "waiting"} : Moved(k, ph)
    BY <1>4, MovedBy DEF Insert
  <2>2. Running(k) /\ busy' = [busy EXCEPT ![calls[k].server] = 0]
    BY <1>4 DEF Insert, Running
  <2>. QED
    BY <2>1, <2>2, RunEnd
<1>5. ASSUME NEW k \in DOMAIN calls, Poll(k)
      PROVE  RunInv'
  BY <1>5, MovedBy, RunMoved DEF Poll, Settle
<1>6. ASSUME NEW k \in DOMAIN calls, Timeout(k)
      PROVE  RunInv'
  BY <1>6, RunTimeout
<1>7. ASSUME NEW k \in DOMAIN calls, Expire(k)
      PROVE  RunInv'
  <2>1. Moved(k, "done")
    BY <1>7, MovedBy DEF Expire
  <2>2. Running(k) /\ busy' = [busy EXCEPT ![calls[k].server] = 0]
    BY <1>7 DEF Expire, Running
  <2>. QED
    BY <2>1, <2>2, RunEnd
<1>8. ASSUME NEW p \in Principals, NEW r \in ReqId, NEW s \in Servers,
             Deny(p, r, s) \/ Accept(p, r, s)
      PROVE  RunInv'
  BY <1>8, RunWake DEF Deny, Accept
<1>9. ASSUME NEW s \in Servers, Restart(s)
      PROVE  RunInv'
  BY <1>9, RunRestart
<1>. QED
  BY <1>1, <1>2, <1>3, <1>4, <1>5, <1>6, <1>7, <1>8, <1>9 DEF PermissionNext

-----------------------------------------------------------------------------
(***************************************************************************)
(* The cap.                                                                *)
(***************************************************************************)

OneServer == \A s, t \in Servers : s = t

\* The calls between their count of open requests and their transaction.
Checked == {k \in DOMAIN calls : calls[k].phase = "checked"}

\* Each of them may find that others opened requests since it counted; there is
\* one for each process at most.
RoomInv ==
  /\ IsFiniteSet(OpenRequests) /\ IsFiniteSet(Checked)
  /\ OpenRequests # {} \/ Checked # {} =>
       Cardinality(OpenRequests) + Cardinality(Checked) < Cap + Cardinality(Servers)

LEMMA CheckedFinite ==
  ASSUME PermissionInv
  PROVE  IsFiniteSet(Checked)
<1>1. IsFiniteSet(CallId)
  BY RequestAssumption, FS_Interval DEF CallId
<1>. QED
  BY <1>1, FS_Subset DEF PermissionInv, PermissionTypeOK, Checked

\* A process runs one handler at a time.
LEMMA CheckedFew ==
  ASSUME IsFiniteSet(Servers), PermissionInv', RunInv'
  PROVE  IsFiniteSet(Checked') /\ Cardinality(Checked') <= Cardinality(Servers)
<1>1. IsFiniteSet(Checked')
  <2>1. IsFiniteSet(CallId)
    BY RequestAssumption, FS_Interval DEF CallId
  <2>2. Checked' \subseteq CallId
    BY DEF PermissionInv, PermissionTypeOK, Checked
  <2>. QED
    BY <2>1, <2>2, FS_Subset
<1> DEFINE f == [k \in Checked' |-> calls'[k].server]
<1>2. f \in [Checked' -> Servers]
  BY DEF PermissionInv, PermissionTypeOK, Checked, Call
<1>3. ASSUME NEW k \in Checked', NEW l \in Checked', f[k] = f[l]
      PROVE  k = l
  BY <1>3 DEF RunInv, Running, Checked
<1>4. ~ (Cardinality(Servers) < Cardinality(Checked'))
  <2> HIDE DEF f
  <2>. QED
    BY <1>1, <1>2, <1>3, FS_PigeonHole
<1>5. Cardinality(Servers) \in Nat /\ Cardinality(Checked') \in Nat
  BY <1>1, FS_CardinalityType
<1>. QED
  BY <1>1, <1>4, <1>5

LEMMA RoomFewer ==
  ASSUME IsFiniteSet(Servers), RoomInv,
         OpenRequests' \subseteq OpenRequests, Checked' \subseteq Checked
  PROVE  RoomInv'
<1>1. /\ IsFiniteSet(OpenRequests')
      /\ Cardinality(OpenRequests') <= Cardinality(OpenRequests)
      /\ Cardinality(OpenRequests) \in Nat /\ Cardinality(OpenRequests') \in Nat
  BY FS_Subset, FS_CardinalityType DEF RoomInv
<1>2. /\ IsFiniteSet(Checked') /\ Cardinality(Checked') <= Cardinality(Checked)
      /\ Cardinality(Checked) \in Nat /\ Cardinality(Checked') \in Nat
  BY FS_Subset, FS_CardinalityType DEF RoomInv
<1>3. ASSUME OpenRequests' # {} \/ Checked' # {}
      PROVE  Cardinality(OpenRequests') + Cardinality(Checked')
               < Cap + Cardinality(Servers)
  <2>1. Cardinality(OpenRequests) + Cardinality(Checked) < Cap + Cardinality(Servers)
    BY <1>3 DEF RoomInv
  <2>2. Cap \in Nat /\ Cardinality(Servers) \in Nat
    BY RequestAssumption, FS_CardinalityType
  <2>. QED
    BY <1>1, <1>2, <2>1, <2>2
<1>. QED
  BY <1>1, <1>2, <1>3 DEF RoomInv

\* Resolution events open no request.
LEMMA ResolvedFewer ==
  ASSUME PermissionInv, NEW r, NEW status \in Status \ {"open"}, NEW c,
         requests' = Resolved(r, status, c)
  PROVE  OpenRequests' \subseteq OpenRequests
<1>1. DOMAIN requests' = DOMAIN requests
  BY ResolvedRows
<1>2. \A i \in DOMAIN requests : requests[i] \in Request
  BY DEF PermissionInv, PermissionTypeOK
<1>3. ASSUME NEW i \in DOMAIN requests, requests'[i].status = "open"
      PROVE  requests[i].status = "open"
  <2>1. CASE r \in OpenRequests /\ i = r
    BY <1>2, <1>3, <2>1 DEF Resolved, Request
  <2>. QED
    BY <1>3, <2>1, ResolvedRows DEF Resolved
<1>. QED
  BY <1>1, <1>3 DEF OpenRequests

LEMMA MovedFewer ==
  ASSUME NEW k \in DOMAIN calls, NEW ph, Moved(k, ph), ph # "checked"
  PROVE  Checked' \subseteq Checked \ {k}
  BY DEF Moved, Checked

LEMMA RoomCheck ==
  ASSUME IsFiniteSet(Servers), PermissionInv', RunInv', RoomInv,
         NEW k \in CallId, NEW p, NEW r, NEW c, NEW S,
         NEW s \in Servers, NEW only, Check(k, p, r, c, S, s, only)
  PROVE  RoomInv'
<1>1. OpenRequests' = OpenRequests /\ Cardinality(OpenRequests) < Cap
  BY DEF Check, OpenRequests, HasRoom
<1>2. /\ IsFiniteSet(OpenRequests') /\ IsFiniteSet(Checked')
      /\ Cardinality(Checked') <= Cardinality(Servers)
  BY <1>1, CheckedFew DEF RoomInv
<1>3. /\ Cardinality(OpenRequests') \in Nat /\ Cardinality(Checked') \in Nat
      /\ Cardinality(Servers) \in Nat /\ Cap \in Nat
  BY <1>2, FS_CardinalityType, RequestAssumption
<1>4. Cardinality(OpenRequests') + Cardinality(Checked') < Cap + Cardinality(Servers)
  BY <1>1, <1>2, <1>3
<1>. QED
  BY <1>2, <1>4 DEF RoomInv

\* A transaction turns a call that was counted into a request.
LEMMA RoomInsert ==
  ASSUME IsFiniteSet(Servers), PermissionInv, RoomInv, NEW k \in DOMAIN calls, Insert(k)
  PROVE  RoomInv'
<1>1. PICK ph \in {"done", "waiting"} : Moved(k, ph)
  BY MovedBy DEF Insert
<1>2. Checked' \subseteq Checked \ {k} /\ k \in Checked
  BY <1>1, MovedFewer DEF Checked, Insert
<1>3. OpenRequests' \in {OpenRequests, OpenRequests \cup {calls[k].req}}
  <2>1. CASE UNCHANGED requests
    BY <2>1 DEF OpenRequests
  <2>2. ASSUME NEW row, row.status = "open", calls[k].req \notin DOMAIN requests,
               requests' = WithRow(requests, calls[k].req, row)
        PROVE  OpenRequests' = OpenRequests \cup {calls[k].req}
    BY <2>2 DEF OpenRequests, WithRow
  <2>. QED
    BY <2>1, <2>2 DEF Insert
<1>4. IsFiniteSet(OpenRequests) /\ IsFiniteSet(Checked)
  BY DEF RoomInv
<1>5. /\ IsFiniteSet(Checked') /\ Cardinality(Checked') \in Nat
      /\ Cardinality(Checked) \in Nat
      /\ Cardinality(Checked') <= Cardinality(Checked) - 1
  <2>1. /\ IsFiniteSet(Checked \ {k})
        /\ Cardinality(Checked \ {k}) = Cardinality(Checked) - 1
    BY <1>2, <1>4, FS_RemoveElement
  <2>2. IsFiniteSet(Checked') /\ Cardinality(Checked') <= Cardinality(Checked \ {k})
    BY <1>2, <2>1, FS_Subset
  <2>. QED
    BY <1>4, <2>1, <2>2, FS_CardinalityType
<1>6. /\ IsFiniteSet(OpenRequests') /\ Cardinality(OpenRequests') \in Nat
      /\ Cardinality(OpenRequests) \in Nat
      /\ Cardinality(OpenRequests') <= Cardinality(OpenRequests) + 1
  <2>1. Cardinality(OpenRequests) \in Nat
    BY <1>4, FS_CardinalityType
  <2>2. /\ IsFiniteSet(OpenRequests \cup {calls[k].req})
        /\ Cardinality(OpenRequests \cup {calls[k].req})
             \in {Cardinality(OpenRequests), Cardinality(OpenRequests) + 1}
    BY <1>4, FS_AddElement
  <2>. QED
    BY <1>3, <1>4, <2>1, <2>2
<1>7. Cardinality(OpenRequests) + Cardinality(Checked) < Cap + Cardinality(Servers)
  BY <1>2 DEF RoomInv
<1>8. Cap \in Nat /\ Cardinality(Servers) \in Nat
  BY RequestAssumption, FS_CardinalityType
<1>9. Cardinality(OpenRequests') + Cardinality(Checked') < Cap + Cardinality(Servers)
  BY <1>5, <1>6, <1>7, <1>8
<1>. QED
  BY <1>5, <1>6, <1>9 DEF RoomInv

LEMMA WakeFewer ==
  ASSUME PermissionInv, NEW s \in Servers, NEW r \in ReqId, NEW a, Wake(s, r, a)
  PROVE  Checked' \subseteq Checked
<1>1. wakers[s][r] \in DOMAIN calls \cup {0}
  BY DEF PermissionInv, PermissionTypeOK
<1>2. CASE UNCHANGED calls
  BY <1>2 DEF Checked
<1>3. CASE wakers[s][r] \in DOMAIN calls /\ Settle(wakers[s][r], a, "done")
  <2>1. Moved(wakers[s][r], "done")
    BY <1>3, MovedBy DEF Settle
  <2>. QED
    BY <1>3, <2>1, MovedFewer
<1>. QED
  BY <1>1, <1>2, <1>3 DEF Wake

LEMMA RoomStep ==
  ASSUME IsFiniteSet(Servers), PermissionInv, PermissionInv', RunInv', RoomInv,
         [PermissionNext]_pvarsAll
  PROVE  RoomInv'
<1>1. CASE ClaimTool \/ UNCHANGED pvarsAll
  BY <1>1 DEF ClaimTool, pvarsAll, pvars, RoomInv, OpenRequests, Checked
<1>2. ASSUME NEW k \in CallId, NEW p \in Principals, NEW r \in ReqId,
             NEW c \in DOMAIN claims, NEW S \in Scopes, NEW s \in Servers,
             NEW only \in BOOLEAN, Check(k, p, r, c, S, s, only)
      PROVE  RoomInv'
  BY <1>2, RoomCheck
<1>3. ASSUME UNCHANGED requests
      PROVE  OpenRequests' = OpenRequests
  BY <1>3 DEF OpenRequests
<1>4. ASSUME NEW k \in CallId, NEW p \in Principals, NEW r \in ReqId,
             NEW s \in Servers, Rejoin(k, p, r, s)
      PROVE  RoomInv'
  <2>1. Checked' \subseteq Checked
    BY <1>4 DEF Rejoin, NewCall, WithRow, Checked
  <2>. QED
    BY <1>3, <1>4, <2>1, RoomFewer DEF Rejoin
<1>5. ASSUME NEW k \in DOMAIN calls, Insert(k)
      PROVE  RoomInv'
  BY <1>5, RoomInsert
<1>6. ASSUME NEW k \in DOMAIN calls, Poll(k) \/ Timeout(k)
      PROVE  RoomInv'
  <2>1. PICK ph \in {"done", "late"} : Moved(k, ph)
    <3>1. PICK ph \in {"done", "late"} : \E a : Settle(k, a, ph)
      BY <1>6 DEF Poll, Timeout
    <3>. QED
      BY <3>1, MovedBy DEF Settle
  <2>2. UNCHANGED requests
    BY <1>6 DEF Poll, Timeout
  <2>. QED
    BY <1>3, <2>1, <2>2, MovedFewer, RoomFewer
<1>7. ASSUME NEW k \in DOMAIN calls, Expire(k)
      PROVE  RoomInv'
  <2>1. Moved(k, "done")
    BY <1>7, MovedBy DEF Expire
  <2>2. OpenRequests' \subseteq OpenRequests
    BY <1>7, ResolvedFewer DEF Expire, Status
  <2>. QED
    BY <2>1, <2>2, MovedFewer, RoomFewer
<1>8. ASSUME NEW p \in Principals, NEW r \in ReqId, NEW s \in Servers,
             Deny(p, r, s) \/ Accept(p, r, s)
      PROVE  RoomInv'
  <2>1. OpenRequests' \subseteq OpenRequests
    BY <1>8, ResolvedFewer DEF Deny, Accept, Status
  <2>2. Checked' \subseteq Checked
    BY <1>8, WakeFewer DEF Deny, Accept
  <2>. QED
    BY <2>1, <2>2, RoomFewer
<1>9. ASSUME NEW s \in Servers, Restart(s)
      PROVE  RoomInv'
  <2>1. \A l \in DOMAIN calls : calls[l] \in Call
    BY DEF PermissionInv, PermissionTypeOK
  <2>2. Checked' \subseteq Checked
    BY <1>9, <2>1 DEF Restart, Call, Checked
  <2>3. UNCHANGED requests
    BY <1>9 DEF Restart
  <2>. QED
    BY <1>3, <2>2, <2>3, RoomFewer
<1>. QED
  BY <1>1, <1>2, <1>4, <1>5, <1>6, <1>7, <1>8, <1>9 DEF PermissionNext

LEMMA RoomHolds ==
  ASSUME IsFiniteSet(Servers)
  PROVE  PermissionSpec => []RoomInv
<1>1. PermissionInit => RunInv /\ RoomInv
  <2>1. PermissionInit => OpenRequests = {} /\ Checked = {} /\ DOMAIN calls = {}
    BY DEF PermissionInit, OpenRequests, Checked, NoRows
  <2>. QED
    BY <2>1, FS_EmptySet DEF RunInv, RoomInv
<1>2. PermissionInv /\ [PermissionNext]_pvarsAll => PermissionInv'
  BY PermissionTypeStep
<1>3. PermissionInv /\ RunInv /\ [PermissionNext]_pvarsAll => RunInv'
  BY RunStep
<1>4. /\ PermissionInv /\ PermissionInv' /\ RunInv' /\ RoomInv
      /\ [PermissionNext]_pvarsAll
      => RoomInv'
  BY RoomStep
<1>. QED
  BY <1>1, <1>2, <1>3, <1>4, PermissionInvInit, PTL DEF PermissionSpec

\* The count of open requests is not in the transaction that opens one, so
\* processes may pass the cap together, but by one request less than there are
\* processes, however many members ask at once (permission-tools.ts:206).
CapNearly ==
  OpenRequests # {} =>
    Cardinality(OpenRequests) <= Cap + Cardinality(Servers) - 1

LEMMA RoomIsCap ==
  ASSUME IsFiniteSet(Servers), RoomInv
  PROVE  /\ CapNearly
         /\ Cardinality(Servers) <= 1 => CapHolds
<1>1. Cap \in Nat /\ Cardinality(Servers) \in Nat
  BY RequestAssumption, FS_CardinalityType
<1>2. Cardinality(OpenRequests) \in Nat /\ Cardinality(Checked) \in Nat
  BY FS_CardinalityType DEF RoomInv
<1>3. CASE OpenRequests = {}
  BY <1>1, <1>3, FS_EmptySet DEF CapNearly, CapHolds
<1>4. CASE OpenRequests # {}
  <2>1. Cardinality(OpenRequests) + Cardinality(Checked) < Cap + Cardinality(Servers)
    BY <1>4 DEF RoomInv
  <2>2. Cardinality(OpenRequests) <= Cap + Cardinality(Servers) - 1
    BY <1>1, <1>2, <2>1
  <2>. QED
    BY <1>1, <1>2, <2>2 DEF CapNearly, CapHolds
<1>. QED
  BY <1>3, <1>4

\* For any number of processes on the database the cap is passed by one request
\* less than there are processes, at most.
THEOREM CapNearlyHolds ==
  ASSUME IsFiniteSet(Servers)
  PROVE  PermissionSpec => []CapNearly
<1>1. RoomInv => CapNearly
  BY RoomIsCap
<1>. QED
  BY <1>1, RoomHolds, PTL

\* With one process the cap is upheld: the reads and the transaction of a call
\* are not interrupted by another handler.
THEOREM CapHoldsAlone == OneServer /\ PermissionSpec => []CapHolds
<1> SUFFICES ASSUME OneServer
             PROVE  PermissionSpec => []CapHolds
  OBVIOUS
<1>1. IsFiniteSet(Servers) /\ Cardinality(Servers) <= 1
  <2>1. CASE Servers = {}
    <3>1. IsFiniteSet({}) /\ Cardinality({}) = 0 /\ 0 <= 1
      BY FS_EmptySet
    <3>. QED
      BY <2>1, <3>1
  <2>2. CASE Servers # {}
    <3>1. PICK s \in Servers : Servers = {s}
      BY <2>2 DEF OneServer
    <3>2. IsFiniteSet({s}) /\ Cardinality({s}) = 1 /\ 1 <= 1
      BY FS_Singleton
    <3>. QED
      BY <3>1, <3>2
  <2>. QED
    BY <2>1, <2>2
<1>2. RoomInv => CapHolds
  BY <1>1, RoomIsCap
<1>3. PermissionSpec => []RoomInv
  BY <1>1, RoomHolds
<1>. QED
  BY <1>2, <1>3, PTL

-----------------------------------------------------------------------------
(***************************************************************************)
(* What a member is told, with one process and one call at a time for each *)
(* request.  A call that waits is the one its process would wake, so every *)
(* resolution of its request is told to it in the step that makes it; its  *)
(* own timer resolves the request before another handler can run.          *)
(***************************************************************************)

CallTold(k) ==
  LET call == calls[k]
      waker == wakers[call.server][call.req]
  IN  /\ call.phase = "waiting" => call.req \in OpenRequests /\ waker = k
      /\ call.phase = "late" =>
           /\ call.req \in OpenRequests /\ waker = 0
           /\ call.answer = "timeout"
      /\ call.phase = "done" /\ call.answer \in {"allow", "denied", "timeout"} =>
           /\ call.req \in DOMAIN requests \ OpenRequests
           /\ call.answer = Resolution(call.req)

Told == \A k \in DOMAIN calls : CallTold(k)

\* A waker belongs to a call that waits, in that process and for that request.
WakersWait ==
  \A s \in Servers, r \in ReqId :
    LET k == wakers[s][r]
    IN  k # 0 => calls[k].phase = "waiting" /\ calls[k].server = s /\ calls[k].req = r

CallsNumbered == DOMAIN calls = 1 .. Cardinality(DOMAIN calls)

ToldInv == CallsNumbered /\ WakersWait /\ Told

\* The number of a new call is new.
LEMMA NextCall ==
  ASSUME PermissionInv, CallsNumbered, NEW k, k = Cardinality(DOMAIN calls) + 1
  PROVE  /\ k \notin DOMAIN calls /\ k # 0
         /\ \A row : calls' = WithRow(calls, k, row) => CallsNumbered'
<1> DEFINE n == Cardinality(DOMAIN calls)
<1>1. IsFiniteSet(DOMAIN calls)
  <2>1. IsFiniteSet(CallId)
    BY RequestAssumption, FS_Interval DEF CallId
  <2>. QED
    BY <2>1, FS_Subset DEF PermissionInv, PermissionTypeOK
<1>2. n \in Nat
  BY <1>1, FS_CardinalityType
<1>3. DOMAIN calls = 1 .. n
  BY DEF CallsNumbered
<1> HIDE DEF n
<1>4. k = n + 1
  BY DEF n
<1>5. k \notin DOMAIN calls /\ k # 0
  BY <1>2, <1>3, <1>4
<1>6. Cardinality(1 .. (n + 1)) = n + 1
  BY <1>2, FS_Interval
<1>7. DOMAIN calls \cup {k} = 1 .. (n + 1)
  BY <1>2, <1>3, <1>4
<1>8. ASSUME NEW row, calls' = WithRow(calls, k, row)
      PROVE  CallsNumbered'
  <2>1. DOMAIN calls' = 1 .. (n + 1)
    BY <1>7, <1>8 DEF WithRow
  <2>. QED
    BY <1>6, <2>1 DEF CallsNumbered
<1>. QED
  BY <1>5, <1>8

\* A call that a step leaves alone stays told of its request: a resolved row
\* does not change, and an open one has to stay open.
LEMMA ToldKept ==
  ASSUME [PermissionNext]_pvarsAll,
         NEW k \in DOMAIN calls, CallTold(k), calls'[k] = calls[k],
         calls[k].phase \in {"waiting", "late"} =>
           /\ calls[k].req \in OpenRequests'
           /\ wakers'[calls[k].server][calls[k].req]
                = wakers[calls[k].server][calls[k].req]
  PROVE  CallTold(k)'
<1>1. CASE calls[k].phase \in {"waiting", "late"}
  BY <1>1 DEF CallTold
<1>2. CASE calls[k].phase \notin {"waiting", "late"}
  <2>1. ASSUME calls[k].phase = "done", calls[k].answer \in {"allow", "denied", "timeout"}
        PROVE  /\ calls[k].req \in DOMAIN requests' \ OpenRequests'
               /\ requests'[calls[k].req] = requests[calls[k].req]
    BY <2>1, ResolvedKept DEF CallTold, OpenRequests
  <2>. QED
    BY <1>2, <2>1 DEF CallTold, Resolution
<1>. QED
  BY <1>1, <1>2

\* settle reaches one call and the waker of its request.
LEMMA Settles ==
  ASSUME PermissionInv, NEW k \in DOMAIN calls, NEW ph, NEW a, Settle(k, a, ph)
  PROVE  /\ DOMAIN calls' = DOMAIN calls
         /\ calls'[k].phase = ph /\ calls'[k].answer = a
         /\ calls'[k].req = calls[k].req /\ calls'[k].server = calls[k].server
         /\ \A l \in DOMAIN calls \ {k} : calls'[l] = calls[l]
         /\ wakers'[calls[k].server][calls[k].req] = 0
         /\ \A s \in Servers, r \in ReqId :
              s # calls[k].server \/ r # calls[k].req => wakers'[s][r] = wakers[s][r]
<1>1. calls \in [DOMAIN calls -> Call] /\ calls[k] \in Call
  BY DEF PermissionInv, PermissionTypeOK
<1>2. calls' = [calls EXCEPT ![k] = [calls[k] EXCEPT !.phase = ph, !.answer = a]]
  BY DEF Settle
<1>3. /\ DOMAIN calls' = DOMAIN calls
      /\ calls'[k] = [calls[k] EXCEPT !.phase = ph, !.answer = a]
      /\ \A l \in DOMAIN calls \ {k} : calls'[l] = calls[l]
  BY <1>1, <1>2
<1>4. /\ calls'[k].phase = ph /\ calls'[k].answer = a
      /\ calls'[k].req = calls[k].req /\ calls'[k].server = calls[k].server
  BY <1>1, <1>3 DEF Call
<1>5. calls[k].server \in Servers /\ calls[k].req \in ReqId
  BY <1>1 DEF Call
<1>6. wakers \in [Servers -> [ReqId -> DOMAIN calls \cup {0}]]
  BY DEF PermissionInv, PermissionTypeOK
<1>7. wakers' = [wakers EXCEPT ![calls[k].server][calls[k].req] = 0]
  BY DEF Settle
<1>. QED
  BY <1>3, <1>4, <1>5, <1>6, <1>7

\* With one process, no other call waits for the request of a call whose waker
\* is listed, or of one whose waker is gone.
LEMMA WaitsAlone ==
  ASSUME OneServer, PermissionInv, Told, NEW s \in Servers, NEW r,
         NEW l \in DOMAIN calls, calls[l].phase = "waiting", calls[l].req = r
  PROVE  wakers[s][r] = l /\ calls[l].server = s
<1>1. calls[l].server \in Servers
  BY DEF PermissionInv, PermissionTypeOK, Call
<1>2. calls[l].server = s
  BY <1>1 DEF OneServer
<1>. QED
  BY <1>2 DEF Told, CallTold

\* While a handler of the one process runs, it is the only one.
LEMMA RunsAlone ==
  ASSUME OneServer, PermissionInv, RunInv, NEW k \in DOMAIN calls, Running(k),
         NEW l \in DOMAIN calls, Running(l)
  PROVE  k = l
<1>1. calls[k].server \in Servers /\ calls[l].server \in Servers
  BY DEF PermissionInv, PermissionTypeOK, Call
<1>. QED
  BY <1>1 DEF OneServer, RunInv

LEMMA IdleNoneRuns ==
  ASSUME OneServer, PermissionInv, RunInv, NEW s \in Servers, Idle(s),
         NEW l \in DOMAIN calls
  PROVE  ~ Running(l)
<1>1. calls[l].server \in Servers
  BY DEF PermissionInv, PermissionTypeOK, Call
<1>. QED
  BY <1>1, NoneRuns DEF OneServer

LEMMA ToldCheck ==
  ASSUME PermissionInv, ToldInv, [PermissionNext]_pvarsAll,
         NEW k \in CallId, NEW p, NEW r, NEW c, NEW S,
         NEW s \in Servers, NEW only, Check(k, p, r, c, S, s, only)
  PROVE  ToldInv'
<1>1. PICK row : calls' = WithRow(calls, k, row) /\ row.phase = "checked"
  BY DEF Check, NewCall
<1>2. k \notin DOMAIN calls /\ k # 0 /\ CallsNumbered'
  BY <1>1, NextCall DEF Check, ToldInv
<1>3. /\ DOMAIN calls' = DOMAIN calls \cup {k} /\ calls'[k] = row
      /\ \A l \in DOMAIN calls : calls'[l] = calls[l]
  BY <1>1, <1>2 DEF WithRow
<1>4. UNCHANGED <<requests, wakers>> /\ OpenRequests' = OpenRequests
  BY DEF Check, OpenRequests
<1>5. WakersWait'
  <2>1. \A t \in Servers, i \in ReqId : wakers[t][i] \in DOMAIN calls \cup {0}
    BY DEF PermissionInv, PermissionTypeOK
  <2>. QED
    BY <1>3, <1>4, <2>1 DEF ToldInv, WakersWait
<1>6. CallTold(k)'
  BY <1>1, <1>3 DEF CallTold
<1>7. ASSUME NEW l \in DOMAIN calls
      PROVE  CallTold(l)'
  <2>1. CallTold(l)
    BY DEF ToldInv, Told
  <2>. QED
    BY <1>3, <1>4, <2>1, ToldKept DEF CallTold
<1>. QED
  BY <1>2, <1>3, <1>5, <1>6, <1>7 DEF ToldInv, Told

LEMMA ToldRejoin ==
  ASSUME OneServer, MaxWaiters = 1, PermissionInv, RunInv, ToldInv,
         [PermissionNext]_pvarsAll,
         NEW k \in CallId, NEW p, NEW r \in ReqId, NEW s \in Servers,
         Rejoin(k, p, r, s)
  PROVE  ToldInv'
<1>1. UNCHANGED requests /\ OpenRequests' = OpenRequests
  BY DEF Rejoin, OpenRequests
<1>2. PICK row : /\ calls' = WithRow(calls, k, row)
                 /\ row.req = r /\ row.server = s
                 /\ \/ /\ r \in DOMAIN requests \ OpenRequests
                       /\ row.phase = "done" /\ row.answer = Resolution(r)
                       /\ UNCHANGED wakers
                    \/ /\ r \in OpenRequests /\ row.phase = "waiting"
                       /\ wakers' = [wakers EXCEPT ![s][r] = k]
  BY DEF Rejoin, NewCall
<1>3. k \notin DOMAIN calls /\ k # 0 /\ CallsNumbered'
  BY <1>2, NextCall DEF Rejoin, ToldInv
<1>4. /\ DOMAIN calls' = DOMAIN calls \cup {k} /\ calls'[k] = row
      /\ \A l \in DOMAIN calls : calls'[l] = calls[l]
  BY <1>2, <1>3 DEF WithRow
<1>5. wakers \in [Servers -> [ReqId -> DOMAIN calls \cup {0}]]
  BY DEF PermissionInv, PermissionTypeOK
<1>6. \A l \in DOMAIN calls :
        calls[l].phase # "late" /\ ~ (calls[l].phase = "waiting" /\ calls[l].req = r)
  <2>1. WaitingOn(r) = {}
    <3>1. IsFiniteSet(WaitingOn(r))
      <4>1. IsFiniteSet(CallId)
        BY RequestAssumption, FS_Interval DEF CallId
      <4>2. WaitingOn(r) \subseteq CallId
        BY DEF PermissionInv, PermissionTypeOK, WaitingOn
      <4>. QED
        BY <4>1, <4>2, FS_Subset
    <3>2. Cardinality(WaitingOn(r)) \in Nat /\ Cardinality(WaitingOn(r)) < 1
      BY <3>1, FS_CardinalityType DEF Rejoin
    <3>3. Cardinality(WaitingOn(r)) = 0
      BY <3>2
    <3>. QED
      BY <3>1, <3>3, FS_EmptySet
  <2>2. \A l \in DOMAIN calls : ~ Running(l)
    BY IdleNoneRuns DEF Rejoin
  <2>. QED
    BY <2>1, <2>2 DEF WaitingOn, Running
<1>7. \A t \in Servers, i \in ReqId :
        wakers'[t][i] = wakers[t][i] \/ (t = s /\ i = r /\ wakers'[t][i] = k)
  BY <1>2, <1>5
<1>8. WakersWait'
  <2> SUFFICES ASSUME NEW t \in Servers, NEW i \in ReqId, wakers'[t][i] # 0
               PROVE  LET l == wakers'[t][i]
                      IN  calls'[l].phase = "waiting" /\ calls'[l].server = t /\ calls'[l].req = i
    BY DEF WakersWait
  <2>1. CASE wakers'[t][i] = wakers[t][i]
    <3>1. wakers[t][i] \in DOMAIN calls
      BY <1>5, <2>1
    <3>. QED
      BY <1>4, <2>1, <3>1 DEF ToldInv, WakersWait
  <2>2. CASE wakers'[t][i] # wakers[t][i]
    <3>1. t = s /\ i = r /\ wakers'[t][i] = k
      BY <1>7, <2>2
    <3>2. row.phase = "waiting"
      BY <1>2, <2>2
    <3>. QED
      BY <1>2, <1>4, <3>1, <3>2
  <2>. QED
    BY <2>1, <2>2
<1>9. CallTold(k)'
  <2>1. CASE row.phase = "waiting"
    <3>1. wakers'[s][r] = k
      BY <1>2, <1>5, <2>1
    <3>. QED
      BY <1>1, <1>2, <1>4, <2>1, <3>1 DEF CallTold
  <2>2. CASE row.phase = "done"
    <3>1. Resolution(r)' = Resolution(r)
      BY <1>1 DEF Resolution
    <3>. QED
      BY <1>1, <1>2, <1>4, <2>2, <3>1 DEF CallTold
  <2>. QED
    BY <1>2, <2>1, <2>2
<1>10. ASSUME NEW l \in DOMAIN calls
       PROVE  CallTold(l)'
  <2>1. CallTold(l)
    BY DEF ToldInv, Told
  <2>2. calls[l].server \in Servers /\ calls[l].req \in ReqId
    BY DEF PermissionInv, PermissionTypeOK, Call
  <2>3. ASSUME calls[l].phase \in {"waiting", "late"}
        PROVE  /\ calls[l].req \in OpenRequests'
               /\ wakers'[calls[l].server][calls[l].req]
                    = wakers[calls[l].server][calls[l].req]
    BY <1>1, <1>6, <1>7, <2>1, <2>2, <2>3 DEF CallTold
  <2>. QED
    BY <1>4, <2>1, <2>3, ToldKept
<1>. QED
  BY <1>3, <1>4, <1>8, <1>9, <1>10 DEF ToldInv, Told

\* What the transaction of a call makes of it.
LEMMA InsertedAs ==
  ASSUME PermissionInv, NEW k \in DOMAIN calls, Insert(k)
  PROVE  LET s == calls[k].server
             r == calls[k].req
         IN  /\ DOMAIN calls' = DOMAIN calls
             /\ \A l \in DOMAIN calls \ {k} : calls'[l] = calls[l]
             /\ calls'[k].req = r /\ calls'[k].server = s
             /\ \/ /\ calls'[k].phase = "done"
                   /\ calls'[k].answer \in {"error", "pending"}
                   /\ UNCHANGED wakers
                \/ /\ calls'[k].phase = "waiting"
                   /\ r \notin DOMAIN requests /\ r \in OpenRequests'
                   /\ wakers' = [wakers EXCEPT ![s][r] = k]
             /\ OpenRequests \subseteq OpenRequests'
<1> DEFINE s == calls[k].server
           r == calls[k].req
<1>1. calls \in [DOMAIN calls -> Call] /\ calls[k] \in Call
  BY DEF PermissionInv, PermissionTypeOK
<1>2. ASSUME NEW a, calls' = [calls EXCEPT ![k].phase = "done", ![k].answer = a]
      PROVE  /\ DOMAIN calls' = DOMAIN calls
             /\ \A l \in DOMAIN calls \ {k} : calls'[l] = calls[l]
             /\ calls'[k].req = r /\ calls'[k].server = s
             /\ calls'[k].phase = "done" /\ calls'[k].answer = a
  BY <1>1, <1>2 DEF Call
<1>3. ASSUME calls' = [calls EXCEPT ![k].phase = "waiting"]
      PROVE  /\ DOMAIN calls' = DOMAIN calls
             /\ \A l \in DOMAIN calls \ {k} : calls'[l] = calls[l]
             /\ calls'[k].req = r /\ calls'[k].server = s
             /\ calls'[k].phase = "waiting"
  BY <1>1, <1>3 DEF Call
<1>4. ASSUME NEW row, row.status = "open", r \notin DOMAIN requests,
             requests' = WithRow(requests, r, row)
      PROVE  r \in OpenRequests' /\ OpenRequests \subseteq OpenRequests'
  BY <1>4 DEF WithRow, OpenRequests
<1>5. CASE /\ UNCHANGED <<requests, wakers>>
           /\ calls' = [calls EXCEPT ![k].phase = "done", ![k].answer = "error"]
  BY <1>2, <1>5 DEF OpenRequests
<1>6. CASE /\ UNCHANGED wakers /\ OpenRequests \subseteq OpenRequests'
           /\ calls' = [calls EXCEPT ![k].phase = "done", ![k].answer = "pending"]
  BY <1>2, <1>6
<1>7. CASE /\ r \notin DOMAIN requests /\ r \in OpenRequests'
           /\ OpenRequests \subseteq OpenRequests'
           /\ calls' = [calls EXCEPT ![k].phase = "waiting"]
           /\ wakers' = [wakers EXCEPT ![s][r] = k]
  BY <1>3, <1>7
<1>. QED
  BY <1>4, <1>5, <1>6, <1>7 DEF Insert

LEMMA ToldInsert ==
  ASSUME OneServer, PermissionInv, RunInv, ToldInv, [PermissionNext]_pvarsAll,
         NEW k \in DOMAIN calls, Insert(k)
  PROVE  ToldInv'
<1>1. PICK s \in Servers, r \in ReqId :
        /\ s = calls[k].server /\ r = calls[k].req
        /\ calls[k].phase = "checked" /\ k # 0
  BY RequestAssumption DEF Insert, PermissionInv, PermissionTypeOK, Call, CallId
<1>2. wakers \in [Servers -> [ReqId -> DOMAIN calls \cup {0}]]
  BY DEF PermissionInv, PermissionTypeOK
<1>3. /\ DOMAIN calls' = DOMAIN calls
      /\ \A l \in DOMAIN calls \ {k} : calls'[l] = calls[l]
      /\ calls'[k].req = r /\ calls'[k].server = s
      /\ \/ /\ calls'[k].phase = "done"
            /\ calls'[k].answer \in {"error", "pending"}
            /\ UNCHANGED wakers
         \/ /\ calls'[k].phase = "waiting"
            /\ r \notin DOMAIN requests /\ r \in OpenRequests'
            /\ wakers' = [wakers EXCEPT ![s][r] = k]
      /\ OpenRequests \subseteq OpenRequests'
  BY <1>1, InsertedAs
<1>4. ASSUME NEW l \in DOMAIN calls
      PROVE  calls[l].phase # "late"
  <2>1. Running(k) /\ (calls[l].phase = "late" => Running(l))
    BY <1>1 DEF Running
  <2>. QED
    BY <1>1, <2>1, RunsAlone
<1>5. \A t \in Servers, i \in ReqId :
        \/ wakers'[t][i] = wakers[t][i]
        \/ /\ t = s /\ i = r /\ wakers'[t][i] = k
           /\ calls'[k].phase = "waiting" /\ r \notin DOMAIN requests
  BY <1>2, <1>3
<1>6. WakersWait'
  <2> SUFFICES ASSUME NEW t \in Servers, NEW i \in ReqId, wakers'[t][i] # 0
               PROVE  LET l == wakers'[t][i]
                      IN  calls'[l].phase = "waiting" /\ calls'[l].server = t /\ calls'[l].req = i
    BY DEF WakersWait
  <2>1. CASE wakers'[t][i] = wakers[t][i]
    <3>1. wakers[t][i] \in DOMAIN calls
      BY <1>2, <2>1
    <3>2. LET l == wakers[t][i]
          IN  calls[l].phase = "waiting" /\ calls[l].server = t /\ calls[l].req = i
      BY <2>1 DEF ToldInv, WakersWait
    <3>3. wakers[t][i] # k
      BY <1>1, <3>2
    <3>. QED
      BY <1>3, <2>1, <3>1, <3>2, <3>3
  <2>2. CASE wakers'[t][i] # wakers[t][i]
    BY <1>3, <1>5, <2>2
  <2>. QED
    BY <2>1, <2>2
<1>7. CallTold(k)'
  <2>1. CASE calls'[k].phase = "done"
    BY <1>3, <2>1 DEF CallTold
  <2>2. CASE calls'[k].phase = "waiting"
    <3>1. wakers'[s][r] = k /\ r \in OpenRequests'
      BY <1>2, <1>3, <2>2
    <3>. QED
      BY <1>3, <2>2, <3>1 DEF CallTold
  <2>. QED
    BY <1>3, <2>1, <2>2
<1>8. ASSUME NEW l \in DOMAIN calls, l # k
      PROVE  CallTold(l)'
  <2>1. CallTold(l)
    BY DEF ToldInv, Told
  <2>2. calls[l].server \in Servers /\ calls[l].req \in ReqId
    BY DEF PermissionInv, PermissionTypeOK, Call
  <2>3. ASSUME calls[l].phase \in {"waiting", "late"}
        PROVE  /\ calls[l].req \in OpenRequests'
               /\ wakers'[calls[l].server][calls[l].req]
                    = wakers[calls[l].server][calls[l].req]
    <3>1. calls[l].req \in OpenRequests
      BY <1>4, <2>1, <2>3 DEF CallTold
    <3>2. calls[l].req \in DOMAIN requests
      BY <3>1 DEF OpenRequests
    <3>. QED
      BY <1>3, <1>5, <2>2, <3>1, <3>2
  <2>. QED
    BY <1>3, <1>8, <2>1, <2>3, ToldKept
<1>9. CallsNumbered'
  BY <1>3 DEF ToldInv, CallsNumbered
<1>. QED
  BY <1>3, <1>6, <1>7, <1>8, <1>9 DEF ToldInv, Told

\* The timer fires while the row is open, and no other call waits for it.
LEMMA ToldTimeout ==
  ASSUME OneServer, PermissionInv, RunInv, ToldInv, [PermissionNext]_pvarsAll,
         NEW k \in DOMAIN calls, Timeout(k)
  PROVE  ToldInv'
<1>1. PICK s \in Servers, r \in ReqId :
        /\ s = calls[k].server /\ r = calls[k].req
        /\ calls[k].phase = "waiting" /\ r \in OpenRequests
  BY DEF Timeout, TimerIsUp, PermissionInv, PermissionTypeOK, Call, ToldInv, Told, CallTold
<1>2. Settle(k, "timeout", "late") /\ UNCHANGED requests /\ Idle(s)
  BY <1>1 DEF Timeout
<1>3. OpenRequests' = OpenRequests
  BY <1>2 DEF OpenRequests
<1>4. /\ DOMAIN calls' = DOMAIN calls
      /\ calls'[k].phase = "late" /\ calls'[k].answer = "timeout"
      /\ calls'[k].req = r /\ calls'[k].server = s
      /\ \A l \in DOMAIN calls \ {k} : calls'[l] = calls[l]
      /\ wakers'[s][r] = 0
      /\ \A t \in Servers, i \in ReqId :
           t # s \/ i # r => wakers'[t][i] = wakers[t][i]
  BY <1>1, <1>2, Settles
<1>5. WakersWait'
  <2> SUFFICES ASSUME NEW t \in Servers, NEW i \in ReqId, wakers'[t][i] # 0
               PROVE  LET l == wakers'[t][i]
                      IN  calls'[l].phase = "waiting" /\ calls'[l].server = t /\ calls'[l].req = i
    BY DEF WakersWait
  <2>1. wakers'[t][i] = wakers[t][i] /\ (t # s \/ i # r)
    BY <1>4
  <2>2. LET l == wakers[t][i]
        IN  /\ l \in DOMAIN calls
            /\ calls[l].phase = "waiting" /\ calls[l].server = t /\ calls[l].req = i
    BY <2>1 DEF ToldInv, WakersWait, PermissionInv, PermissionTypeOK
  <2>3. wakers[t][i] # k
    BY <1>1, <2>1, <2>2
  <2>. QED
    BY <1>4, <2>1, <2>2, <2>3
<1>6. CallTold(k)'
  BY <1>1, <1>3, <1>4 DEF CallTold
<1>7. ASSUME NEW l \in DOMAIN calls, l # k
      PROVE  CallTold(l)'
  <2>1. CallTold(l)
    BY DEF ToldInv, Told
  <2>2. calls[l].server \in Servers /\ calls[l].req \in ReqId
    BY DEF PermissionInv, PermissionTypeOK, Call
  <2>3. ASSUME calls[l].phase \in {"waiting", "late"}
        PROVE  /\ calls[l].req \in OpenRequests'
               /\ wakers'[calls[l].server][calls[l].req]
                    = wakers[calls[l].server][calls[l].req]
    <3>1. calls[l].phase = "waiting"
      BY <1>2, <2>3, IdleNoneRuns DEF Running
    <3>2. wakers[calls[l].server][calls[l].req] = l /\ wakers[s][r] = k
      BY <1>1, <2>1, <3>1 DEF CallTold, ToldInv, Told
    <3>3. calls[l].server # s \/ calls[l].req # r
      BY <1>7, <3>2
    <3>. QED
      BY <1>3, <1>4, <2>1, <2>2, <3>1, <3>3 DEF CallTold
  <2>. QED
    BY <1>4, <1>7, <2>1, <2>3, ToldKept
<1>8. CallsNumbered'
  BY <1>4 DEF ToldInv, CallsNumbered
<1>. QED
  BY <1>4, <1>5, <1>6, <1>7, <1>8 DEF ToldInv, Told

\* A row that a resolution event reaches, and the rows it does not.
LEMMA ResolvedTo ==
  ASSUME PermissionInv, NEW r \in OpenRequests, NEW status, NEW c,
         status # "open", requests' = Resolved(r, status, c)
  PROVE  /\ r \in DOMAIN requests' \ OpenRequests'
         /\ Resolution(r)' = CASE status = "granted" -> "allow"
                               [] status = "denied" -> "denied"
                               [] OTHER -> "timeout"
         /\ \A i \in OpenRequests \ {r} : i \in OpenRequests'
<1>1. r \in DOMAIN requests /\ requests[r] \in Request
  BY DEF PermissionInv, PermissionTypeOK, OpenRequests
<1>2. /\ DOMAIN requests' = DOMAIN requests
      /\ \A i \in DOMAIN requests \ {r} : requests'[i] = requests[i]
  BY ResolvedRows
<1>3. requests'[r].status = status
  <2>1. requests'[r] = [requests[r] EXCEPT !.status = status, !.granted = c]
    BY <1>1 DEF Resolved, Request
  <2>. QED
    BY <1>1, <2>1 DEF Request
<1>4. r \in DOMAIN requests' \ OpenRequests'
  BY <1>1, <1>2, <1>3 DEF OpenRequests
<1>5. \A i \in OpenRequests \ {r} : i \in OpenRequests'
  BY <1>2 DEF OpenRequests
<1>6. Resolution(r)' = CASE status = "granted" -> "allow"
                         [] status = "denied" -> "denied"
                         [] OTHER -> "timeout"
  BY <1>3 DEF Resolution
<1>. QED
  BY <1>4, <1>5, <1>6

\* The expiry after the timer: what the call was told is what it makes true.
LEMMA ToldExpire ==
  ASSUME OneServer, PermissionInv, RunInv, ToldInv, [PermissionNext]_pvarsAll,
         NEW k \in DOMAIN calls, Expire(k)
  PROVE  ToldInv'
<1>1. calls \in [DOMAIN calls -> Call] /\ calls[k] \in Call
      /\ \A l \in DOMAIN calls : l # 0
  BY RequestAssumption DEF PermissionInv, PermissionTypeOK, CallId
<1>2. PICK s \in Servers, r \in ReqId :
        /\ s = calls[k].server /\ r = calls[k].req
        /\ calls[k].phase = "late" /\ calls[k].answer = "timeout"
        /\ r \in OpenRequests /\ wakers[s][r] = 0
  BY <1>1 DEF Expire, Call, ToldInv, Told, CallTold
<1>3. /\ DOMAIN calls' = DOMAIN calls
      /\ calls'[k].phase = "done" /\ calls'[k].answer = "timeout"
      /\ calls'[k].req = r
      /\ \A l \in DOMAIN calls \ {k} : calls'[l] = calls[l]
  <2>1. calls' = [calls EXCEPT ![k].phase = "done"]
    BY DEF Expire
  <2>. QED
    BY <1>1, <1>2, <2>1 DEF Call
<1>4. UNCHANGED wakers /\ requests' = Resolved(r, "expired", 0)
  BY <1>2 DEF Expire
<1>5. /\ r \in DOMAIN requests' \ OpenRequests' /\ Resolution(r)' = "timeout"
      /\ \A i \in OpenRequests \ {r} : i \in OpenRequests'
  <2>1. "expired" \notin {"open", "granted", "denied"}
    OBVIOUS
  <2>. QED
    BY <1>2, <1>4, <2>1, ResolvedTo
<1>6. WakersWait'
  <2> SUFFICES ASSUME NEW t \in Servers, NEW i \in ReqId, wakers'[t][i] # 0
               PROVE  LET l == wakers'[t][i]
                      IN  calls'[l].phase = "waiting" /\ calls'[l].server = t /\ calls'[l].req = i
    BY DEF WakersWait
  <2>1. LET l == wakers[t][i]
        IN  /\ l \in DOMAIN calls
            /\ calls[l].phase = "waiting" /\ calls[l].server = t /\ calls[l].req = i
    BY <1>4 DEF ToldInv, WakersWait, PermissionInv, PermissionTypeOK
  <2>2. wakers[t][i] # k
    BY <1>2, <2>1
  <2>. QED
    BY <1>3, <1>4, <2>1, <2>2
<1>7. CallTold(k)'
  BY <1>3, <1>5 DEF CallTold
<1>8. ASSUME NEW l \in DOMAIN calls, l # k
      PROVE  CallTold(l)'
  <2>1. CallTold(l)
    BY DEF ToldInv, Told
  <2>2. ASSUME calls[l].phase \in {"waiting", "late"}
        PROVE  calls[l].req \in OpenRequests'
    <3>1. calls[l].phase = "waiting"
      <4>1. Running(k) /\ (calls[l].phase = "late" => Running(l))
        BY <1>2 DEF Running
      <4>. QED
        BY <1>8, <2>2, <4>1, RunsAlone
    <3>2. calls[l].req # r
      BY <1>1, <1>2, <3>1, WaitsAlone DEF ToldInv
    <3>. QED
      BY <1>5, <2>1, <3>1, <3>2 DEF CallTold
  <2>. QED
    BY <1>3, <1>4, <1>8, <2>1, <2>2, ToldKept
<1>9. CallsNumbered'
  BY <1>3 DEF ToldInv, CallsNumbered
<1>. QED
  BY <1>3, <1>6, <1>7, <1>8, <1>9 DEF ToldInv, Told

\* An answer of the owner reaches the call that waits, if there is one.
LEMMA ToldAnswered ==
  ASSUME OneServer, PermissionInv, RunInv, ToldInv, [PermissionNext]_pvarsAll,
         NEW s \in Servers, NEW r \in ReqId, NEW status, NEW d, NEW a,
         Idle(s), r \in OpenRequests, requests' = Resolved(r, status, d),
         Wake(s, r, a),
         (status = "denied" /\ a = "denied") \/ (status = "granted" /\ a = "allow")
  PROVE  ToldInv'
<1>1. \A l \in DOMAIN calls : l # 0 /\ calls[l].phase # "late"
  BY RequestAssumption, IdleNoneRuns
     DEF PermissionInv, PermissionTypeOK, CallId, Running
<1>2. /\ r \in DOMAIN requests' \ OpenRequests' /\ Resolution(r)' = a
      /\ \A i \in OpenRequests \ {r} : i \in OpenRequests'
  <2>1. status # "open"
    OBVIOUS
  <2>2. a = CASE status = "granted" -> "allow"
              [] status = "denied" -> "denied"
              [] OTHER -> "timeout"
    OBVIOUS
  <2>. QED
    BY <2>1, <2>2, ResolvedTo
<1>3. wakers \in [Servers -> [ReqId -> DOMAIN calls \cup {0}]]
  BY DEF PermissionInv, PermissionTypeOK
<1>4. \A l \in DOMAIN calls :
        calls[l].phase = "waiting" /\ calls[l].req = r => wakers[s][r] = l
  BY WaitsAlone DEF ToldInv
<1>5. CASE wakers[s][r] = 0
  <2>1. UNCHANGED <<calls, wakers>>
    BY <1>5 DEF Wake
  <2>2. ASSUME NEW l \in DOMAIN calls
        PROVE  CallTold(l)'
    <3>1. CallTold(l)
      BY DEF ToldInv, Told
    <3>2. calls[l].phase \in {"waiting", "late"} => calls[l].req \in OpenRequests'
      BY <1>1, <1>2, <1>4, <1>5, <3>1 DEF CallTold
    <3>. QED
      BY <2>1, <3>1, <3>2, ToldKept
  <2>. QED
    BY <2>1, <2>2 DEF ToldInv, Told, CallsNumbered, WakersWait
<1>6. CASE wakers[s][r] # 0
  <2>1. PICK k \in DOMAIN calls : k = wakers[s][r]
    BY <1>3, <1>6
  <2>2. calls[k].phase = "waiting" /\ calls[k].server = s /\ calls[k].req = r
    BY <1>6, <2>1 DEF ToldInv, WakersWait
  <2>3. Settle(k, a, "done")
    BY <1>6, <2>1 DEF Wake
  <2>4. /\ DOMAIN calls' = DOMAIN calls
        /\ calls'[k].phase = "done" /\ calls'[k].answer = a /\ calls'[k].req = r
        /\ \A l \in DOMAIN calls \ {k} : calls'[l] = calls[l]
        /\ wakers'[s][r] = 0
        /\ \A t \in Servers, i \in ReqId :
             t # s \/ i # r => wakers'[t][i] = wakers[t][i]
    BY <2>2, <2>3, Settles
  <2>5. WakersWait'
    <3> SUFFICES ASSUME NEW t \in Servers, NEW i \in ReqId, wakers'[t][i] # 0
                 PROVE  LET l == wakers'[t][i]
                        IN  /\ calls'[l].phase = "waiting"
                            /\ calls'[l].server = t /\ calls'[l].req = i
      BY DEF WakersWait
    <3>1. wakers'[t][i] = wakers[t][i] /\ (t # s \/ i # r)
      BY <2>4
    <3>2. LET l == wakers[t][i]
          IN  /\ l \in DOMAIN calls
              /\ calls[l].phase = "waiting" /\ calls[l].server = t /\ calls[l].req = i
      BY <1>3, <3>1 DEF ToldInv, WakersWait
    <3>3. wakers[t][i] # k
      BY <2>2, <3>1, <3>2
    <3>. QED
      BY <2>4, <3>1, <3>2, <3>3
  <2>6. CallTold(k)'
    BY <1>2, <2>4 DEF CallTold
  <2>7. ASSUME NEW l \in DOMAIN calls, l # k
        PROVE  CallTold(l)'
    <3>1. CallTold(l)
      BY DEF ToldInv, Told
    <3>2. calls[l].server \in Servers /\ calls[l].req \in ReqId
      BY DEF PermissionInv, PermissionTypeOK, Call
    <3>3. ASSUME calls[l].phase \in {"waiting", "late"}
          PROVE  /\ calls[l].req \in OpenRequests'
                 /\ wakers'[calls[l].server][calls[l].req]
                      = wakers[calls[l].server][calls[l].req]
      <4>1. calls[l].phase = "waiting"
        BY <1>1, <3>3
      <4>2. calls[l].req # r
        BY <1>4, <2>1, <2>7, <4>1
      <4>. QED
        BY <1>2, <2>4, <3>1, <3>2, <4>1, <4>2 DEF CallTold
    <3>. QED
      BY <2>4, <2>7, <3>1, <3>3, ToldKept
  <2>8. CallsNumbered'
    BY <2>4 DEF ToldInv, CallsNumbered
  <2>. QED
    BY <2>4, <2>5, <2>6, <2>7, <2>8 DEF ToldInv, Told
<1>. QED
  BY <1>5, <1>6

\* A process that stops loses the calls it was to answer.
LEMMA ToldRestart ==
  ASSUME OneServer, PermissionInv, ToldInv, [PermissionNext]_pvarsAll,
         NEW s \in Servers, Restart(s)
  PROVE  ToldInv'
<1>1. \A l \in DOMAIN calls : calls[l] \in Call /\ calls[l].server = s
  BY DEF PermissionInv, PermissionTypeOK, Call, OneServer
<1>2. /\ DOMAIN calls' = DOMAIN calls
      /\ \A l \in DOMAIN calls :
           \/ calls[l].phase = "done" /\ calls'[l] = calls[l]
           \/ calls'[l].phase = "done" /\ calls'[l].answer = "lost"
  BY <1>1 DEF Restart, Call
<1>3. \A t \in Servers, r \in ReqId : wakers'[t][r] = 0
  BY DEF Restart, OneServer, PermissionInv, PermissionTypeOK
<1>4. ASSUME NEW l \in DOMAIN calls
      PROVE  CallTold(l)'
  <2>1. CASE calls[l].phase = "done" /\ calls'[l] = calls[l]
    <3>1. CallTold(l)
      BY DEF ToldInv, Told
    <3>. QED
      BY <2>1, <3>1, ToldKept
  <2>2. CASE calls'[l].phase = "done" /\ calls'[l].answer = "lost"
    BY <2>2 DEF CallTold
  <2>. QED
    BY <1>2, <2>1, <2>2
<1>. QED
  BY <1>2, <1>3, <1>4 DEF ToldInv, Told, CallsNumbered, WakersWait

LEMMA ToldStep ==
  ASSUME OneServer, MaxWaiters = 1, PermissionInv, RunInv, ToldInv,
         [PermissionNext]_pvarsAll
  PROVE  ToldInv'
<1>1. CASE ClaimTool \/ UNCHANGED pvarsAll
  <2>1. UNCHANGED <<requests, calls, wakers>> /\ OpenRequests' = OpenRequests
    BY <1>1 DEF ClaimTool, pvarsAll, pvars, OpenRequests
  <2>2. ASSUME NEW l \in DOMAIN calls
        PROVE  CallTold(l)'
    BY <2>1, ToldKept DEF ToldInv, Told, CallTold
  <2>. QED
    BY <2>1, <2>2 DEF ToldInv, Told, CallsNumbered, WakersWait
<1>2. ASSUME NEW k \in CallId, NEW p \in Principals, NEW r \in ReqId,
             NEW c \in DOMAIN claims, NEW S \in Scopes, NEW s \in Servers,
             NEW only \in BOOLEAN, Check(k, p, r, c, S, s, only)
      PROVE  ToldInv'
  BY <1>2, ToldCheck
<1>3. ASSUME NEW k \in CallId, NEW p \in Principals, NEW r \in ReqId,
             NEW s \in Servers, Rejoin(k, p, r, s)
      PROVE  ToldInv'
  BY <1>3, ToldRejoin
<1>4. ASSUME NEW k \in DOMAIN calls, Insert(k)
      PROVE  ToldInv'
  BY <1>4, ToldInsert
<1>5. ASSUME NEW k \in DOMAIN calls, Poll(k)
      PROVE  FALSE
  BY <1>5 DEF Poll, ToldInv, Told, CallTold
<1>6. ASSUME NEW k \in DOMAIN calls, Timeout(k)
      PROVE  ToldInv'
  BY <1>6, ToldTimeout
<1>7. ASSUME NEW k \in DOMAIN calls, Expire(k)
      PROVE  ToldInv'
  BY <1>7, ToldExpire
<1>8. ASSUME NEW p \in Principals, NEW r \in ReqId, NEW s \in Servers,
             Deny(p, r, s) \/ Accept(p, r, s)
      PROVE  ToldInv'
  <2>1. PICK status, d, a :
          /\ Idle(s) /\ r \in OpenRequests
          /\ requests' = Resolved(r, status, d) /\ Wake(s, r, a)
          /\ \/ status = "denied" /\ a = "denied"
             \/ status = "granted" /\ a = "allow"
    BY <1>8 DEF Deny, Accept
  <2>. QED
    BY <2>1, ToldAnswered
<1>9. ASSUME NEW s \in Servers, Restart(s)
      PROVE  ToldInv'
  BY <1>9, ToldRestart
<1>. QED
  BY <1>1, <1>2, <1>3, <1>4, <1>5, <1>6, <1>7, <1>8, <1>9 DEF PermissionNext

\* With one process, and no second call for a request another call is waiting
\* for, a member is told what was decided: nobody is told to skip while he was
\* granted the claim, and nobody is told of a grant that is not in the table,
\* whatever the order of timers, answers, restarts and the tools of claims.
THEOREM ToldWhatWasDecidedAlone ==
  ASSUME OneServer, MaxWaiters = 1
  PROVE  PermissionSpec => []ToldWhatWasDecided
<1>1. PermissionInit => RunInv /\ ToldInv
  <2>1. PermissionInit =>
          /\ DOMAIN calls = {}
          /\ \A s \in Servers, r \in ReqId : wakers[s][r] = 0
    BY DEF PermissionInit, NoRows
  <2>2. DOMAIN calls = {} => CallsNumbered
    <3>1. Cardinality({}) = 0 /\ 1 .. 0 = {}
      BY FS_EmptySet
    <3>. QED
      BY <3>1 DEF CallsNumbered
  <2>. QED
    BY <2>1, <2>2 DEF RunInv, ToldInv, Told, WakersWait
<1>2. PermissionInv /\ [PermissionNext]_pvarsAll => PermissionInv'
  BY PermissionTypeStep
<1>3. PermissionInv /\ RunInv /\ [PermissionNext]_pvarsAll => RunInv'
  BY RunStep
<1>4. PermissionInv /\ RunInv /\ ToldInv /\ [PermissionNext]_pvarsAll => ToldInv'
  BY ToldStep
<1>5. ToldInv => ToldWhatWasDecided
  BY DEF ToldInv, Told, CallTold, ToldWhatWasDecided
<1>. QED
  BY <1>1, <1>2, <1>3, <1>4, <1>5, PermissionInvInit, PTL DEF PermissionSpec
=============================================================================
