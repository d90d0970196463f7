----------------------------- MODULE Permission -----------------------------
(***************************************************************************)
(* Permission requests: a member asks the owner of a claim for some of its *)
(* patterns and waits for the answer in a long poll.  Composed with module *)
(* Claims, whose tools run beside it and whose table a grant writes.       *)
(*                                                                         *)
(* Several server processes may share the database.  A process runs one    *)
(* handler at a time and is interrupted only where the handler awaits;     *)
(* busy names the call whose handler a process is in the middle of.  Other *)
(* processes may write between the reads and the transaction of a handler. *)
(***************************************************************************)
EXTENDS Claims

CONSTANTS
  Servers,     \* processes on one database
  ReqId,       \* ids of permission requests
  Cap,         \* open requests allowed in the Space: max(20, 2 * members)
  GrantLease,  \* lifetime of a granted claim, in ticks (one hour)
  MaxCalls,    \* bound: calls of request_edit_permission
  MaxWaiters,  \* bound: calls waiting on one request at one time
  MaxTaken     \* bound: claims made by claim_scope, next to those of grants

CallId == 1 .. MaxCalls

ASSUME RequestAssumption ==
  /\ Cap \in Nat /\ GrantLease \in Nat \ {0}
  /\ MaxCalls \in Nat /\ MaxWaiters \in Nat /\ MaxTaken \in Nat
\* The claim of a grant is a row like the others.
ASSUME GrantAssumption == <<"", "">> \in Places /\ NoHead \in AcquiredAt

VARIABLES
  requests,  \* rows of permission_requests, with new_claim_id of the grant
  calls,     \* calls of request_edit_permission made so far
  wakers,    \* permissionWakers of each process: the call to wake, or 0
  busy       \* the call whose handler each process is running, or 0

pvars == <<requests, calls, wakers, busy>>

Status == {"open", "granted", "denied", "expired"}

Request ==
  [requester : Principals, incumbent : Principals, claim : ClaimId,
   paths : Scopes, status : Status, granted : ClaimId \cup {0}]

Answer == {"allow", "denied", "timeout", "pending", "error", "lost", "none"}

Phase == {"checked", "waiting", "late", "done"}

Call ==
  [by : Principals, req : ReqId, claim : ClaimId, paths : Scopes,
   incumbent : Principals, server : Servers, createOnly : BOOLEAN,
   phase : Phase, answer : Answer]

PermissionTypeOK ==
  /\ DOMAIN requests \subseteq ReqId
  /\ requests \in [DOMAIN requests -> Request]
  /\ \A r \in DOMAIN requests : requests[r].claim \in DOMAIN claims
  /\ DOMAIN calls \subseteq CallId
  /\ calls \in [DOMAIN calls -> Call]
  /\ \A k \in DOMAIN calls : calls[k].claim \in DOMAIN claims
  /\ wakers \in [Servers -> [ReqId -> DOMAIN calls \cup {0}]]
  /\ busy \in [Servers -> DOMAIN calls \cup {0}]

PermissionInit ==
  /\ Init
  /\ requests = NoRows
  /\ calls = NoRows
  /\ wakers = [s \in Servers |-> [r \in ReqId |-> 0]]
  /\ busy = [s \in Servers |-> 0]

Idle(s) == busy[s] = 0
OpenRequests == {r \in DOMAIN requests : requests[r].status = "open"}
WaitingOn(r) ==
  {k \in DOMAIN calls : calls[k].req = r /\ calls[k].phase = "waiting"}

-----------------------------------------------------------------------------
(***************************************************************************)
(* request_edit_permission.                                                *)
(***************************************************************************)

HasRoomForOneMore == Cardinality(OpenRequests) <= Cap
HasRoom == Cardinality(OpenRequests) < Cap

NewCall(k, p, r, c, S, o, s, only, phase, answer) ==
  calls' = WithRow(calls, k,
    [by |-> p, req |-> r, claim |-> c, paths |-> S, incumbent |-> o,
     server |-> s, createOnly |-> only, phase |-> phase, answer |-> answer])

\* The reads of a call for an id that has no row.  A call that fails one of
\* the checks is refused and changes nothing.
Check(k, p, r, c, S, s, only) ==
  /\ Idle(s) /\ k = Cardinality(DOMAIN calls) + 1
  /\ r \notin DOMAIN requests
  /\ c \in DOMAIN claims
  /\ claims[c].status = "active" /\ ~ claims[c].tombstoned
  /\ Overlap(claims[c].scope, S)
  /\ HasRoom
  /\ NewCall(k, p, r, c, S, claims[c].owner, s, only, "checked", "none")
  /\ busy' = [busy EXCEPT ![s] = k]
  /\ UNCHANGED <<requests, wakers>> /\ UNCHANGED vars

\* Its transaction.  The key of the event is made from the id of the request:
\* a row made meanwhile by another process fails the call.
Insert(k) ==
  LET call == calls[k]
      s == call.server
  IN  /\ call.phase = "checked"
      /\ busy' = [busy EXCEPT ![s] = 0]
      /\ \/ /\ call.req \in DOMAIN requests
            /\ calls' = [calls EXCEPT ![k].phase = "done", ![k].answer = "error"]
            /\ UNCHANGED <<requests, wakers>>
         \/ /\ call.req \notin DOMAIN requests
            /\ requests' = WithRow(requests, call.req,
                 [requester |-> call.by, incumbent |-> call.incumbent,
                  claim |-> call.claim, paths |-> call.paths,
                  status |-> "open", granted |-> 0])
            /\ IF call.createOnly
               THEN /\ calls' = [calls EXCEPT ![k].phase = "done",
                                              ![k].answer = "pending"]
                    /\ UNCHANGED wakers
               ELSE /\ calls' = [calls EXCEPT ![k].phase = "waiting"]
                    /\ wakers' = [wakers EXCEPT ![s][call.req] = k]
      /\ UNCHANGED vars

\* What the row says to a call: readPermissionResolutionFromProjection.
Resolution(r) ==
  CASE requests[r].status = "granted" -> "allow"
    [] requests[r].status = "denied"  -> "denied"
    [] OTHER                          -> "timeout"

\* A call for a request of the member's own that has a row.  Of a resolved one
\* it reads the answer; for an open one it waits as well, and takes the place
\* of an earlier call in the map of wakers.
Rejoin(k, p, r, s) ==
  LET q == requests[r]
      Joined(phase, answer) == NewCall(k, p, r, q.claim, q.paths, q.incumbent,
                                       s, FALSE, phase, answer)
  IN  /\ Idle(s) /\ k = Cardinality(DOMAIN calls) + 1
      /\ r \in DOMAIN requests /\ q.requester = p
      /\ Cardinality(WaitingOn(r)) < MaxWaiters    \* bound
      /\ \/ /\ r \notin OpenRequests
            /\ Joined("done", Resolution(r))
            /\ UNCHANGED wakers
         \/ /\ r \in OpenRequests
            /\ Joined("waiting", "none")
            /\ wakers' = [wakers EXCEPT ![s][r] = k]
      /\ UNCHANGED <<requests, busy>> /\ UNCHANGED vars

\* settle: the call is over, and the waker under its id goes, whosever it is.
Settle(k, answer, phase) ==
  /\ calls' = [calls EXCEPT ![k].phase = phase, ![k].answer = answer]
  /\ wakers' = [wakers EXCEPT ![calls[k].server][calls[k].req] = 0]

\* The poll of the row, every 250 ms.
Poll(k) ==
  /\ calls[k].phase = "waiting" /\ Idle(calls[k].server)
  /\ calls[k].req \notin OpenRequests
  /\ Settle(k, Resolution(calls[k].req), "done")
  /\ UNCHANGED <<requests, busy>> /\ UNCHANGED vars

\* The timer of 60 s.  It does not read the row: the call is answered with a
\* timeout, and goes on to expire the request if the row is still open.
TimerIsUpWhenResolved(k) ==
  calls[k].phase = "waiting" /\ calls[k].req \notin OpenRequests
TimerIsUp(k) == calls[k].phase = "waiting"

Timeout(k) ==
  /\ TimerIsUp(k) /\ Idle(calls[k].server)
  /\ IF calls[k].req \in OpenRequests
     THEN /\ Settle(k, "timeout", "late")
          /\ busy' = [busy EXCEPT ![calls[k].server] = k]
     ELSE Settle(k, "timeout", "done") /\ UNCHANGED busy
  /\ UNCHANGED requests /\ UNCHANGED vars

\* The projection of a resolution event leaves rows alone that are not open.
ResolvedAnyway(r, status, c) ==
  [requests EXCEPT ![r].status = status, ![r].granted = c]
Resolved(r, status, c) ==
  IF r \in OpenRequests
  THEN [requests EXCEPT ![r].status = status, ![r].granted = c]
  ELSE requests

Expire(k) ==
  /\ calls[k].phase = "late"
  /\ requests' = Resolved(calls[k].req, "expired", 0)
  /\ calls' = [calls EXCEPT ![k].phase = "done"]
  /\ busy' = [busy EXCEPT ![calls[k].server] = 0]
  /\ UNCHANGED wakers /\ UNCHANGED vars

-----------------------------------------------------------------------------
(***************************************************************************)
(* respond_permission_request: one transaction, in process s.              *)
(***************************************************************************)

\* The waker of the request in process s, if there is one.
WakeNobody(s, r, answer) == UNCHANGED <<calls, wakers>>
Wake(s, r, answer) ==
  LET k == wakers[s][r]
  IN  IF k = 0 THEN UNCHANGED <<calls, wakers>> ELSE Settle(k, answer, "done")

Deny(p, r, s) ==
  /\ Idle(s)
  /\ r \in OpenRequests /\ requests[r].incumbent = p
  /\ requests' = Resolved(r, "denied", 0)
  /\ Wake(s, r, "denied")
  /\ UNCHANGED busy /\ UNCHANGED vars

\* The claim is narrowed, or released when nothing is left of it, and the
\* requester gets a claim of its own: in its own context, without repository
\* and branch, on_commit with an expiry.  Neither the state of the narrowed
\* claim nor the other claims are looked at.
Accept(p, r, s) ==
  LET c == requests[r].claim
      d == Cardinality(DOMAIN claims) + 1
      kept == Kept(claims[c].scope, requests[r].paths)
      q == requests[r].requester
      narrowed == [claims EXCEPT ![c].scope = kept,
                     ![c].status = IF kept = {} THEN "released" ELSE @]
  IN  /\ Idle(s)
      /\ r \in OpenRequests /\ requests[r].incumbent = p
      /\ ~ claims[c].tombstoned /\ claims[c].owner = p
      /\ d \in ClaimId
      /\ claims' = WithRow(narrowed, d,
           GrantedRow(q, requests[r].paths, GrantLease))
      /\ ended' = IF kept = {} THEN ended \cup {<<c, "scope_released">>} ELSE ended
      /\ requests' = Resolved(r, "granted", d)
      /\ Wake(s, r, "allow")
      /\ UNCHANGED <<busy, keyed, unread, pending, sprintOf, now>>

-----------------------------------------------------------------------------

\* A process stops and starts again: its calls and its wakers are lost.
Restart(s) ==
  /\ \E k \in DOMAIN calls : calls[k].server = s /\ calls[k].phase # "done"
  /\ calls' = [k \in DOMAIN calls |->
       IF calls[k].server = s /\ calls[k].phase # "done"
       THEN [calls[k] EXCEPT !.phase = "done", !.answer = "lost"]
       ELSE calls[k]]
  /\ wakers' = [wakers EXCEPT ![s] = [r \in ReqId |-> 0]]
  /\ busy' = [busy EXCEPT ![s] = 0]
  /\ UNCHANGED requests /\ UNCHANGED vars

\* A tool of module Claims, in a process that runs no other handler.
ClaimTool ==
  /\ \E s \in Servers : Idle(s)
  /\ Next
  /\ Cardinality(DOMAIN claims' \ {requests[r].granted : r \in DOMAIN requests})
       <= MaxTaken                                 \* bound
  /\ UNCHANGED pvars

PermissionNext ==
  \/ ClaimTool
  \/ \E k \in CallId, p \in Principals, r \in ReqId, c \in DOMAIN claims,
        S \in Scopes, s \in Servers, only \in BOOLEAN :
       Check(k, p, r, c, S, s, only)
  \/ \E k \in CallId, p \in Principals, r \in ReqId, s \in Servers :
       Rejoin(k, p, r, s)
  \/ \E k \in DOMAIN calls : Insert(k)
  \/ \E k \in DOMAIN calls : Poll(k)
  \/ \E k \in DOMAIN calls : Timeout(k)
  \/ \E k \in DOMAIN calls : Expire(k)
  \/ \E p \in Principals, r \in ReqId, s \in Servers : Deny(p, r, s)
  \/ \E p \in Principals, r \in ReqId, s \in Servers : Accept(p, r, s)
  \/ \E s \in Servers : Restart(s)

pvarsAll == <<vars, pvars>>

PermissionSpec == PermissionInit /\ [][PermissionNext]_pvarsAll

\* A handler that runs goes on to its end, and timers fire.  Nobody has to
\* answer a request.
PermissionFairSpec ==
  /\ PermissionSpec
  /\ \A k \in CallId :
       /\ WF_pvarsAll(k \in DOMAIN calls /\ Insert(k))
       /\ WF_pvarsAll(k \in DOMAIN calls /\ Poll(k))
       /\ WF_pvarsAll(k \in DOMAIN calls /\ Timeout(k))
       /\ WF_pvarsAll(k \in DOMAIN calls /\ Expire(k))

-----------------------------------------------------------------------------
(***************************************************************************)
(* Properties.                                                             *)
(***************************************************************************)

\* A request is resolved once: when an answer, a timeout and the expiry of a
\* call in another process race, the first to reach the row decides and the
\* rest leave it alone (respondPermissionRequest, projection of the events).
ResolvedOnce ==
  [][\A r \in DOMAIN requests \ OpenRequests :
       r \in DOMAIN requests' /\ requests'[r] = requests[r]]_pvarsAll

\* The member is told what was decided: a call that is over had the answer
\* its row gives, and none is told to skip while it was granted the claim.
ToldWhatWasDecided ==
  \A k \in DOMAIN calls :
    calls[k].phase = "done" /\ calls[k].answer \in {"allow", "denied", "timeout"}
    => calls[k].answer = Resolution(calls[k].req) /\ calls[k].req \notin OpenRequests

\* apply-event.ts: the cap on open requests of a Space is upheld, however many
\* members ask at once.
CapHolds == Cardinality(OpenRequests) <= Cap

\* A grant splits the claim: as long as the request is in the table, the
\* claim it was about stays clear of every pattern that was handed over, also
\* when more is granted out of what was kept, or out of the grant itself.
SplitIsClean ==
  \A r \in DOMAIN requests :
    requests[r].status = "granted" =>
      ~ Overlap(claims[requests[r].claim].scope, requests[r].paths)

\* Every call is answered or lost with its process: two calls for one request
\* share one waker, and still none of them waits for ever.
CallsEnd ==
  \A k \in CallId : k \in DOMAIN calls ~> k \in DOMAIN calls /\ calls[k].phase = "done"
=============================================================================
