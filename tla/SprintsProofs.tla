--------------------------- MODULE SprintsProofs ----------------------------
(***************************************************************************)
(* Theorems about module Sprints: what ClaimsProofs proves of the claim    *)
(* tools still holds when Sprints are created, archived and reopened under *)
(* them, and an archived Sprint is empty.                                  *)
(***************************************************************************)
EXTENDS Sprints, ClaimsProofs

-----------------------------------------------------------------------------
(***************************************************************************)
(* A claim stays in its context, and a new one is in its owner's.          *)
(***************************************************************************)

KeepsContexts ==
  \A c \in DOMAIN claims' :
    \/ /\ c \in DOMAIN claims
       /\ claims'[c].sprint = claims[c].sprint
       /\ Visible(c)' => Visible(c)
    \/ \E p \in Principals : claims'[c].sprint = sprintOf[p]

LEMMA KeepsSame ==
  ASSUME UNCHANGED claims
  PROVE  KeepsContexts
  BY DEF KeepsContexts, Visible

LEMMA KeepsRelease ==
  ASSUME TypeOK, NEW cs, Release(cs)
  PROVE  /\ KeepsContexts
         /\ \A c \in DOMAIN claims' : Visible(c)' => c \notin cs
<1>1. \A c \in DOMAIN claims : claims[c] \in Claim
  BY DEF TypeOK
<1>2. /\ DOMAIN claims' = DOMAIN claims
      /\ \A c \in DOMAIN claims :
           claims'[c] = IF c \in cs THEN [claims[c] EXCEPT !.status = "released"]
                                    ELSE claims[c]
  BY DEF Release
<1>3. ASSUME NEW c \in DOMAIN claims
      PROVE  /\ claims'[c].sprint = claims[c].sprint
             /\ Visible(c)' => Visible(c) /\ c \notin cs
  BY <1>1, <1>2 DEF Claim, Visible
<1>. QED
  BY <1>2, <1>3 DEF KeepsContexts

LEMMA KeepsSetPaused ==
  ASSUME TypeOK, NEW p, NEW pl, NEW b \in BOOLEAN, SetPaused(p, pl, b)
  PROVE  KeepsContexts
<1>1. PICK cs : claims' = [c \in DOMAIN claims |->
                             IF c \in cs THEN [claims[c] EXCEPT !.paused = b]
                                         ELSE claims[c]]
  BY DEF SetPaused
<1>2. \A c \in DOMAIN claims : claims[c] \in Claim
  BY DEF TypeOK
<1>. QED
  BY <1>1, <1>2 DEF KeepsContexts, Visible, Claim

LEMMA KeepsClaimScope ==
  ASSUME TypeOK, NEW p \in Principals, NEW S \in Scopes, NEW pl \in Places,
         NEW m \in Modes, NEW lease \in Lease(m), NEW h \in AcquiredAt,
         ClaimScope(p, S, pl, m, lease, h)
  PROVE  KeepsContexts
<1>1. CASE ClaimFresh(p, S, pl, m, lease, h)
  <2>1. PICK c \in ClaimId : FreshAs(c, p, S, pl, m, lease, h)
    BY <1>1, FreshStep
  <2>2. claims'[c].sprint = sprintOf[p]
    BY <2>1 DEF FreshAs, FreshRow
  <2>. QED
    BY <2>1, <2>2 DEF FreshAs, KeepsContexts, Visible
<1>2. CASE ClaimAgain(p, S, pl, m, lease)
  <2>1. CASE UNCHANGED claims
    BY <2>1, KeepsSame
  <2>2. ASSUME NEW c \in DOMAIN claims,
               claims' = [claims EXCEPT ![c].expires = Refreshed(c, m, lease)]
        PROVE  KeepsContexts
    <3>1. \A d \in DOMAIN claims : claims[d] \in Claim
      BY DEF TypeOK
    <3>. QED
      BY <2>2, <3>1 DEF KeepsContexts, Visible, Claim
  <2>. QED
    BY <1>2, <2>1, <2>2, AgainStep
<1>. QED
  BY <1>1, <1>2 DEF ClaimScope

LEMMA KeepsStep ==
  ASSUME TypeOK, Tools
  PROVE  KeepsContexts /\ UNCHANGED sprintOf
<1>1. ASSUME NEW p \in Principals, NEW S \in Scopes, NEW pl \in Places,
             NEW m \in Modes, NEW lease \in Lease(m), NEW h \in AcquiredAt,
             ClaimScope(p, S, pl, m, lease, h)
      PROVE  KeepsContexts /\ UNCHANGED sprintOf
  <2>1. CASE ClaimFresh(p, S, pl, m, lease, h)
    <3>1. PICK c \in ClaimId : FreshAs(c, p, S, pl, m, lease, h)
      BY <2>1, FreshStep
    <3>. QED
      BY <1>1, <3>1, KeepsClaimScope DEF FreshAs
  <2>2. CASE ClaimAgain(p, S, pl, m, lease)
    BY <1>1, <2>2, KeepsClaimScope, AgainStep
  <2>. QED
    BY <1>1, <2>1, <2>2 DEF ClaimScope
<1>2. ASSUME NEW c \in ClaimId,
             ForceRelease(c) \/ \E p \in Principals : ReleaseScope(p, c)
      PROVE  KeepsContexts /\ UNCHANGED sprintOf
  BY <1>2, KeepsRelease DEF ReleaseScope, ForceRelease
<1>3. ASSUME NEW p \in Principals, NEW pl \in Places, NEW h \in Heads,
             NEW done \in SUBSET Files, ReleaseScopeViaGit(p, pl, h, done)
      PROVE  KeepsContexts /\ UNCHANGED sprintOf
  BY <1>3, KeepsRelease DEF ReleaseScopeViaGit
<1>4. ASSUME NEW p \in Principals, NEW pl \in Places,
             PauseClaimsForBranch(p, pl) \/ ResumeClaimsForBranch(p, pl)
      PROVE  KeepsContexts /\ UNCHANGED sprintOf
  <2>1. PICK b \in BOOLEAN : SetPaused(p, pl, b)
    BY <1>4 DEF PauseClaimsForBranch, ResumeClaimsForBranch
  <2>2. UNCHANGED sprintOf
    BY <2>1 DEF SetPaused
  <2>. QED
    BY <2>1, <2>2, KeepsSetPaused
<1>5. CASE \/ \E p \in Principals : FetchUnreadNotifications(p)
           \/ \E p \in Principals, c \in DOMAIN claims, S \in Scopes :
                QueuePendingEdit(p, c, S)
           \/ \E p \in Principals : ClearQueue(p)
           \/ GcExpiredPendingEdits
           \/ Tick
  <2>1. UNCHANGED <<claims, sprintOf>>
    BY <1>5 DEF FetchUnreadNotifications, QueuePendingEdit, ClearQueue, Tick,
                GcExpiredPendingEdits, DeletePending
  <2>. QED
    BY <2>1, KeepsSame
<1>. QED
  BY <1>1, <1>2, <1>3, <1>4, <1>5 DEF Tools

-----------------------------------------------------------------------------
(***************************************************************************)
(* What the steps of module Sprints do to the claims.                      *)
(***************************************************************************)

\* A member changes its context.
Moves(p, x) ==
  /\ sprintOf' = [sprintOf EXCEPT ![p] = x]
  /\ UNCHANGED <<claims, keyed, ended, unread, pending, now>>

LEMMA MovesInv ==
  ASSUME IInv, NEW p \in Principals, NEW x \in Contexts, Moves(p, x)
  PROVE  IInv' /\ Quiet
<1> USE DEF IInv
<1>1. UNCHANGED claims /\ UNCHANGED now
  BY DEF Moves
<1>2. Quiet
  BY <1>1, QuietUnchanged
<1>3. TypeOK'
  BY DEF TypeOK, Moves
<1>4. Exclusion' /\ KeysNameOwnClaims' /\ LeaseMatchesMode'
  BY <1>2, QuietExclusion, QuietKeys, QuietLease DEF Moves
<1>5. EndsOnce' /\ ManualOnlySurvivesGit'
  BY DEF Moves, EndsOnce, ManualOnlySurvivesGit
<1>6. QueueInClaimContext' /\ ReleaseDrainsQueue'
  BY DEF Moves, QueueInClaimContext, ReleaseDrainsQueue, Open
<1>. QED
  BY <1>2, <1>3, <1>4, <1>5, <1>6

\* Claims that are in force are ended together, each with an event and a
\* notice, as a force-release ends one.
EndsByForce(cs) ==
  /\ Release(cs)
  /\ ended' = ended \cup (cs \X {"claim_force_released"})
  /\ unread' = unread \cup cs
  /\ UNCHANGED <<keyed, pending, sprintOf, now>>

LEMMA EndsByForceInv ==
  ASSUME IInv, NEW cs \in SUBSET DOMAIN claims,
         \A c \in cs : claims[c].status = "active", EndsByForce(cs)
  PROVE  IInv' /\ Quiet
<1> USE DEF IInv
<1>0. /\ \A c \in DOMAIN claims : claims[c] \in Claim
      /\ DOMAIN claims' = DOMAIN claims
      /\ \A c \in DOMAIN claims :
           claims'[c] = IF c \in cs THEN [claims[c] EXCEPT !.status = "released"]
                                    ELSE claims[c]
  BY DEF TypeOK, EndsByForce, Release
<1>1. Quiet
  BY QuietRelease DEF EndsByForce
<1>2. TypeOK'
  BY TypeEnd DEF EndsByForce, ReleaseEvents
<1>3. Exclusion' /\ KeysNameOwnClaims' /\ LeaseMatchesMode'
  BY <1>1, QuietExclusion, QuietKeys, QuietLease DEF EndsByForce
<1>4. \A e : e \in ended' <=>
               e \in ended \/ \E c \in cs : e = <<c, "claim_force_released">>
  BY DEF EndsByForce
<1>5. \A c \in cs : ~ \E e \in ended : e[1] = c
  BY DEF EndsOnce
<1>6. EndsOnce'
  <2>1. \A c \in DOMAIN claims' :
          claims'[c].status = "released" <=> \E e \in ended' : e[1] = c
    <3>1. ASSUME NEW c \in cs
          PROVE  /\ claims'[c].status = "released"
                 /\ \E e \in ended' : e[1] = c
      <4>1. <<c, "claim_force_released">> \in ended'
        BY <1>4
      <4>. QED
        BY <1>0, <4>1 DEF Claim
    <3>2. ASSUME NEW c \in DOMAIN claims, c \notin cs
          PROVE  /\ claims'[c] = claims[c]
                 /\ (\E e \in ended' : e[1] = c) <=> (\E e \in ended : e[1] = c)
      BY <1>0, <1>4, <3>2
    <3>. QED
      BY <1>0, <3>1, <3>2 DEF EndsOnce
  <2>2. \A e, f \in ended' : e[1] = f[1] => e = f
    BY <1>4, <1>5 DEF EndsOnce
  <2>3. \A c \in unread' : <<c, "claim_force_released">> \in ended'
    BY <1>4 DEF EndsOnce, EndsByForce
  <2>. QED
    BY <2>1, <2>2, <2>3 DEF EndsOnce
<1>7. ManualOnlySurvivesGit'
  <2>1. \A c \in DOMAIN claims : claims'[c].mode = claims[c].mode
    BY <1>1 DEF Quiet
  <2>2. \A c : <<c, "scope_released_via_git">> \in ended'
                 => <<c, "scope_released_via_git">> \in ended
    BY <1>4
  <2>. QED
    BY <1>0, <2>1, <2>2 DEF ManualOnlySurvivesGit
<1>8. QueueInClaimContext'
  BY <1>0, <1>1 DEF QueueInClaimContext, Quiet, EndsByForce, TypeOK
<1>9. ReleaseDrainsQueue'
  <2>1. ASSUME NEW q \in DOMAIN pending, Open(q)
        PROVE  LET c == pending[q].blocking
               IN  \/ claims'[c].status = "active"
                   \/ <<c, "claim_force_released">> \in ended'
    <3>1. CASE pending[q].blocking \in cs
      BY <1>4, <3>1
    <3>2. CASE pending[q].blocking \notin cs
      BY <1>0, <1>4, <2>1, <3>2 DEF TypeOK, ReleaseDrainsQueue
    <3>. QED
      BY <3>1, <3>2
  <2>. QED
    BY <2>1 DEF ReleaseDrainsQueue, Open, EndsByForce
<1>. QED
  BY <1>1, <1>2, <1>3, <1>6, <1>7, <1>8, <1>9

-----------------------------------------------------------------------------
(***************************************************************************)
(* The theorems.                                                           *)
(***************************************************************************)

\* Claims and members are in contexts that are not archived.
Coordinates(x) == x = Space \/ status[x] = "active"

SprintsInv ==
  /\ SprintsTypeOK
  /\ \A p \in Principals : Coordinates(sprintOf[p])
  /\ \A c \in DOMAIN claims : Visible(c) => Coordinates(claims[c].sprint)

LEMMA SprintsInvInit == SprintsInit => IInv /\ SprintsInv
<1> SUFFICES ASSUME SprintsInit
             PROVE  IInv /\ SprintsInv
  OBVIOUS
<1>1. IInv
  BY InvInit DEF SprintsInit
<1>2. SprintsInv
  BY DEF SprintsInit, Init, NoRows, SprintsInv, SprintsTypeOK, Coordinates
<1>. QED
  BY <1>1, <1>2

\* No context loses its Sprint while rows stay as they are.
LEMMA KeepsSprintsInv ==
  ASSUME TypeOK, SprintsInv, KeepsContexts, SprintsTypeOK',
         \A x \in Contexts : Coordinates(x) => Coordinates(x)',
         \A p \in Principals : Coordinates(sprintOf[p])'
  PROVE  SprintsInv'
<1>1. \A p \in Principals : sprintOf[p] \in Contexts
  BY DEF TypeOK
<1>2. \A c \in DOMAIN claims : claims[c].sprint \in Contexts
  BY DEF TypeOK, Claim
<1>3. ASSUME NEW c \in DOMAIN claims', Visible(c)'
      PROVE  Coordinates(claims[c].sprint)'
  BY <1>1, <1>2, <1>3 DEF SprintsInv, KeepsContexts
<1>. QED
  BY <1>3 DEF SprintsInv

LEMMA ToolsInv ==
  ASSUME IInv, SprintsInv, Tools, UNCHANGED status
  PROVE  IInv' /\ SprintsInv'
<1>1. IInv'
  BY InvStep DEF Next
<1>2. TypeOK /\ KeepsContexts /\ UNCHANGED sprintOf
  BY KeepsStep DEF IInv
<1>3. \A x : Coordinates(x) <=> Coordinates(x)'
  BY DEF Coordinates
<1>4. SprintsTypeOK' /\ \A p \in Principals : Coordinates(sprintOf[p])'
  BY <1>2, <1>3 DEF SprintsInv, SprintsTypeOK
<1>. QED
  BY <1>1, <1>2, <1>3, <1>4, KeepsSprintsInv

\* Whoever moves goes to the Space or to a Sprint that is active then.
LEMMA MovesSprintsInv ==
  ASSUME IInv, SprintsInv, NEW p \in Principals, NEW x \in Contexts,
         Moves(p, x), Coordinates(x)', SprintsTypeOK',
         \A y \in Contexts : Coordinates(y) => Coordinates(y)'
  PROVE  IInv' /\ SprintsInv'
<1>1. IInv'
  BY MovesInv
<1>2. TypeOK /\ KeepsContexts
  BY KeepsSame DEF IInv, Moves
<1>3. ASSUME NEW q \in Principals
      PROVE  Coordinates(sprintOf[q])'
  <2>1. sprintOf'[q] = IF q = p THEN x ELSE sprintOf[q]
    BY <1>2 DEF Moves, TypeOK
  <2>2. sprintOf[q] \in Contexts /\ Coordinates(sprintOf[q])
    BY <1>2 DEF SprintsInv, TypeOK
  <2>. QED
    BY <2>1, <2>2
<1>. QED
  BY <1>1, <1>2, <1>3, KeepsSprintsInv

\* A Sprint is created or reopened by a member who enters it.
LEMMA OpensInv ==
  ASSUME IInv, SprintsInv, NEW p \in Principals, NEW x \in Sprints,
         CreateSprint(p, x) \/ ReopenSprint(p, x)
  PROVE  IInv' /\ SprintsInv'
<1>1. Moves(p, x) /\ status' = [status EXCEPT ![x] = "active"]
  BY DEF CreateSprint, ReopenSprint, Enter, Moves
<1>2. SprintsTypeOK' /\ x \in Contexts
  BY <1>1 DEF SprintsInv, SprintsTypeOK, Contexts
<1>3. Coordinates(x)' /\ \A y \in Contexts : Coordinates(y) => Coordinates(y)'
  BY <1>1 DEF SprintsInv, SprintsTypeOK, Coordinates, Contexts
<1>. QED
  BY <1>1, <1>2, <1>3, MovesSprintsInv

LEMMA JoinsAndLeavesInv ==
  ASSUME IInv, SprintsInv, NEW p \in Principals,
         \/ LeaveCurrentSprint(p)
         \/ \E x \in Sprints : JoinActiveSprint(p, x)
  PROVE  IInv' /\ SprintsInv'
<1>1. UNCHANGED status
  BY DEF LeaveCurrentSprint, JoinActiveSprint
<1>2. SprintsTypeOK' /\ \A y : Coordinates(y) <=> Coordinates(y)'
  BY <1>1 DEF SprintsInv, SprintsTypeOK, Coordinates
<1>3. PICK x \in Contexts : Moves(p, x) /\ Coordinates(x)
  BY DEF LeaveCurrentSprint, JoinActiveSprint, LeaveSprint, JoinSprint,
         Joinable, Moves, Coordinates, Contexts
<1>. QED
  BY <1>2, <1>3, MovesSprintsInv

LEMMA ArchiveInv ==
  ASSUME IInv, SprintsInv, NEW x \in Sprints, ArchiveSprint(x)
  PROVE  IInv' /\ SprintsInv'
<1>1. /\ EndsByForce(LeftBehind(x))
      /\ LeftBehind(x) \in SUBSET DOMAIN claims
      /\ \A c \in LeftBehind(x) : claims[c].status = "active"
  BY DEF ArchiveSprint, EndsByForce, LeftBehind, Visible
<1>2. IInv'
  BY <1>1, EndsByForceInv
<1>3. SprintsTypeOK'
  BY DEF SprintsInv, SprintsTypeOK, ArchiveSprint
<1>4. \A y : Coordinates(y) /\ y # x => Coordinates(y)'
  BY DEF SprintsInv, SprintsTypeOK, ArchiveSprint, Coordinates
<1>5. \A p \in Principals : Coordinates(sprintOf[p])'
  BY <1>4 DEF SprintsInv, ArchiveSprint
<1>6. TypeOK /\ DOMAIN claims' = DOMAIN claims
  BY <1>1 DEF IInv, EndsByForce, Release
<1>7. ASSUME NEW c \in DOMAIN claims', Visible(c)'
      PROVE  Coordinates(claims[c].sprint)'
  <2>1. c \notin LeftBehind(x) /\ KeepsContexts
    BY <1>1, <1>6, <1>7, KeepsRelease DEF EndsByForce
  <2>2. /\ claims'[c] = claims[c]
        /\ Visible(c)
    BY <1>1, <1>6, <1>7, <2>1 DEF EndsByForce, Release, Visible
  <2>3. claims[c].sprint # x
    BY <1>6, <2>1, <2>2 DEF LeftBehind
  <2>. QED
    BY <1>4, <1>6, <2>2, <2>3 DEF SprintsInv
<1>. QED
  BY <1>2, <1>3, <1>5, <1>7 DEF SprintsInv

LEMMA SprintsInvStep ==
  IInv /\ SprintsInv /\ [SprintsNext]_svars => IInv' /\ SprintsInv'
<1> SUFFICES ASSUME IInv, SprintsInv, [SprintsNext]_svars
             PROVE  IInv' /\ SprintsInv'
  OBVIOUS
<1>1. CASE Tools /\ UNCHANGED status
  BY <1>1, ToolsInv
<1>2. ASSUME NEW p \in Principals, NEW x \in Sprints,
             CreateSprint(p, x) \/ ReopenSprint(p, x)
      PROVE  IInv' /\ SprintsInv'
  BY <1>2, OpensInv
<1>3. ASSUME NEW p \in Principals,
             \/ LeaveCurrentSprint(p)
             \/ \E x \in Sprints : JoinActiveSprint(p, x)
      PROVE  IInv' /\ SprintsInv'
  BY <1>3, JoinsAndLeavesInv
<1>4. ASSUME NEW x \in Sprints, ArchiveSprint(x)
      PROVE  IInv' /\ SprintsInv'
  BY <1>4, ArchiveInv
<1>5. CASE UNCHANGED svars
  <2>1. UNCHANGED vars /\ UNCHANGED status /\ UNCHANGED claims
    BY <1>5 DEF svars, vars
  <2>2. IInv'
    BY <2>1, InvStep
  <2>3. SprintsInv'
    BY <2>1 DEF vars, SprintsInv, SprintsTypeOK, Coordinates, Visible
  <2>. QED
    BY <2>2, <2>3
<1>. QED
  BY <1>1, <1>2, <1>3, <1>4, <1>5 DEF SprintsNext

THEOREM SprintsInvariant == SprintsSpec => [](IInv /\ SprintsInv)
  BY SprintsInvInit, SprintsInvStep, PTL DEF SprintsSpec

\* Nobody is in an archived Sprint and no claim of it is in force, however
\* often it was archived and reopened and whatever members left there.
THEOREM ArchivedIsQuietHolds == SprintsSpec => []ArchivedIsQuiet
<1>1. IInv /\ SprintsInv => ArchivedIsQuiet
  BY ContextAssumption DEF SprintsInv, Coordinates, ArchivedIsQuiet
<1>. QED
  BY <1>1, SprintsInvariant, PTL

\* The claim tools keep their promises when Sprints come and go: no two live
\* claims collide, keys and leases stay coherent, and an archive ends no claim
\* a second time.
THEOREM SprintsKeepClaims ==
  SprintsSpec => [](Exclusion /\ KeysNameOwnClaims /\ LeaseMatchesMode /\ EndsOnce)
<1>1. IInv => Exclusion /\ KeysNameOwnClaims /\ LeaseMatchesMode /\ EndsOnce
  BY DEF IInv
<1>. QED
  BY <1>1, SprintsInvariant, PTL

LEMMA SprintsHeld == IInv /\ [SprintsNext]_svars => [Lock!Next]_Held
<1> SUFFICES ASSUME IInv, [SprintsNext]_svars
             PROVE  [Lock!Next]_Held
  OBVIOUS
<1>1. CASE Quiet
  BY <1>1, QuietHeld DEF IInv
<1>2. CASE [Next]_vars
  BY <1>2, StepKinds, QuietHeld, FreshHeld DEF IInv
<1>3. ASSUME NEW p \in Principals, NEW x \in Sprints,
             CreateSprint(p, x) \/ ReopenSprint(p, x)
      PROVE  Quiet
  <2>1. Moves(p, x) /\ x \in Contexts
    BY <1>3 DEF CreateSprint, ReopenSprint, Enter, Moves, Contexts
  <2>. QED
    BY <2>1, MovesInv
<1>4. ASSUME NEW x \in Sprints, ArchiveSprint(x)
      PROVE  Quiet
  BY <1>4, QuietRelease DEF ArchiveSprint, IInv
<1>5. CASE \/ Tools
           \/ \E p \in Principals : LeaveCurrentSprint(p)
           \/ \E p \in Principals, x \in Sprints : JoinActiveSprint(p, x)
           \/ UNCHANGED svars
  <2>1. [Next]_vars
    BY <1>5 DEF Next, LeaveCurrentSprint, JoinActiveSprint, svars, vars
  <2>. QED
    BY <1>2, <2>1
<1>. QED
  BY <1>1, <1>3, <1>4, <1>5 DEF SprintsNext

\* The claim tools implement the abstract lock on scopes also while Sprints
\* are archived and reopened under the claims.
THEOREM SprintsImplementLock == SprintsSpec => ImplementsLock
<1>1. SprintsInit => Lock!Init
  BY DEF SprintsInit, Init, NoRows, Lock!Init, Held
<1>. QED
  BY <1>1, SprintsHeld, SprintsInvariant, PTL DEF SprintsSpec, ImplementsLock, Lock!Spec
=============================================================================
