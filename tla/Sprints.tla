------------------------------ MODULE Sprints -------------------------------
(***************************************************************************)
(* The life of Sprints: members create, join, leave, archive and reopen    *)
(* them while the claim tools of module Claims go on.  Archiving ends the  *)
(* claims that members left behind in the Sprint; reopening brings back    *)
(* the Sprint and nothing else.                                            *)
(*                                                                         *)
(* One server process: join_sprint and reopen_sprint read the Sprint and   *)
(* the member's current one before their transaction, and nothing runs in  *)
(* between.  Leaving the old Sprint and joining the new one are two events *)
(* of one transaction.  The notice that archive and reopen leave for the   *)
(* very member who called them is left out.                                *)
(***************************************************************************)
EXTENDS Claims

VARIABLE status   \* the sprints table: "none" where there is no row

svars == <<claims, keyed, ended, unread, pending, sprintOf, now, status>>

SprintsTypeOK == status \in [Sprints -> {"none", "active", "archived"}]

SprintsInit ==
  /\ Init
  /\ status = [x \in Sprints |-> "none"]

-----------------------------------------------------------------------------

\* The member is in x from now on, and in no other Sprint.
Enter(p, x) == sprintOf' = [sprintOf EXCEPT ![p] = x]

\* Names are unique in the Space, those of archived Sprints included.
CreateSprint(p, x) ==
  /\ status[x] = "none"
  /\ status' = [status EXCEPT ![x] = "active"]
  /\ Enter(p, x)
  /\ UNCHANGED <<claims, keyed, ended, unread, pending, now>>

Joinable(x) == status[x] = "active"

JoinActiveSprint(p, x) ==
  /\ Joinable(x)
  /\ JoinSprint(p, x)
  /\ UNCHANGED status

LeaveCurrentSprint(p) == LeaveSprint(p) /\ UNCHANGED status

\* The claims that an archive ends, lapsed and paused ones included.
LeftBehindAndRunning(x) ==   \* mutant
  {c \in DOMAIN claims : Visible(c) /\ claims[c].sprint = x /\ ~ claims[c].paused}
LeftBehind(x) == {c \in DOMAIN claims : Visible(c) /\ claims[c].sprint = x}

\* archive_sprint, by any member, once nobody is in the Sprint.  Each claim
\* gets an event of its own and its owner a notice; the queue behind the
\* claims is not looked at, as in force_release.
ArchiveSprint(x) ==
  /\ status[x] = "active"
  /\ \A p \in Principals : sprintOf[p] # x
  /\ status' = [status EXCEPT ![x] = "archived"]
  /\ Release(LeftBehind(x))
  /\ ended' = ended \cup (LeftBehind(x) \X {"claim_force_released"})
  /\ unread' = unread \cup LeftBehind(x)
  /\ UNCHANGED <<keyed, pending, sprintOf, now>>

ReopenSprint(p, x) ==
  /\ status[x] = "archived"
  /\ status' = [status EXCEPT ![x] = "active"]
  /\ Enter(p, x)
  /\ UNCHANGED <<claims, keyed, ended, unread, pending, now>>

-----------------------------------------------------------------------------

SprintsNext ==
  \/ Tools /\ UNCHANGED status
  \/ \E p \in Principals, x \in Sprints :
       CreateSprint(p, x) \/ JoinActiveSprint(p, x) \/ ReopenSprint(p, x)
  \/ \E p \in Principals : LeaveCurrentSprint(p)
  \/ \E x \in Sprints : ArchiveSprint(x)

SprintsSpec == SprintsInit /\ [][SprintsNext]_svars

-----------------------------------------------------------------------------
(***************************************************************************)
(* Properties.                                                             *)
(***************************************************************************)

\* CONTEXT.md:134-136: an archived Sprint coordinates nothing: nobody is in
\* it, and no claim of it is in force or paused, whatever members left behind
\* there and whatever was reopened and archived again.
ArchivedIsQuiet ==
  \A x \in Sprints : status[x] = "archived" =>
    /\ \A p \in Principals : sprintOf[p] # x
    /\ \A c \in DOMAIN claims : Visible(c) => claims[c].sprint # x
=============================================================================
