----------------------------- MODULE ScopeLock -----------------------------
(***************************************************************************)
(* What the claim service of a Space promises its members, with every      *)
(* mechanism left out: a lock on scopes.  A holder asks for a set of path  *)
(* patterns in one coordination context (a sprint, or Space mode) and at   *)
(* one place (a repository and branch); it gets it only when nothing held  *)
(* clashes with it, and what is held may be given up or lapse at any time. *)
(* Module Claims is shown to implement this one.                           *)
(***************************************************************************)
EXTENDS Naturals

CONSTANTS
  Grants,         \* what can be held: records identifying a holder and a scope
  Clashing(_, _)  \* two grants that must not be held together

VARIABLE held     \* the set of grants in force

TypeOK == held \subseteq Grants

Init == held = {}

\* A grant is taken only when it clashes with no grant in force.
Acquire(g) ==
  /\ g \notin held
  /\ \A h \in held : ~ Clashing(g, h) /\ ~ Clashing(h, g)
  /\ held' = held \cup {g}

\* Grants end by release, by a commit, by force or because a lease ran out.
Drop(gone) ==
  /\ gone # {}
  /\ gone \subseteq held
  /\ held' = held \ gone

Next ==
  \/ \E g \in Grants : Acquire(g)
  \/ \E gone \in SUBSET held : Drop(gone)

Spec == Init /\ [][Next]_held

\* No two grants in force clash: the promise of selectActiveClaimsForOverlap
\* and of the conflict answers of claim_scope.
Exclusive == \A g, h \in held : g # h => ~ Clashing(g, h)
=============================================================================
