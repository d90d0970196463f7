----------------------------- MODULE MCSprints ------------------------------
(* Instances of module Sprints for TLC: one file, one Sprint, and requests *)
(* that may leave out repository and branch.                               *)
EXTENDS Sprints, MCClaims

LegacyPlace == OneBranch \cup {<<"", "">>}

\* Members are interchangeable (safety runs only).
Members == Permutations(Principals)
=============================================================================
