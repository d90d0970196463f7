----------------------------- MODULE MCDecisions -----------------------------
(* Instances of module Decisions for TLC. *)
EXTENDS Decisions, TLC

CONSTANTS ann, bob, s, t

OneTeam == [m \in Members |-> s]
TwoTeams == [m \in Members |-> IF m = ann THEN s ELSE t]

\* Members of one Space are alike, and so are decision ids.
Alike == Permutations(Members) \union Permutations(Ids)
=============================================================================
