------------------------------ MODULE MCClaims ------------------------------
(* Instances of module Claims for TLC. *)
EXTENDS Claims, TLC

CONSTANTS alice, bob, a, b, dir

\* Files only.
TwoFiles == {<<p, p>> : p \in Paths}

\* Files and a glob pattern that matches each of them.
FileAndGlob ==
  {<<p, q>> \in Paths \X Paths : p = q \/ p = dir \/ q = dir}

\* One branch of one repository.
OneBranch == {<<"r", "main">>}

FileOrBoth == {{a}, {a, b}}
Single == {{p} : p \in Paths}
=============================================================================
