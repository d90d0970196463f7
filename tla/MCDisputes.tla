----------------------------- MODULE MCDisputes -----------------------------
(* Instances of module Disputes for TLC. *)
EXTENDS Disputes, TLC

CONSTANTS alice, bob, a, b, dir, d1, d2

\* Files and a glob pattern that matches a.
Same == {<<p, p>> : p \in Paths}
GlobOfA == Same \cup {<<a, dir>>, <<dir, a>>}

\* Requests without a branch, as the claim of an agreement has none.
Unnamed == {<<"", "">>}

\* Claims of the glob and another file, which is kept when a is handed over;
\* offers of one file or of nothing.
FileAndGlob == {{b, dir}}
JustA == {{a}}
FileOrNone == {{}, {a}}

\* The default, and a Space that enables two conditions only.
Fewer == {AllConditions, {"user_override", "turns"}}

Members == Permutations(Principals)
=============================================================================
