---------------------------- MODULE MCPermission ----------------------------
(* Instances of module Permission for TLC. *)
EXTENDS Permission, TLC

CONSTANTS alice, bob, a, b, other, dir, r1, r2, s1, s2

\* Files only; files and a glob pattern that matches a.
Same == {<<p, p>> : p \in Paths}
GlobOfA == Same \cup {<<a, dir>>, <<dir, a>>}

\* Requests without a branch, as the claim of a grant has none.
Unnamed == {<<"", "">>}

Single == {{p} : p \in Paths}

\* One claim of three patterns, from which two files can be handed over one
\* after the other with something left: the first takes the glob with it.
FileOrThree == {{a}, {b}, {b, other, dir}}

\* Members, requests and processes are interchangeable (safety runs only).
Interchangeable ==
  Permutations(Principals) \cup Permutations(ReqId) \cup Permutations(Servers)
=============================================================================
