--------------------------- MODULE MCControlPlane ---------------------------
\* Model checking of ControlPlane; the calls of an account are alike.
EXTENDS ControlPlane, TLC

CallSymmetry == Permutations(Calls)
=============================================================================
