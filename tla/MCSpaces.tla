------------------------------ MODULE MCSpaces ------------------------------
(***************************************************************************)
(* Spaces for TLC: the creator and one name that others join under, two    *)
(* requests in flight, a grace period of two instants.                     *)
(***************************************************************************)
EXTENDS Spaces
=============================================================================
