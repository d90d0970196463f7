------------------------------ MODULE MCChannel ------------------------------
(* An instance of module Channel for TLC: see MCChannel.cfg. *)
EXTENDS Channel
=============================================================================
