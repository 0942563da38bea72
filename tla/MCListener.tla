----------------------------- MODULE MCListener -----------------------------
(* An instance of Listener for TLC, on each of the four backends.           *)
EXTENDS Listener
=============================================================================
