----------------------------- MODULE MCElection ------------------------------
(* A small instance of Election: clients of an old and of a new binary. *)
EXTENDS Election, TLC

CONSTANTS old, new, stopper

MCVersions == (old :> 1) @@ (new :> 2) @@ (stopper :> 2)
=============================================================================
