-------------------------- MODULE MCCommandWorker ---------------------------
(* A small instance of CommandWorker. *)
EXTENDS CommandWorker

\* The first command writes enough to be pruned, the second is asked next.
MCOutputs == <<2, 0>>
=============================================================================
