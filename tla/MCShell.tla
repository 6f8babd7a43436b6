------------------------------ MODULE MCShell -------------------------------
(* The async loop over up to three surfaces, one of which may have a key.   *)
EXTENDS Shell

MCShellItems == <<"previous">>
=============================================================================
