--------------------------- MODULE MCShellSession --------------------------
(* A small instance of ShellSession. *)
EXTENDS ShellSession

CONSTANTS make, cd   \* a command, and a builtin
=============================================================================
