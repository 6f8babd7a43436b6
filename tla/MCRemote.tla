------------------------------ MODULE MCRemote --------------------------------
(* Two different lines, of which three are kept, and a frame that shows one  *)
(* or two of them.                                                           *)
EXTENDS Remote
=============================================================================
