------------------------------ MODULE MCSettings ------------------------------
(* A dashboard with its editor and an editor alone share the files; two       *)
(* actions of one context and three keys, so that keys can conflict.  The     *)
(* user leaves out the key of an action, or gives both the same.              *)
EXTENDS Settings, TLC

CONSTANTS dashboard, editor

MCActions == {"palette", "redraw"}
MCKeys == 1 .. 3
MCDefault == "palette" :> 1 @@ "redraw" :> 2
MCEdits == {"palette" :> 3, "palette" :> 3 @@ "redraw" :> 3, Torn, None}
=============================================================================
