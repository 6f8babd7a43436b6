----------------------------- MODULE MCDashboard ------------------------------
(* Two sessions under two names, one of which exists from the start.        *)
EXTENDS Dashboard
=============================================================================
