--------------------------- MODULE MCHostEffects ---------------------------
(* A small instance of HostEffects: two sessions share one slot. *)
EXTENDS HostEffects

CONSTANTS s1, s2,   \* sessions
          e1, e2,   \* effects of s1: at most once with a deadline, and at least once
          f1        \* effect of s2: at least once, with a deadline

MCSessionOf == [e \in Effects |-> IF e = f1 THEN s2 ELSE s1]
=============================================================================
