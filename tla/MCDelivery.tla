---------------------------- MODULE MCDelivery ------------------------------
(* Small instances of Delivery. *)
EXTENDS Delivery

CONSTANTS pump, block   \* clients

\* One client asks for the lease, one takes it.
MCRivals == [i \in Clients |-> IF i = pump THEN {<<"drive", FALSE>>} ELSE {<<"drive", TRUE>>}]

\* Each takes the lease when it attaches, and when it attaches again.
MCTakers == [i \in Clients |-> {<<"drive", TRUE>>}]
MCSymmetry == Permutations(Pumps)
=============================================================================
