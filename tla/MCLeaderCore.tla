--------------------------- MODULE MCLeaderCore ----------------------------
(* A small instance of LeaderCore for TLC. *)
EXTENDS LeaderCore, TLC

CONSTANTS c1, c2, c3,   \* connections
          a, b,         \* clients; a may hold several connections
          a1, a2, b1,   \* requests of a and of b
          s1, s2        \* sessions

\* The client each request belongs to.
MCClientOf == [r \in Requests |-> IF r = b1 THEN b ELSE a]

\* Two spellings of one name, another name, and one that is not valid.
MCNormal == [build |-> "build", padded |-> "build", logs |-> "logs", blank |-> NoName]
MCRawNames == DOMAIN MCNormal

\* s1 is driven and written; s2 is there for names and second attachments.
MCMaxEpoch == [s \in Sessions |-> IF s = s1 THEN 2 ELSE 1]
MCMaxSequence == [s \in Sessions |-> IF s = s1 THEN 3 ELSE 0]

MCSymmetry == Permutations(Connections)
=============================================================================
