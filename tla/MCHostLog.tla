----------------------------- MODULE MCHostLog ------------------------------
(* A small instance of HostLog for TLC: one session that is written, or two  *)
(* sessions that are only created, renamed and stopped under three names.    *)
EXTENDS HostLog

CONSTANTS c1,         \* one connection at a time
          a,          \* one client, which reconnects and retries
          a1, a2, a3, \* its requests
          s1, s2,     \* sessions
          n1, n2, n3, \* names
          blank       \* an invalid name

MCClientOf == [r \in Requests |-> a]
MCNormal == [raw \in RawNames |-> IF raw = blank THEN NoName ELSE raw]

MCMaxEpoch == [s \in Sessions |-> 2]
MCMaxSequence == [s \in Sessions |-> 4]

\* A session that is written is followed until its removal begins.
MCWritten == stopped = {} /\ Cardinality(issued) <= 1
MCOnlyNamed ==
  /\ \A c \in Connections : instance[c] = NoInstance
  /\ \A s \in Sessions : sequence[s] = 0
MCKept == MCWritten \/ MCOnlyNamed

MCSymmetry == Permutations(Requests) \cup Permutations(Sessions) \cup Permutations(Names)
=============================================================================
