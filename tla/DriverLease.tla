---------------------------- MODULE DriverLease ----------------------------
(***************************************************************************)
(* What the driver lease of a session promises, independently of           *)
(* connections, subscriptions, names and persistence: at any time a        *)
(* session has at most one holder, every grant opens a new epoch, and a    *)
(* write carries the holder and the epoch that are current.  LeaderCore    *)
(* is shown to implement this specification.                               *)
(***************************************************************************)
EXTENDS Naturals, Sequences

CONSTANTS Sessions,    \* session identities
          Instances,   \* client instances that may drive a session
          NoInstance   \* the holder of a session nobody drives

VARIABLES holder,   \* who may write to each session
          epoch,    \* number of grants of each session so far
          writes    \* the leases under which each session was written, in order

vars == <<holder, epoch, writes>>

Lease == [owner : Instances, epoch : Nat]

TypeOK ==
  /\ holder \in [Sessions -> Instances \cup {NoInstance}]
  /\ epoch \in [Sessions -> Nat]
  /\ writes \in [Sessions -> Seq(Lease)]

Init ==
  /\ holder = [s \in Sessions |-> NoInstance]
  /\ epoch = [s \in Sessions |-> 0]
  /\ writes = [s \in Sessions |-> <<>>]

\* A new holder, by first claim or by takeover, always opens a new epoch.
Grant(s, i) ==
  /\ holder[s] # i
  /\ holder' = [holder EXCEPT ![s] = i]
  /\ epoch' = [epoch EXCEPT ![s] = @ + 1]
  /\ UNCHANGED writes

\* Any number of sessions lose their holder at once (a connection closes).
Release(released) ==
  /\ holder' = [s \in Sessions |-> IF s \in released THEN NoInstance ELSE holder[s]]
  /\ UNCHANGED <<epoch, writes>>

Write(s) ==
  /\ holder[s] # NoInstance
  /\ writes' = [writes EXCEPT ![s] =
                  Append(@, [owner |-> holder[s], epoch |-> epoch[s]])]
  /\ UNCHANGED <<holder, epoch>>

Next ==
  \/ \E s \in Sessions, i \in Instances : Grant(s, i)
  \/ \E released \in SUBSET Sessions : Release(released)
  \/ \E s \in Sessions : Write(s)

Spec == Init /\ [][Next]_vars

-----------------------------------------------------------------------------

(***************************************************************************)
(* Once a session has been written under an epoch, nothing buffered under  *)
(* an older epoch can be written after it, and one epoch has one writer.   *)
(***************************************************************************)
Fenced ==
  \A s \in Sessions : \A i, j \in 1 .. Len(writes[s]) :
    i < j => \/ writes[s][i].epoch < writes[s][j].epoch
             \/ writes[s][i] = writes[s][j]
=============================================================================
