-------------------------- MODULE Election_proofs ---------------------------
(***************************************************************************)
(* Proofs about Election, for any number of clients, versions, leaders and *)
(* faults: one leader at a time, from ElectionInv, and a leader that       *)
(* serves can be reached, from ReachInv.  ReachInv relates the name to the *)
(* states of the leaders and to where the clients are; the start lock      *)
(* makes its clauses about clients be about one client at a time.          *)
(***************************************************************************)
EXTENDS Election, TLAPS

State == {"spawned", "bound", "loading", "serving", "stopping", "closed", Died}
Leader == [state : State, version : Nat, parent : Clients \cup {Nobody}]

LockIsOfHolder == \A l \in Leaders : HoldsLock(l) => lock = l

(***************************************************************************)
(* The lock of the leaders names the process that is past Acquire and has  *)
(* not yet left, if there is one.                                          *)
(***************************************************************************)
ElectionInv == leader \in Seq(Leader) /\ LockIsOfHolder

(* A leader of which only the state changes keeps the others as they are. *)
LEMMA InStateChanges ==
  ASSUME ElectionInv, NEW l \in Leaders, NEW state \in State
  PROVE  /\ InState(l, state) \in Seq(Leader)
         /\ DOMAIN InState(l, state) = Leaders
         /\ InState(l, state)[l].state = state
         /\ \A k \in Leaders \ {l} : InState(l, state)[k] = leader[k]
<1>1. leader \in Seq(Leader) /\ l \in DOMAIN leader
  BY DEF ElectionInv, Leaders
<1>2. leader[l] \in Leader
  BY <1>1
<1> DEFINE new == [leader[l] EXCEPT !.state = state]
<1>3. new \in Leader /\ new.state = state
  BY <1>2 DEF Leader
<1>4. InState(l, state) = [leader EXCEPT ![l] = new]
  BY <1>1 DEF InState
<1> HIDE DEF new
<1> QED
  BY <1>1, <1>3, <1>4 DEF Leaders

(* A leader that does not come to hold the lock, while the lock stays or is *)
(* left by it, disturbs nobody.                                             *)
LEMMA StateKeepsLock ==
  ASSUME ElectionInv, NEW l \in Leaders, NEW state \in State,
         leader' = InState(l, state),
         \/ lock' = lock /\ (HoldsLock(l) \/ state \in {"bound", Died})
         \/ lock' = (IF lock = l THEN Nobody ELSE lock) /\ state = Died
  PROVE  ElectionInv'
<1>1. /\ leader' \in Seq(Leader)
      /\ Leaders' = Leaders
      /\ leader'[l].state = state
      /\ \A k \in Leaders \ {l} : leader'[k] = leader[k]
  BY InStateChanges DEF Leaders
<1>2. ASSUME NEW k \in Leaders, HoldsLock(k)' PROVE lock' = k
  <2>1. CASE k = l
    BY <1>1, <1>2, <2>1 DEF HoldsLock, ElectionInv, LockIsOfHolder, Died
  <2>2. CASE k # l
    BY <1>1, <1>2, <2>2 DEF HoldsLock, ElectionInv, LockIsOfHolder
  <2> QED
    BY <2>1, <2>2
<1> QED
  BY <1>1, <1>2 DEF ElectionInv, LockIsOfHolder

(* The step of a leader. *)
LEMMA LeadKeeps ==
  ASSUME ElectionInv, NEW l \in Leaders, Lead(l)
  PROVE  ElectionInv'
<1>1. CASE Bind(l)
  BY <1>1, StateKeepsLock DEF Bind, State
<1>2. CASE Acquire(l)
  <2>1. \A k \in Leaders : ~HoldsLock(k)
    BY <1>2 DEF Acquire, ElectionInv, LockIsOfHolder, Nobody, Leaders
  <2>2. /\ leader' \in Seq(Leader)
        /\ Leaders' = Leaders
        /\ \A k \in Leaders \ {l} : leader'[k] = leader[k]
    BY <1>2, InStateChanges DEF Acquire, State, Leaders
  <2>3. ASSUME NEW k \in Leaders, HoldsLock(k)' PROVE lock' = k
    BY <1>2, <2>1, <2>2, <2>3 DEF HoldsLock, Acquire
  <2> QED
    BY <2>2, <2>3 DEF ElectionInv, LockIsOfHolder
<1>3. CASE Load(l)
  BY <1>3, StateKeepsLock DEF Load, State, HoldsLock
<1>4. CASE RemoveSocket(l)
  BY <1>4, StateKeepsLock DEF RemoveSocket, State, HoldsLock
<1>5. CASE Unlock(l)
  <2>1. lock = l
    BY <1>5 DEF Unlock, ElectionInv, LockIsOfHolder, HoldsLock
  <2> QED
    BY <1>5, <2>1, StateKeepsLock DEF Unlock, State
<1> QED
  BY <1>1, <1>2, <1>3, <1>4, <1>5 DEF Lead

(* Someone who is not a leader process has nothing to change. *)
LEMMA NoSuchLeader ==
  ASSUME ElectionInv, NEW l, l \notin Leaders, NEW state,
         leader' = InState(l, state),
         lock' \in {lock, IF lock = l THEN Nobody ELSE lock}
  PROVE  ElectionInv'
<1>1. leader' = leader
  BY DEF ElectionInv, InState, Leaders
<1>2. ASSUME NEW k \in Leaders, HoldsLock(k) PROVE lock' = k
  BY <1>2 DEF ElectionInv, LockIsOfHolder
<1> QED
  BY <1>1, <1>2 DEF ElectionInv, LockIsOfHolder, HoldsLock, Leaders

(* A client stops a leader that serves: it keeps its lock until it leaves. *)
LEMMA StoppingKeepsLock ==
  ASSUME ElectionInv, NEW l, leader[l].state = "serving",
         leader' = InState(l, "stopping"), lock' = lock
  PROVE  ElectionInv'
<1>1. CASE l \in Leaders
  BY <1>1, StateKeepsLock DEF HoldsLock, State
<1>2. CASE l \notin Leaders
  BY <1>2, NoSuchLeader
<1> QED
  BY <1>1, <1>2

(* The steps of a client. *)
LEMMA ClientKeeps ==
  ASSUME ElectionInv, NEW c \in Clients, Begin(c) \/ Ensure(c) \/ Stop(c)
  PROVE  ElectionInv'
<1>1. CASE UNCHANGED <<leader, lock>>
  BY <1>1 DEF ElectionInv, LockIsOfHolder, HoldsLock, Leaders
<1>2. CASE Replace(c)
  BY <1>2, StoppingKeepsLock DEF Replace
<1>3. CASE AskToStop(c)
  BY <1>1, <1>3, StoppingKeepsLock DEF AskToStop
<1>4. CASE Spawn(c)
  <2> DEFINE new == Starting(VersionOf[c], c)
  <2>1. new \in Leader /\ new.state = "spawned"
    BY ElectionAssumption DEF Starting, Leader, State
  <2> HIDE DEF new
  <2>2. /\ leader' = Append(leader, new)
        /\ lock' = lock
    BY <1>4 DEF Spawn, new
  <2>3. /\ leader' \in Seq(Leader)
        /\ Leaders' = Leaders \cup {Len(leader) + 1}
        /\ leader'[Len(leader) + 1] = new
        /\ \A k \in Leaders : leader'[k] = leader[k]
    BY <2>1, <2>2 DEF ElectionInv, Leaders
  <2>4. ASSUME NEW k \in Leaders', HoldsLock(k)' PROVE lock' = k
    BY <2>1, <2>2, <2>3, <2>4 DEF HoldsLock, ElectionInv, LockIsOfHolder
  <2> QED
    BY <2>3, <2>4 DEF ElectionInv, LockIsOfHolder
<1> QED
  BY <1>1, <1>2, <1>3, <1>4
    DEF Begin, Ensure, Stop, TakeStartLock, Check, ReplaceFails, WaitUntilGone, CleanUp,
        Probe, ChildExited, BeginStop, StopSeen, StopTimesOut

(* Deaths and time limits. *)
LEMMA FaultKeeps ==
  ASSUME ElectionInv, Fault
  PROVE  ElectionInv'
<1>1. CASE \E l \in Leaders : LeaderDies(l)
  BY <1>1, StateKeepsLock DEF LeaderDies, State
<1>2. ASSUME NEW c \in Clients, TimesOut(c) \/ ClientDies(c) PROVE ElectionInv'
  BY <1>2 DEF TimesOut, ClientDies, ElectionInv, LockIsOfHolder, HoldsLock, Leaders
<1>3. ASSUME NEW c \in Clients, ProbeTimesOut(c) PROVE ElectionInv'
  <2>1. CASE client[c].leader \in Leaders
    BY <1>3, <2>1, StateKeepsLock DEF ProbeTimesOut, State
  <2>2. CASE client[c].leader \notin Leaders
    BY <1>3, <2>2, NoSuchLeader DEF ProbeTimesOut
  <2> QED
    BY <2>1, <2>2
<1> QED
  BY <1>1, <1>2, <1>3 DEF Fault

LEMMA ElectionInvInit == Init => ElectionInv
<1> SUFFICES ASSUME Init PROVE ElectionInv
  OBVIOUS
<1>1. CASE leader = <<>>
  BY <1>1 DEF ElectionInv, LockIsOfHolder, Leaders
<1>2. CASE /\ leader = <<[Starting(1, Nobody) EXCEPT !.state = "serving"]>>
           /\ lock = 1
  <2>1. [Starting(1, Nobody) EXCEPT !.state = "serving"] \in Leader
    BY DEF Starting, Leader, State
  <2> QED
    BY <1>2, <2>1 DEF ElectionInv, LockIsOfHolder, Leaders
<1> QED
  BY <1>1, <1>2 DEF Init

LEMMA ElectionInvInductive == ElectionInv /\ [Next]_vars => ElectionInv'
<1> SUFFICES ASSUME ElectionInv, [Next]_vars PROVE ElectionInv'
  OBVIOUS
<1>1. CASE UNCHANGED vars
  BY <1>1 DEF vars, ElectionInv, LockIsOfHolder, HoldsLock, Leaders
<1> QED
  BY <1>1, LeadKeeps, ClientKeeps, FaultKeeps DEF Next

(***************************************************************************)
(* At most one leader process is between the lock of the state directory   *)
(* and its release (LeaderLock, election.rs), however many are started,    *)
(* stopped, replaced, killed or time out.                                  *)
(***************************************************************************)
THEOREM OneLeaderAtATime == Spec => []OneLeader
<1>1. ElectionInv => OneLeader
  BY DEF ElectionInv, LockIsOfHolder, OneLeader
<1> QED
  BY <1>1, ElectionInvInit, ElectionInvInductive, PTL DEF Spec

-----------------------------------------------------------------------------
(* The socket and the leader that serves *)

At == {"idle", "start", "check", "replace", "gone", "clean", "spawn", "probe",
       "stop", "wait", "done", "failed", "stopped"}
Client == [at : At, leader : Nat, stops : BOOLEAN]

\* A client in here has the start lock; a leader in here is the one of the name.
Inside == {"check", "replace", "gone", "clean", "spawn", "probe"}
Named == {"bound", "loading", "serving", "stopping"}

OneInside == \A c \in Clients : client[c].at \in Inside => startLock = c

(***************************************************************************)
(* The name is that of the one leader that has bound it and not yet left.  *)
(* A leader that has not bound it yet is watched by the client that has    *)
(* spawned it, under the start lock, and finds the name free; a client     *)
(* removes no name but that of a leader that has died.                     *)
(***************************************************************************)
Placed(leaders, name, clients) ==
  /\ \A l \in DOMAIN leaders : leaders[l].state \in Named => name = l
  /\ \A l \in DOMAIN leaders : leaders[l].state = "spawned" =>
       /\ leaders[l].parent \in Clients
       /\ clients[leaders[l].parent].at = "probe" /\ clients[leaders[l].parent].leader = l
       /\ name = Nobody
  /\ \A c \in Clients : clients[c].at = "clean" => name = Nobody \/ leaders[name].state = Died
  /\ \A c \in Clients : clients[c].at = "spawn" => name = Nobody
  /\ \A c \in Clients : clients[c].at = "probe" =>
       /\ clients[c].leader \in DOMAIN leaders
       /\ leaders[clients[c].leader].version = VersionOf[c]
       /\ name \in {Nobody, clients[c].leader}
  /\ \A c \in Clients : clients[c].at = "done" =>
       /\ clients[c].leader \in DOMAIN leaders
       /\ leaders[clients[c].leader].version >= VersionOf[c]

ReachInv ==
  /\ ElectionInv
  /\ client \in [Clients -> Client]
  /\ socket \in Leaders \cup {Nobody}
  /\ orphaned \in BOOLEAN
  /\ OneInside
  /\ ~orphaned => Placed(leader, socket, client)

(* A leader keeps its version and its parent. *)
LEMMA InStateKeepsRest ==
  ASSUME ElectionInv, NEW l \in Leaders, NEW state \in State
  PROVE  /\ DOMAIN InState(l, state) = DOMAIN leader
         /\ InState(l, state)[l].state = state
         /\ InState(l, state)[l].version = leader[l].version
         /\ InState(l, state)[l].parent = leader[l].parent
         /\ \A k \in Leaders \ {l} : InState(l, state)[k] = leader[k]
<1>1. leader \in Seq(Leader) /\ l \in DOMAIN leader
  BY DEF ElectionInv, Leaders
<1>2. leader[l] \in Leader
  BY <1>1
<1> DEFINE new == [leader[l] EXCEPT !.state = state]
<1>3. new.state = state /\ new.version = leader[l].version /\ new.parent = leader[l].parent
  BY <1>2 DEF Leader
<1>4. InState(l, state) = [leader EXCEPT ![l] = new]
  BY <1>1 DEF InState
<1> HIDE DEF new
<1> QED
  BY <1>1, <1>3, <1>4 DEF Leaders

(* A client that moves keeps the rest. *)
LEMMA ClientMoved ==
  ASSUME client \in [Clients -> Client], NEW c \in Clients, NEW at \in At, NEW l \in Nat
  PROVE  /\ Moved(c, at) \in [Clients -> Client]
         /\ Moved(c, at)[c].at = at /\ Moved(c, at)[c].leader = client[c].leader
         /\ MovedWith(c, at, l) \in [Clients -> Client]
         /\ MovedWith(c, at, l)[c].at = at /\ MovedWith(c, at, l)[c].leader = l
         /\ \A d \in Clients \ {c} : Moved(c, at)[d] = client[d] /\ MovedWith(c, at, l)[d] = client[d]
<1>1. client[c] \in Client
  OBVIOUS
<1> DEFINE one == [client[c] EXCEPT !.at = at]
           two == [client[c] EXCEPT !.at = at, !.leader = l]
<1>2. one \in Client /\ one.at = at /\ one.leader = client[c].leader
  BY <1>1 DEF Client
<1>3. two \in Client /\ two.at = at /\ two.leader = l
  BY <1>1 DEF Client
<1>4. Moved(c, at) = [client EXCEPT ![c] = one]
  BY DEF Moved
<1>5. MovedWith(c, at, l) = [client EXCEPT ![c] = two]
  BY DEF MovedWith
<1> HIDE DEF one, two
<1> QED
  BY <1>2, <1>3, <1>4, <1>5

(* A leader that goes on, leaves or dies. *)
LEMMA LeaderMovesPlaced ==
  ASSUME ElectionInv, NEW l \in Leaders, NEW state \in State, NEW name, NEW clients,
         Placed(leader, name, clients),
         state = Died \/ (leader[l].state \in Named /\ state \in Named \cup {"closed"})
  PROVE  Placed(InState(l, state), name, clients)
<1> DEFINE new == InState(l, state)
<1>1. /\ DOMAIN new = DOMAIN leader /\ l \in DOMAIN leader
      /\ new[l].state = state /\ new[l].version = leader[l].version /\ new[l].parent = leader[l].parent
      /\ \A k \in DOMAIN leader \ {l} : new[k] = leader[k]
  BY InStateKeepsRest DEF Leaders
<1>2. \A k \in DOMAIN leader : new[k].version = leader[k].version /\ new[k].parent = leader[k].parent
  BY <1>1
<1> HIDE DEF new
<1>3. \A k \in DOMAIN new : new[k].state \in Named => name = k
  BY <1>1 DEF Placed, Named, Died
<1>4. \A k \in DOMAIN new : new[k].state = "spawned" => leader[k].state = "spawned"
  BY <1>1 DEF Named, Died
<1>5. \A c \in Clients : clients[c].at = "clean" => name = Nobody \/ new[name].state = Died
  <2> SUFFICES ASSUME NEW c \in Clients, clients[c].at = "clean", name # Nobody PROVE new[name].state = Died
    OBVIOUS
  <2>1. leader[name].state = Died
    BY DEF Placed
  <2>2. CASE name \in DOMAIN leader
    BY <1>1, <2>1, <2>2 DEF Named, Died
  <2>3. CASE name \notin DOMAIN leader
    BY <1>1, <2>1, <2>3 DEF new, InState, ElectionInv, Leaders
  <2> QED
    BY <2>2, <2>3
<1> QED
  BY <1>1, <1>2, <1>3, <1>4, <1>5 DEF Placed, new

(* The name is free when no leader has it. *)
LEMMA NameFreedPlaced ==
  ASSUME NEW leaders, NEW name, NEW clients, Placed(leaders, name, clients),
         \A l \in DOMAIN leaders : leaders[l].state \notin Named
  PROVE  Placed(leaders, Nobody, clients)
  BY DEF Placed

(* A client that does not come to spawn, and leaves no leader that has not started. *)
LEMMA ClientMovesPlaced ==
  ASSUME NEW leaders, NEW name, NEW clients, NEW next, NEW c \in Clients, Placed(leaders, name, clients),
         \A d \in Clients \ {c} : next[d] = clients[d],
         \/ clients[c].at # "probe"
         \/ \A l \in DOMAIN leaders : leaders[l].state = "spawned" => leaders[l].parent # c,
         next[c].at # "probe",
         next[c].at = "clean" => name = Nobody \/ leaders[name].state = Died,
         next[c].at = "spawn" => name = Nobody,
         next[c].at = "done" =>
           next[c].leader \in DOMAIN leaders /\ leaders[next[c].leader].version >= VersionOf[c]
  PROVE  Placed(leaders, name, next)
<1>1. \A l \in DOMAIN leaders : leaders[l].state = "spawned" => leaders[l].parent # c
  BY DEF Placed
<1>2. \A l \in DOMAIN leaders : leaders[l].state = "spawned" =>
        /\ leaders[l].parent \in Clients
        /\ next[leaders[l].parent].at = "probe" /\ next[leaders[l].parent].leader = l
        /\ name = Nobody
  BY <1>1 DEF Placed
<1>3. \A d \in Clients : next[d].at = "probe" =>
        /\ next[d].leader \in DOMAIN leaders
        /\ leaders[next[d].leader].version = VersionOf[d]
        /\ name \in {Nobody, next[d].leader}
  BY DEF Placed
<1>4. \A d \in Clients : next[d].at = "done" =>
        next[d].leader \in DOMAIN leaders /\ leaders[next[d].leader].version >= VersionOf[d]
  BY DEF Placed
<1> QED
  BY <1>2, <1>3, <1>4 DEF Placed

(* Who has the start lock is the only one inside. *)
LEMMA StartLockKept ==
  ASSUME OneInside, NEW c \in Clients, client'[c].at \in At,
         \A d \in Clients \ {c} : client'[d] = client[d],
         \/ client'[c].at \notin Inside /\ startLock' = Released(c)
         \/ client'[c].at \notin Inside /\ client[c].at \in Inside /\ startLock' = Nobody
         \/ client'[c].at \notin Inside /\ startLock' = startLock
         \/ client[c].at \in Inside /\ startLock' = startLock
         \/ startLock = Nobody /\ startLock' = c
  PROVE  OneInside'
  BY NobodyAssumption DEF OneInside, Released

(* The types of what ReachInv relates. *)
LEMMA SocketTyped ==
  ASSUME ReachInv
  PROVE  /\ leader \in Seq(Leader) /\ Leaders = 1 .. Len(leader) /\ Len(leader) \in Nat
         /\ socket \in Nat /\ (socket # Nobody => socket \in Leaders)
         /\ \A l \in Leaders : leader[l] \in Leader /\ l \in Nat /\ l # Nobody
         /\ \A c \in Clients : client[c] \in Client /\ client[c].leader \in Nat
<1>1. leader \in Seq(Leader) /\ Leaders = 1 .. Len(leader) /\ Len(leader) \in Nat
  BY DEF ReachInv, ElectionInv, Leaders
<1>2. \A l \in Leaders : leader[l] \in Leader /\ l \in Nat /\ l # Nobody
  BY <1>1 DEF Nobody
<1>3. \A c \in Clients : client[c] \in Client /\ client[c].leader \in Nat
  BY DEF ReachInv, Client
<1> QED
  BY <1>1, <1>2, <1>3 DEF ReachInv, Nobody

(* The step of a leader. *)
LEMMA LeadKeepsReach ==
  ASSUME ReachInv, ElectionInv', NEW l \in Leaders, Lead(l)
  PROVE  ReachInv'
<1>1. UNCHANGED <<client, startLock, orphaned>>
  BY DEF Lead, Bind, Acquire, Load, RemoveSocket, Unlock
<1>2. \E state \in State : leader' = InState(l, state)
  BY DEF Lead, Bind, Acquire, Load, RemoveSocket, Unlock, State
<1>3. Leaders' = Leaders
  BY <1>2, InStateKeepsRest DEF ReachInv, Leaders
<1>4. socket' \in {socket, Nobody, l}
  BY DEF Lead, Bind, Acquire, Load, RemoveSocket, Unlock
<1>5. OneInside'
  BY <1>1 DEF ReachInv, OneInside
<1> SUFFICES ASSUME ~orphaned PROVE Placed(leader', socket', client)
  BY <1>1, <1>3, <1>4, <1>5 DEF ReachInv
<1>6. Placed(leader, socket, client) /\ ElectionInv
  BY DEF ReachInv
<1>7. CASE leader[l].state \in Named /\ socket' = socket /\ \E state \in Named \cup {"closed"} : leader' = InState(l, state)
  BY <1>6, <1>7, LeaderMovesPlaced DEF Named, State
<1>8. CASE leader' = InState(l, Died) /\ socket' = socket
  BY <1>6, <1>8, LeaderMovesPlaced DEF State
<1>9. CASE RemoveSocket(l)
  <2>1. leader[l].state = "stopping" /\ leader' = InState(l, "closed") /\ socket' = Nobody
    BY <1>9 DEF RemoveSocket
  <2>2. Placed(leader', socket, client)
    BY <1>6, <2>1, LeaderMovesPlaced DEF Named, State
  <2>3. \A k \in DOMAIN leader' : leader'[k].state \notin Named
    <3>1. /\ DOMAIN leader' = DOMAIN leader /\ l \in DOMAIN leader /\ leader'[l].state = "closed"
          /\ \A k \in DOMAIN leader \ {l} : leader'[k] = leader[k]
      BY <1>6, <2>1, InStateKeepsRest DEF State, Leaders
    <3>2. socket = l
      BY <1>6, <2>1, <3>1 DEF Placed, Named
    <3> QED
      BY <1>6, <3>1, <3>2 DEF Placed, Named
  <2> QED
    BY <2>1, <2>2, <2>3, NameFreedPlaced
<1>10. CASE leader[l].state = "spawned" /\ socket = Nobody /\ socket' = l /\ leader' = InState(l, "bound")
  <2>1. /\ DOMAIN leader' = DOMAIN leader /\ l \in DOMAIN leader /\ leader'[l].state = "bound"
        /\ leader'[l].version = leader[l].version
        /\ \A k \in DOMAIN leader \ {l} : leader'[k] = leader[k]
    BY <1>6, <1>10, InStateKeepsRest DEF State, Leaders
  <2> DEFINE c == leader[l].parent
  <2>2. c \in Clients /\ client[c].at = "probe" /\ client[c].leader = l /\ startLock = c
    BY <1>6, <1>10, <2>1 DEF Placed, ReachInv, OneInside, Inside
  <2>3. \A k \in DOMAIN leader : leader[k].state = "spawned" => k = l
    BY <1>6, <2>2 DEF Placed, ReachInv, OneInside, Inside
  <2>4. \A k \in DOMAIN leader : leader[k].state \notin Named
    BY <1>6, <1>10, SocketTyped DEF Placed, Leaders
  <2>5. \A d \in Clients : client[d].at \in Inside => d = c
    BY <2>2 DEF ReachInv, OneInside
  <2> HIDE DEF c
  <2>6. \A d \in Clients : client[d].at \notin {"clean", "spawn"} /\ (client[d].at = "probe" => client[d].leader = l)
    BY <2>2, <2>5 DEF Inside
  <2>7. \A k \in DOMAIN leader' : leader'[k].version = leader[k].version
    BY <2>1
  <2> QED
    BY <1>6, <1>10, <2>1, <2>3, <2>4, <2>6, <2>7 DEF Placed, Named
<1> QED
  BY <1>7, <1>8, <1>9, <1>10 DEF Lead, Bind, Acquire, Load, Unlock, Named

(* The step of a client that does not come to watch a leader it has spawned. *)
LEMMA ClientReach ==
  ASSUME ReachInv, ElectionInv', NEW c \in Clients,
         Leaders' = Leaders, socket' \in Leaders \cup {Nobody},
         client' \in [Clients -> Client],
         \A d \in Clients \ {c} : client'[d] = client[d],
         \/ client'[c].at \notin Inside /\ startLock' = Released(c)
         \/ client'[c].at \notin Inside /\ client[c].at \in Inside /\ startLock' = Nobody
         \/ client'[c].at \notin Inside /\ startLock' = startLock
         \/ client[c].at \in Inside /\ startLock' = startLock
         \/ startLock = Nobody /\ startLock' = c,
         orphaned' \in BOOLEAN, orphaned => orphaned',
         ~orphaned' => Placed(leader', socket', client),
         ~orphaned' =>
           \/ client[c].at # "probe"
           \/ \A l \in DOMAIN leader' : leader'[l].state = "spawned" => leader'[l].parent # c,
         client'[c].at # "probe",
         (~orphaned' /\ client'[c].at = "clean") => socket' = Nobody \/ leader'[socket'].state = Died,
         (~orphaned' /\ client'[c].at = "spawn") => socket' = Nobody,
         (~orphaned' /\ client'[c].at = "done") =>
           client'[c].leader \in Leaders /\ leader'[client'[c].leader].version >= VersionOf[c]
  PROVE  ReachInv'
<1>1. client'[c] \in Client /\ client'[c].at \in At
  BY DEF Client
<1>2. OneInside'
  BY <1>1, StartLockKept DEF ReachInv
<1>3. DOMAIN leader' = Leaders
  BY DEF Leaders
<1>4. ASSUME ~orphaned' PROVE Placed(leader', socket', client')
  <2>1. Placed(leader', socket', client)
    BY <1>4
  <2> QED
    BY <1>3, <1>4, <2>1, ClientMovesPlaced
<1> QED
  BY <1>2, <1>4 DEF ReachInv

(* The step of a client that only moves on. *)
LEMMA MovedReach ==
  ASSUME ReachInv, ElectionInv', NEW c \in Clients, NEW at \in At, NEW l \in Nat,
         UNCHANGED <<leader, socket, orphaned>>,
         client' \in {Moved(c, at), MovedWith(c, at, l)},
         \/ startLock' = startLock /\ (at \notin Inside \/ client[c].at \in Inside)
         \/ startLock = Nobody /\ startLock' = c,
         at \notin {"probe", "spawn", "done"}, client[c].at # "probe",
         at = "clean" => ~IsConnectable
  PROVE  ReachInv'
<1>1. /\ client' \in [Clients -> Client] /\ client'[c].at = at
      /\ \A d \in Clients \ {c} : client'[d] = client[d]
  <2>1. client \in [Clients -> Client]
    BY DEF ReachInv
  <2>2. client' = Moved(c, at) \/ client' = MovedWith(c, at, l)
    OBVIOUS
  <2> QED
    BY ONLY <2>1, <2>2, ClientMoved, c \in Clients, at \in At, l \in Nat
<1>2. Leaders' = Leaders
  BY DEF Leaders
<1>3. at = "clean" => socket = Nobody \/ leader[socket].state = Died
  BY DEF IsConnectable, Lives
<1>4. ReachInv
  OBVIOUS
<1> QED
  BY <1>1, <1>2, <1>3, ClientReach DEF ReachInv

(* A client that gives up has left a leader to start on its own, or none. *)
LEMMA GivesUpReach ==
  ASSUME ReachInv, ElectionInv', NEW c \in Clients, GiveUp(c),
         Leaders' = Leaders, socket' = socket,
         ~orphaned => Placed(leader', socket, client),
         \A l \in Leaders : leader'[l].state = "spawned" =>
           leader[l].state = "spawned" /\ leader'[l].parent = leader[l].parent
  PROVE  ReachInv'
<1>1. /\ client' \in [Clients -> Client] /\ client'[c].at = "failed"
      /\ \A d \in Clients \ {c} : client'[d] = client[d]
  BY ClientMoved DEF ReachInv, GiveUp, At
<1>2. orphaned' = LeavesOrphan(c) /\ startLock' = Released(c)
  BY DEF GiveUp
<1>3. orphaned' \in BOOLEAN /\ (orphaned => orphaned')
  BY <1>2 DEF LeavesOrphan, ReachInv
<1>4. ~orphaned' => \A l \in DOMAIN leader' : leader'[l].state = "spawned" => leader'[l].parent # c
  BY <1>2 DEF LeavesOrphan, Leaders
<1>5. "failed" \notin Inside
  BY DEF Inside
<1>6. socket' \in Leaders \cup {Nobody}
  BY DEF ReachInv
<1> QED
  BY <1>1, <1>2, <1>3, <1>4, <1>5, <1>6, ClientReach

(* ensure_leader returns with the leader of the name. *)
LEMMA ReturnReach ==
  ASSUME ReachInv, ElectionInv', NEW c \in Clients, client[c].at \in Inside, socket # Nobody,
         Return(c, socket), UNCHANGED <<leader, socket, orphaned>>,
         (~orphaned /\ ~client[c].stops) => leader[socket].version >= VersionOf[c]
  PROVE  ReachInv'
<1> DEFINE at == IF client[c].stops THEN "stop" ELSE "done"
<1>1. socket \in Nat /\ socket \in Leaders /\ at \in At
  BY SocketTyped DEF At
<1>2. client' = MovedWith(c, at, socket) /\ startLock' = Nobody
  BY DEF Return
<1>3. /\ client' \in [Clients -> Client] /\ client'[c].at = at /\ client'[c].leader = socket
      /\ \A d \in Clients \ {c} : client'[d] = client[d]
  BY <1>1, <1>2, ClientMoved DEF ReachInv
<1>4. at \notin Inside /\ at \notin {"probe", "clean", "spawn"} /\ (at = "done" => ~client[c].stops)
  BY DEF Inside
<1> HIDE DEF at
<1>5. Leaders' = Leaders /\ DOMAIN leader' = Leaders
  BY DEF Leaders
<1>6. ASSUME ~orphaned, client[c].at = "probe"
      PROVE  \A l \in DOMAIN leader' : leader'[l].state = "spawned" => leader'[l].parent # c
  <2> SUFFICES ASSUME NEW l \in Leaders, leader[l].state = "spawned" PROVE FALSE
    BY <1>5
  <2>1. socket = Nobody
    BY <1>6, <1>5 DEF ReachInv, Placed
  <2> QED
    BY <2>1
<1>7. ~orphaned => Placed(leader', socket', client)
  BY DEF ReachInv
<1>8. orphaned' \in BOOLEAN /\ socket' \in Leaders \cup {Nobody}
  BY DEF ReachInv
<1> QED
  BY <1>1, <1>2, <1>3, <1>4, <1>5, <1>6, <1>7, <1>8, ClientReach

(* A leader that is told to stop, or is killed. *)
LEMMA StoppedPlaced ==
  ASSUME ReachInv, NEW l, NEW state \in {"stopping", Died},
         state = "stopping" => leader[l].state = "serving",
         leader' = InState(l, state)
  PROVE  /\ Leaders' = Leaders
         /\ ~orphaned => Placed(leader', socket, client)
         /\ \A k \in Leaders : leader'[k].state = "spawned" =>
              leader[k].state = "spawned" /\ leader'[k].parent = leader[k].parent
         /\ (state = Died /\ l \in Leaders) => leader'[l].state # "spawned"
<1>1. ElectionInv /\ state \in State
  BY DEF ReachInv, State
<1>2. CASE l \in Leaders
  <2>1. /\ DOMAIN leader' = DOMAIN leader
        /\ leader'[l].state = state
        /\ leader'[l].parent = leader[l].parent
        /\ \A k \in Leaders \ {l} : leader'[k] = leader[k]
    BY <1>1, <1>2, InStateKeepsRest
  <2>2. ~orphaned => Placed(leader', socket, client)
    BY <1>1, <1>2, LeaderMovesPlaced DEF ReachInv, Named
  <2> QED
    BY <2>1, <2>2 DEF Leaders, Died
<1>3. CASE l \notin Leaders
  <2>1. leader' = leader
    BY <1>1, <1>3 DEF ElectionInv, InState, Leaders
  <2> QED
    BY <1>3, <2>1 DEF Leaders, ReachInv
<1> QED
  BY <1>2, <1>3

(* use_or_replace_running_leader *)
LEMMA CheckReach ==
  ASSUME ReachInv, ElectionInv', NEW c \in Clients, Check(c)
  PROVE  ReachInv'
<1>1. IsAt(c, "check") /\ UNCHANGED <<leader, socket, orphaned>>
  BY DEF Check
<1>2. CASE ~IsConnectable /\ client' = Moved(c, "clean") /\ UNCHANGED startLock
  BY <1>1, <1>2, MovedReach, 0 \in Nat DEF IsAt, At, Inside
<1>3. CASE /\ SaysHello(socket) /\ ~IsNewer(leader[socket].version, VersionOf[c])
           /\ Return(c, socket)
  <2>1. socket # Nobody /\ socket \in Leaders
    BY <1>3, SocketTyped DEF SaysHello
  <2>2. leader[socket].version \in Nat /\ VersionOf[c] \in Nat
    BY <2>1, SocketTyped, ElectionAssumption DEF Leader
  <2>3. leader[socket].version >= VersionOf[c]
    BY <1>3, <2>2 DEF IsNewer
  <2>4. client[c].at \in Inside /\ client[c].at # "probe"
    BY <1>1 DEF IsAt, Inside
  <2> QED
    BY <1>1, <1>3, <2>1, <2>3, <2>4, ReturnReach
<1>4. CASE client' = MovedWith(c, "replace", socket) /\ UNCHANGED startLock
  BY <1>1, <1>4, MovedReach, SocketTyped DEF IsAt, At, Inside
<1> QED
  BY <1>2, <1>3, <1>4 DEF Check

(* replace_running_leader, which may fail after the leader was told. *)
LEMMA ReplaceReach ==
  ASSUME ReachInv, ElectionInv', NEW c \in Clients, Replace(c)
  PROVE  ReachInv'
<1> DEFINE l == client[c].leader
<1>1. /\ client[c].at = "replace" /\ leader[l].state = "serving"
      /\ leader' = InState(l, "stopping") /\ socket' = socket
  BY DEF Replace, IsAt
<1>2. /\ Leaders' = Leaders
      /\ ~orphaned => Placed(leader', socket, client)
      /\ \A k \in Leaders : leader'[k].state = "spawned" =>
           leader[k].state = "spawned" /\ leader'[k].parent = leader[k].parent
  BY <1>1, StoppedPlaced
<1> HIDE DEF l
<1>3. CASE client' = Moved(c, "gone") /\ UNCHANGED <<startLock, orphaned>>
  <2>1. /\ client' \in [Clients -> Client] /\ client'[c].at = "gone"
        /\ \A d \in Clients \ {c} : client'[d] = client[d]
    BY <1>3, ClientMoved DEF ReachInv, At
  <2>2. client[c].at \in Inside /\ client[c].at # "probe"
    BY <1>1 DEF Inside
  <2>3. socket' \in Leaders \cup {Nobody} /\ orphaned' \in BOOLEAN
    BY <1>1, <1>3 DEF ReachInv
  <2> QED
    BY <1>1, <1>2, <1>3, <2>1, <2>2, <2>3, ClientReach
<1>4. CASE GiveUp(c)
  BY <1>1, <1>2, <1>4, GivesUpReach
<1> QED
  BY <1>3, <1>4 DEF Replace

(* cleanup_stale_socket: the name was that of a leader that has died. *)
LEMMA CleanUpReach ==
  ASSUME ReachInv, ElectionInv', NEW c \in Clients, CleanUp(c)
  PROVE  ReachInv'
<1>1. /\ client[c].at = "clean" /\ socket' = Nobody /\ client' = Moved(c, "spawn")
      /\ UNCHANGED <<leader, lock, startLock, orphaned>>
  BY DEF CleanUp, IsAt
<1>2. /\ client' \in [Clients -> Client] /\ client'[c].at = "spawn"
      /\ \A d \in Clients \ {c} : client'[d] = client[d]
  BY <1>1, ClientMoved DEF ReachInv, At
<1>3. ASSUME ~orphaned PROVE Placed(leader', socket', client)
  <2>1. Placed(leader, socket, client)
    BY <1>3 DEF ReachInv
  <2>2. \A l \in DOMAIN leader : leader[l].state \notin Named
    <3> SUFFICES ASSUME NEW l \in DOMAIN leader, leader[l].state \in Named PROVE FALSE
      OBVIOUS
    <3>1. socket = l /\ l # Nobody
      BY <2>1, SocketTyped DEF Placed, Leaders
    <3>2. leader[socket].state = Died
      BY <1>1, <2>1, <3>1 DEF Placed
    <3> QED
      BY <3>1, <3>2 DEF Named, Died
  <2>3. Placed(leader, Nobody, client)
    BY <2>1, <2>2, NameFreedPlaced
  <2> QED
    BY <1>1, <2>3
<1>4. client[c].at \in Inside /\ client[c].at # "probe"
  BY <1>1 DEF Inside
<1>5. Leaders' = Leaders /\ socket' \in Leaders \cup {Nobody} /\ orphaned' \in BOOLEAN
  BY <1>1 DEF ReachInv, Leaders
<1> QED
  BY <1>1, <1>2, <1>3, <1>4, <1>5, ClientReach

(* spawn_leader: no other leader is starting, and the name is free. *)
LEMMA SpawnReach ==
  ASSUME ReachInv, ElectionInv', NEW c \in Clients, Spawn(c)
  PROVE  ReachInv'
<1> DEFINE n == Len(leader) + 1
           new == Starting(VersionOf[c], c)
<1>1. /\ client[c].at = "spawn" /\ leader' = Append(leader, new)
      /\ client' = MovedWith(c, "probe", n)
      /\ UNCHANGED <<socket, startLock, orphaned>>
  BY DEF Spawn, IsAt
<1>2. new.state = "spawned" /\ new.version = VersionOf[c] /\ new.parent = c
  BY DEF Starting
<1> HIDE DEF new
<1>3. /\ DOMAIN leader = 1 .. Len(leader) /\ Len(leader) \in Nat /\ n \in Nat /\ n \notin DOMAIN leader
      /\ DOMAIN leader' = DOMAIN leader \cup {n}
      /\ leader'[n] = new
      /\ \A k \in DOMAIN leader : leader'[k] = leader[k]
  BY <1>1, SocketTyped DEF Leaders
<1> HIDE DEF n
<1>4. /\ client' \in [Clients -> Client] /\ client'[c].at = "probe" /\ client'[c].leader = n
      /\ \A d \in Clients \ {c} : client'[d] = client[d]
  BY <1>1, <1>3, ClientMoved DEF ReachInv, At
<1>5. client[c].at \in Inside /\ client'[c].at \in At
  BY <1>1, <1>4 DEF Inside, At
<1>6. OneInside'
  BY <1>1, <1>4, <1>5, StartLockKept DEF ReachInv
<1>7. socket' \in Leaders' \cup {Nobody}
  BY <1>1, <1>3 DEF ReachInv, Leaders
<1>8. \A d \in Clients \ {c} : client[d].at \notin Inside
  BY <1>5, NobodyAssumption DEF ReachInv, OneInside
<1>9. ASSUME ~orphaned PROVE Placed(leader', socket', client')
  <2>1. Placed(leader, socket, client) /\ socket = Nobody
    BY <1>1, <1>9 DEF ReachInv, Placed
  <2>2. \A k \in DOMAIN leader : leader[k].state # "spawned" /\ leader[k].state \notin Named
    <3>1. \A k \in DOMAIN leader : leader[k].state # "spawned"
      BY <1>1, <1>8, <2>1 DEF Placed, Inside
    <3>2. \A k \in DOMAIN leader : leader[k].state \notin Named
      BY <2>1, SocketTyped DEF Placed, Leaders
    <3> QED
      BY <3>1, <3>2
  <2>3. \A k \in DOMAIN leader' : leader'[k].state \in Named => socket' = k
    BY <1>1, <1>2, <1>3, <2>2 DEF Named
  <2>4. \A k \in DOMAIN leader' : leader'[k].state = "spawned" =>
          /\ leader'[k].parent \in Clients
          /\ client'[leader'[k].parent].at = "probe" /\ client'[leader'[k].parent].leader = k
          /\ socket' = Nobody
    BY <1>1, <1>2, <1>3, <1>4, <2>1, <2>2
  <2>5. \A d \in Clients : client'[d].at \notin {"clean", "spawn"} /\ (client'[d].at = "probe" => d = c)
    BY <1>4, <1>8 DEF Inside
  <2>6. \A d \in Clients : client'[d].at = "probe" =>
          /\ client'[d].leader \in DOMAIN leader'
          /\ leader'[client'[d].leader].version = VersionOf[d]
          /\ socket' \in {Nobody, client'[d].leader}
    BY <1>1, <1>2, <1>3, <1>4, <2>1, <2>5
  <2>7. \A d \in Clients : client'[d].at = "done" =>
          /\ client'[d].leader \in DOMAIN leader'
          /\ leader'[client'[d].leader].version >= VersionOf[d]
    <3> SUFFICES ASSUME NEW d \in Clients, client'[d].at = "done"
                 PROVE  /\ client'[d].leader \in DOMAIN leader'
                        /\ leader'[client'[d].leader].version >= VersionOf[d]
      OBVIOUS
    <3>1. d # c /\ client'[d] = client[d]
      BY <1>4
    <3>2. client[d].leader \in DOMAIN leader /\ leader[client[d].leader].version >= VersionOf[d]
      BY <2>1, <3>1 DEF Placed
    <3> QED
      BY <1>3, <3>1, <3>2
  <2> QED
    BY <2>3, <2>4, <2>5, <2>6, <2>7 DEF Placed
<1> QED
  BY <1>1, <1>4, <1>6, <1>7, <1>9 DEF ReachInv

(* probe: it is the leader the client has spawned that answers. *)
LEMMA ProbeReach ==
  ASSUME ReachInv, ElectionInv', NEW c \in Clients, Probe(c)
  PROVE  ReachInv'
<1>1. /\ client[c].at = "probe" /\ socket # Nobody /\ leader[socket].state = "serving"
      /\ Return(c, socket) /\ UNCHANGED <<leader, socket, orphaned>>
  BY DEF Probe, IsAt, IsConnectable
<1>2. ASSUME ~orphaned PROVE leader[socket].version >= VersionOf[c]
  <2>1. socket = client[c].leader /\ leader[socket].version = VersionOf[c]
    BY <1>1, <1>2 DEF ReachInv, Placed
  <2>2. VersionOf[c] \in Nat
    BY ElectionAssumption
  <2> QED
    BY <2>1, <2>2
<1>3. client[c].at \in Inside
  BY <1>1 DEF Inside
<1> QED
  BY <1>1, <1>2, <1>3, ReturnReach

(* turtletap stop *)
LEMMA StopReach ==
  ASSUME ReachInv, ElectionInv', NEW c \in Clients, Stop(c)
  PROVE  ReachInv'
<1>1. CASE BeginStop(c) /\ client' = Moved(c, "stopped")
  BY <1>1, MovedReach, 0 \in Nat DEF BeginStop, IsAt, At, Inside
<1>2. CASE /\ BeginStop(c) /\ socket # Nobody
           /\ client' = [client EXCEPT ![c] = [at |-> "stop", leader |-> socket, stops |-> TRUE]]
  <2>1. [at |-> "stop", leader |-> socket, stops |-> TRUE] \in Client
    BY SocketTyped DEF Client, At
  <2>2. client \in [Clients -> Client]
    BY DEF ReachInv
  <2>3. /\ client' \in [Clients -> Client] /\ client'[c].at = "stop"
        /\ \A d \in Clients \ {c} : client'[d] = client[d]
    BY <1>2, <2>1, <2>2
  <2>4. UNCHANGED <<leader, socket, startLock, orphaned>> /\ client[c].at = "idle"
    BY <1>2 DEF BeginStop, IsAt
  <2>5. Leaders' = Leaders /\ "stop" \notin Inside
    BY <2>4 DEF Leaders, Inside
  <2>6. /\ socket' \in Leaders \cup {Nobody} /\ orphaned' \in BOOLEAN
        /\ ~orphaned' => Placed(leader', socket', client)
    BY <2>4 DEF ReachInv
  <2> QED
    BY <2>3, <2>4, <2>5, <2>6, ClientReach
<1>3. CASE AskToStop(c)
  <2> DEFINE l == client[c].leader
  <2>1. /\ client[c].at = "stop" /\ UNCHANGED <<socket, startLock, orphaned>>
        /\ client' = Moved(c, "wait") \/ client' = Moved(c, "start")
        /\ leader' = leader \/ (leader[l].state = "serving" /\ leader' = InState(l, "stopping"))
    BY <1>3 DEF AskToStop, IsAt
  <2>2. Leaders' = Leaders /\ (~orphaned => Placed(leader', socket, client))
    BY <2>1, StoppedPlaced DEF Leaders, ReachInv
  <2> HIDE DEF l
  <2>3. PICK at \in {"wait", "start"} : client' = Moved(c, at)
    BY <2>1
  <2>4. /\ client' \in [Clients -> Client] /\ client'[c].at = at
        /\ \A d \in Clients \ {c} : client'[d] = client[d]
    BY <2>3, ClientMoved DEF ReachInv, At
  <2>5. at \notin Inside
    BY DEF Inside
  <2>6. socket' \in Leaders \cup {Nobody} /\ orphaned' \in BOOLEAN
    BY <2>1 DEF ReachInv
  <2> QED
    BY <2>1, <2>2, <2>4, <2>5, <2>6, ClientReach
<1>4. CASE StopSeen(c)
  BY <1>4, MovedReach, 0 \in Nat DEF StopSeen, IsAt, At, Inside
<1>5. CASE StopTimesOut(c)
  BY <1>5, MovedReach, 0 \in Nat DEF StopTimesOut, IsAt, At, Inside
<1> QED
  BY <1>1, <1>2, <1>3, <1>4, <1>5 DEF Stop, BeginStop, IsConnectable

(* The steps of a client. *)
LEMMA ClientKeepsReach ==
  ASSUME ReachInv, ElectionInv', NEW c \in Clients, Begin(c) \/ Ensure(c) \/ Stop(c)
  PROVE  ReachInv'
<1>1. CASE Begin(c)
  BY <1>1, MovedReach, 0 \in Nat DEF Begin, IsAt, At, Inside
<1>2. CASE TakeStartLock(c)
  BY <1>2, MovedReach, 0 \in Nat DEF TakeStartLock, IsAt, At, Inside
<1>3. CASE WaitUntilGone(c)
  BY <1>3, MovedReach, 0 \in Nat DEF WaitUntilGone, IsAt, At, Inside
<1>4. CASE ReplaceFails(c) \/ ChildExited(c)
  <2>1. GiveUp(c) /\ UNCHANGED <<leader, socket>>
    BY <1>4 DEF ReplaceFails, ChildExited
  <2> QED
    BY <2>1, GivesUpReach DEF ReachInv, Leaders
<1> QED
  BY <1>1, <1>2, <1>3, <1>4, CheckReach, ReplaceReach, CleanUpReach, SpawnReach, ProbeReach, StopReach
    DEF Ensure

(* The deadline of the probe: the client kills the leader it watches. *)
LEMMA ProbeTimesOutReach ==
  ASSUME ReachInv, ElectionInv', NEW c \in Clients, ProbeTimesOut(c)
  PROVE  ReachInv'
<1> DEFINE l == client[c].leader
<1>1. /\ client[c].at = "probe" /\ leader' = InState(l, Died) /\ client' = Moved(c, "failed")
      /\ startLock' = Released(c) /\ UNCHANGED <<socket, orphaned>>
  BY DEF ProbeTimesOut, IsAt
<1>2. /\ Leaders' = Leaders
      /\ ~orphaned => Placed(leader', socket, client)
      /\ \A k \in Leaders : leader'[k].state = "spawned" =>
           leader[k].state = "spawned" /\ leader'[k].parent = leader[k].parent
      /\ l \in Leaders => leader'[l].state # "spawned"
  BY <1>1, StoppedPlaced DEF Died
<1>3. /\ client' \in [Clients -> Client] /\ client'[c].at = "failed"
      /\ \A d \in Clients \ {c} : client'[d] = client[d]
  BY <1>1, ClientMoved DEF ReachInv, At
<1>4. ~orphaned => \A k \in DOMAIN leader' : leader'[k].state = "spawned" => leader'[k].parent # c
  <2> SUFFICES ASSUME ~orphaned, NEW k \in Leaders, leader'[k].state = "spawned", leader'[k].parent = c
               PROVE  FALSE
    BY <1>2 DEF Leaders
  <2>1. client[c].leader = k
    BY <1>2 DEF Placed, ReachInv, Leaders
  <2> QED
    BY <1>2, <2>1
<1> HIDE DEF l
<1>5. socket' \in Leaders \cup {Nobody} /\ orphaned' \in BOOLEAN /\ "failed" \notin Inside
  BY <1>1 DEF ReachInv, Inside
<1> QED
  BY <1>1, <1>2, <1>3, <1>4, <1>5, ClientReach

(* Deaths and time limits. *)
LEMMA FaultKeepsReach ==
  ASSUME ReachInv, ElectionInv', Fault
  PROVE  ReachInv'
<1>1. ASSUME NEW l \in Leaders, LeaderDies(l) PROVE ReachInv'
  <2>1. leader' = InState(l, Died) /\ UNCHANGED <<socket, startLock, client, orphaned>>
    BY <1>1 DEF LeaderDies
  <2>2. Leaders' = Leaders /\ (~orphaned => Placed(leader', socket, client))
    BY <2>1, StoppedPlaced DEF Died
  <2> QED
    BY <2>1, <2>2 DEF ReachInv, OneInside
<1>2. ASSUME NEW c \in Clients, TimesOut(c) \/ ClientDies(c) PROVE ReachInv'
  <2>1. GiveUp(c) /\ UNCHANGED <<leader, socket>>
    BY <1>2 DEF TimesOut, ClientDies
  <2> QED
    BY <2>1, GivesUpReach DEF ReachInv, Leaders
<1> QED
  BY <1>1, <1>2, ProbeTimesOutReach DEF Fault

LEMMA ReachInvInit == Init => ReachInv
<1> SUFFICES ASSUME Init PROVE ReachInv
  OBVIOUS
<1>1. ElectionInv
  BY ElectionInvInit
<1>2. /\ \A c \in Clients : client[c] = [at |-> "idle", leader |-> Nobody, stops |-> FALSE]
      /\ client \in [Clients -> Client] /\ orphaned = FALSE
  BY DEF Init, Client, At, Nobody
<1>3. OneInside
  BY <1>2 DEF OneInside, Inside
<1>4. CASE leader = <<>> /\ socket = Nobody
  <2>1. Leaders = {} /\ DOMAIN leader = {}
    BY <1>4 DEF Leaders
  <2>2. Placed(leader, socket, client)
    BY <1>2, <1>4, <2>1 DEF Placed
  <2> QED
    BY <1>1, <1>2, <1>3, <1>4, <2>1, <2>2 DEF ReachInv
<1>5. CASE leader = <<[Starting(1, Nobody) EXCEPT !.state = "serving"]>> /\ socket = 1
  <2>1. Leaders = {1} /\ leader[1].state = "serving"
    BY <1>5 DEF Starting, Leaders
  <2>2. Placed(leader, socket, client)
    BY <1>2, <1>5, <2>1 DEF Placed, Leaders
  <2> QED
    BY <1>1, <1>2, <1>3, <1>5, <2>1, <2>2 DEF ReachInv
<1> QED
  BY <1>4, <1>5 DEF Init

LEMMA ReachInvInductive == ReachInv /\ [Next]_vars => ReachInv'
<1> SUFFICES ASSUME ReachInv, [Next]_vars PROVE ReachInv'
  OBVIOUS
<1>1. ElectionInv'
  BY ElectionInvInductive DEF ReachInv
<1>2. CASE UNCHANGED vars
  BY <1>1, <1>2 DEF vars, ReachInv, OneInside, Leaders
<1> QED
  BY <1>1, <1>2, LeadKeepsReach, ClientKeepsReach, FaultKeepsReach DEF Next

(***************************************************************************)
(* As long as no leader has been left to start without the start lock, a   *)
(* leader that serves is the one the socket names: neither                 *)
(* cleanup_stale_socket of a client nor the Drop of the leader before it   *)
(* removes the name under it; and the client that ensure_leader has served *)
(* has got a leader of its own version or a later one (supervisor.rs).     *)
(***************************************************************************)
THEOREM LeaderReachable == Spec => []Reachable
<1>1. ReachInv => Reachable
  BY DEF ReachInv, Reachable, Placed, Named, Leaders
<1> QED
  BY <1>1, ReachInvInit, ReachInvInductive, PTL DEF Spec

=============================================================================
