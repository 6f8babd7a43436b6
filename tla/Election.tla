------------------------------ MODULE Election -------------------------------
(***************************************************************************)
(* How one leader comes to serve a socket (resident/supervisor.rs,         *)
(* resident/election.rs, ResidentHost::serve).  Clients find no leader, or *)
(* an older one, and start theirs: they take turns under the start lock.   *)
(* A leader binds the socket, waits for the lock of the leaders, and       *)
(* serves until it is stopped, replaced or dies.                           *)
(*                                                                         *)
(* The socket is a name in the file system: it may be bound by a leader    *)
(* that has died, and be removed under one that lives.                     *)
(***************************************************************************)
EXTENDS Integers, Sequences, FiniteSets

CONSTANTS Clients,     \* processes that call ensure_leader, or stop
          Stoppers,    \* those of them that run `turtletap stop`
          VersionOf,   \* binary_version of each client
          MaxLeaders,  \* bound of the model: leader processes
          MaxFaults    \* bound of the model: deaths, timeouts and lost replies

ASSUME ElectionAssumption ==
  /\ Stoppers \subseteq Clients
  /\ VersionOf \in [Clients -> Nat]
  /\ {MaxLeaders, MaxFaults} \subseteq Nat

Nobody == 0
ASSUME NobodyAssumption == Nobody \notin Clients

VARIABLES
  leader,      \* the leader processes, in the order they were spawned
  socket,      \* the leader that bound the name, dead or alive
  lock,        \* who holds the lock of the leaders
  startLock,   \* who holds the start lock
  client,      \* where each client is, and the leader it deals with
  faults,      \* deaths, timeouts and lost replies so far
  orphaned     \* history: a leader was left to start without the start lock

vars == <<leader, socket, lock, startLock, client, faults, orphaned>>

Leaders == DOMAIN leader
Died == "dead"
Lives(l) == leader[l].state # Died
HoldsLock(l) == leader[l].state \in {"loading", "serving", "stopping", "closed"}

\* A listener takes connections until its process is gone.
IsConnectable == socket # Nobody /\ Lives(socket)

\* The accept loop of a leader answers hellos from before it has loaded.
SaysHello(l) == l # Nobody /\ HoldsLock(l)

InState(l, state) == [leader EXCEPT ![l].state = state]

Starting(version, parent) == [state |-> "spawned", version |-> version, parent |-> parent]

Init ==
  /\ \/ leader = <<>> /\ socket = Nobody /\ lock = Nobody
     \/ /\ leader = <<[Starting(1, Nobody) EXCEPT !.state = "serving"]>>
        /\ socket = 1 /\ lock = 1
  /\ startLock = Nobody
  /\ client = [c \in Clients |-> [at |-> "idle", leader |-> Nobody, stops |-> FALSE]]
  /\ faults = 0
  /\ orphaned = FALSE

Fails == faults < MaxFaults /\ faults' = faults + 1

-----------------------------------------------------------------------------
(* The leader: ResidentHost::serve *)

\* The name is taken: bind fails, and so does the leader.
Bind(l) ==
  /\ leader[l].state = "spawned"
  /\ \/ socket = Nobody /\ socket' = l /\ leader' = InState(l, "bound")
     \/ socket # Nobody /\ UNCHANGED socket /\ leader' = InState(l, Died)
  /\ UNCHANGED <<lock, startLock, client, faults, orphaned>>

\* Mutant: the lock is only tried.
AcquireOrNot(l) ==
  /\ leader[l].state = "bound"
  /\ lock' = l
  /\ leader' = InState(l, "loading")
  /\ UNCHANGED <<socket, startLock, client, faults, orphaned>>

Acquire(l) ==
  /\ leader[l].state = "bound" /\ lock = Nobody
  /\ lock' = l
  /\ leader' = InState(l, "loading")
  /\ UNCHANGED <<socket, startLock, client, faults, orphaned>>

\* HostState::load, which may fail.
Load(l) ==
  /\ leader[l].state = "loading"
  /\ \/ leader' = InState(l, "serving") /\ UNCHANGED faults
     \/ leader' = InState(l, "stopping") /\ Fails
  /\ UNCHANGED <<socket, lock, startLock, client, orphaned>>

\* Drop of the LeaderLock: whatever is bound to the name goes, then the lock.
RemoveSocket(l) ==
  /\ leader[l].state = "stopping"
  /\ socket' = Nobody
  /\ leader' = InState(l, "closed")
  /\ UNCHANGED <<lock, startLock, client, faults, orphaned>>

Unlock(l) ==
  /\ leader[l].state = "closed"
  /\ lock' = Nobody
  /\ leader' = InState(l, Died)
  /\ UNCHANGED <<socket, startLock, client, faults, orphaned>>

\* The locks of a process go with it, the name it bound does not.
LeaderDies(l) ==
  /\ Lives(l)
  /\ Fails
  /\ leader' = InState(l, Died)
  /\ lock' = IF lock = l THEN Nobody ELSE lock
  /\ UNCHANGED <<socket, startLock, client, orphaned>>

-----------------------------------------------------------------------------
(* The client: ensure_leader *)

Moved(c, at) == [client EXCEPT ![c].at = at]
MovedWith(c, at, l) == [client EXCEPT ![c].at = at, ![c].leader = l]

IsAt(c, at) == client[c].at = at

Released(c) == IF startLock = c THEN Nobody ELSE startLock

\* A leader that c has spawned would start on its own.
LeavesOrphan(c) ==
  orphaned \/ \E l \in Leaders : leader[l].parent = c /\ leader[l].state = "spawned"

\* ensure_leader returns an error; what it has spawned lives on.
GiveUp(c) ==
  /\ client' = Moved(c, "failed")
  /\ startLock' = Released(c)
  /\ orphaned' = LeavesOrphan(c)

\* Mutant: the start lock outlives the call.
ReturnLocked(c, l) ==
  /\ client' = MovedWith(c, IF client[c].stops THEN "stop" ELSE "done", l)
  /\ UNCHANGED startLock

\* ensure_leader returns: the hook of a reconnect resends the request.
Return(c, l) ==
  /\ client' = MovedWith(c, IF client[c].stops THEN "stop" ELSE "done", l)
  /\ startLock' = Nobody

Begin(c) ==
  /\ IsAt(c, "idle") /\ c \notin Stoppers
  /\ client' = Moved(c, "start")
  /\ UNCHANGED <<leader, socket, lock, startLock, faults, orphaned>>

TakeStartLock(c) ==
  /\ IsAt(c, "start") /\ startLock = Nobody
  /\ startLock' = c
  /\ client' = Moved(c, "check")
  /\ UNCHANGED <<leader, socket, lock, faults, orphaned>>

\* replacement_is_newer
IsNewer(current, requested) == requested > current

\* use_or_replace_running_leader
Check(c) ==
  /\ IsAt(c, "check")
  /\ \/ ~IsConnectable /\ client' = Moved(c, "clean") /\ UNCHANGED startLock
     \/ /\ SaysHello(socket) /\ ~IsNewer(leader[socket].version, VersionOf[c])
        /\ Return(c, socket)
     \/ /\ SaysHello(socket) /\ IsNewer(leader[socket].version, VersionOf[c])
        /\ client' = MovedWith(c, "replace", socket) /\ UNCHANGED startLock
  /\ UNCHANGED <<leader, socket, lock, faults, orphaned>>

Replace(c) ==
  LET l == client[c].leader IN
  /\ IsAt(c, "replace") /\ leader[l].state = "serving"
  /\ leader' = InState(l, "stopping")
  /\ \/ client' = Moved(c, "gone") /\ UNCHANGED <<startLock, faults, orphaned>>
     \/ Fails /\ GiveUp(c)           \* the leader has gone before its reply
  /\ UNCHANGED <<socket, lock>>

\* The leader was stopped by others, or died.
ReplaceFails(c) ==
  /\ IsAt(c, "replace") /\ leader[client[c].leader].state \in {"stopping", "closed", Died}
  /\ GiveUp(c)
  /\ UNCHANGED <<leader, socket, lock, faults>>

\* Mutant: what was told to go is taken to have gone.
WaitForReply(c) ==
  /\ IsAt(c, "gone")
  /\ client' = Moved(c, "clean")
  /\ UNCHANGED <<leader, socket, lock, startLock, faults, orphaned>>

WaitUntilGone(c) ==
  /\ IsAt(c, "gone") /\ ~IsConnectable
  /\ client' = Moved(c, "clean")
  /\ UNCHANGED <<leader, socket, lock, startLock, faults, orphaned>>

\* cleanup_stale_socket
CleanUp(c) ==
  /\ IsAt(c, "clean")
  /\ socket' = Nobody
  /\ client' = Moved(c, "spawn")
  /\ UNCHANGED <<leader, lock, startLock, faults, orphaned>>

Spawn(c) ==
  /\ IsAt(c, "spawn") /\ Len(leader) < MaxLeaders
  /\ leader' = Append(leader, Starting(VersionOf[c], c))
  /\ client' = MovedWith(c, "probe", Len(leader) + 1)
  /\ UNCHANGED <<socket, lock, startLock, faults, orphaned>>

\* try_wait: it has exited during startup.
ChildExited(c) ==
  /\ IsAt(c, "probe") /\ ~Lives(client[c].leader)
  /\ GiveUp(c)
  /\ UNCHANGED <<leader, socket, lock, faults>>

\* probe: whoever has bound the socket answers the ping.
Probe(c) ==
  /\ IsAt(c, "probe") /\ IsConnectable /\ leader[socket].state = "serving"
  /\ Return(c, socket)
  /\ UNCHANGED <<leader, socket, lock, faults, orphaned>>

\* A deadline passes, or a connection breaks under the probe.
TimesOut(c) ==
  /\ client[c].at \in {"start", "check", "gone", "probe"}
  /\ client[c].at \in {"check", "probe"} => IsConnectable
  /\ Fails
  /\ GiveUp(c)
  /\ UNCHANGED <<leader, socket, lock>>

\* The deadline of the probe: the child is killed.
ProbeTimesOut(c) ==
  LET l == client[c].leader IN
  /\ IsAt(c, "probe")
  /\ Fails
  /\ leader' = InState(l, Died)
  /\ lock' = IF lock = l THEN Nobody ELSE lock
  /\ client' = Moved(c, "failed")
  /\ startLock' = Released(c)
  /\ UNCHANGED <<socket, orphaned>>

\* The process of the client is killed.
ClientDies(c) ==
  /\ client[c].at \notin {"idle", "done", "failed", "stopped"}
  /\ Fails
  /\ GiveUp(c)
  /\ UNCHANGED <<leader, socket, lock>>

-----------------------------------------------------------------------------
(* The client: turtletap stop *)

\* probe_server, and Status for the process to wait for.
BeginStop(c) ==
  /\ IsAt(c, "idle") /\ c \in Stoppers
  /\ \/ ~IsConnectable /\ client' = Moved(c, "stopped")
     \/ /\ IsConnectable /\ leader[socket].state = "serving"
        /\ client' = [client EXCEPT ![c] = [at |-> "stop", leader |-> socket, stops |-> TRUE]]
  /\ UNCHANGED <<leader, socket, lock, startLock, faults, orphaned>>

\* StopLeader, to the leader of the connection.  The reply may be lost: the
\* hook of the reconnect then ensures that there is a leader to ask again.
AskToStop(c) ==
  LET l == client[c].leader IN
  /\ IsAt(c, "stop")
  /\ \/ /\ leader[l].state = "serving"
        /\ leader' = InState(l, "stopping")
        /\ \/ client' = Moved(c, "wait") /\ UNCHANGED faults
           \/ client' = Moved(c, "start") /\ Fails
     \/ /\ leader[l].state \in {"stopping", "closed", Died}
        /\ client' = Moved(c, "start")
        /\ UNCHANGED <<leader, faults>>
  /\ UNCHANGED <<socket, lock, startLock, orphaned>>

\* The name and the process are gone.
StopSeen(c) ==
  /\ IsAt(c, "wait") /\ socket = Nobody /\ ~Lives(client[c].leader)
  /\ client' = Moved(c, "stopped")
  /\ UNCHANGED <<leader, socket, lock, startLock, faults, orphaned>>

\* Another leader has taken the name: stop waits for it in vain.
StopTimesOut(c) ==
  /\ IsAt(c, "wait") /\ socket # Nobody /\ socket # client[c].leader
  /\ client' = Moved(c, "failed")
  /\ UNCHANGED <<leader, socket, lock, startLock, faults, orphaned>>

-----------------------------------------------------------------------------

Lead(l) == Bind(l) \/ Acquire(l) \/ Load(l) \/ RemoveSocket(l) \/ Unlock(l)

Ensure(c) ==
  \/ TakeStartLock(c) \/ Check(c) \/ Replace(c) \/ ReplaceFails(c) \/ WaitUntilGone(c)
  \/ CleanUp(c) \/ Spawn(c) \/ Probe(c) \/ ChildExited(c)

Stop(c) == BeginStop(c) \/ AskToStop(c) \/ StopSeen(c) \/ StopTimesOut(c)

Fault ==
  \/ \E l \in Leaders : LeaderDies(l)
  \/ \E c \in Clients : TimesOut(c) \/ ProbeTimesOut(c) \/ ClientDies(c)

Next ==
  \/ \E l \in Leaders : Lead(l)
  \/ \E c \in Clients : Begin(c) \/ Ensure(c) \/ Stop(c)
  \/ Fault

Spec == Init /\ [][Next]_vars

\* Processes run, and the polling loops come round.
Fairness ==
  /\ \A l \in 1 .. MaxLeaders : WF_vars(l \in Leaders /\ Lead(l))
  /\ \A c \in Clients : SF_vars(TakeStartLock(c)) /\ WF_vars(Ensure(c))

FairSpec == Spec /\ Fairness

-----------------------------------------------------------------------------
(* Properties *)

ElectionTypeOK ==
  /\ leader \in Seq([state : {"spawned", "bound", "loading", "serving", "stopping", "closed", Died},
                     version : Nat, parent : Clients \cup {Nobody}])
  /\ {socket, lock} \subseteq Leaders \cup {Nobody}
  /\ startLock \in Clients \cup {Nobody}
  /\ startLock # Nobody =>
       client[startLock].at \in {"check", "replace", "gone", "clean", "spawn", "probe"}
  /\ \A c \in Clients : client[c].leader \in Leaders \cup {Nobody}
  /\ faults \in Nat /\ orphaned \in BOOLEAN

(***************************************************************************)
(* At most one leader reads or writes the state directory, whatever dies.  *)
(***************************************************************************)
OneLeader == \A k, l \in Leaders : HoldsLock(k) /\ HoldsLock(l) => k = l

(***************************************************************************)
(* A leader that serves can be reached: no one removes the socket under    *)
(* it, neither a client that takes it to be stale nor the leader before it *)
(* as it leaves; and a client that ensure_leader has served has a leader   *)
(* that is not older than its own binary.                                  *)
(***************************************************************************)
Reachable ==
  ~orphaned =>
    /\ \A l \in Leaders : leader[l].state = "serving" => socket = l
    /\ \A c \in Clients : client[c].at = "done" =>
         leader[client[c].leader].version >= VersionOf[c]

(***************************************************************************)
(* Where nothing dies, times out or is stopped, every client that asks for *)
(* a leader gets one, also when others ask for older or newer ones.        *)
(***************************************************************************)
IsDisturbed ==
  faults > 0 \/ Len(leader) = MaxLeaders \/ \E c \in Stoppers : client[c].at # "idle"

EveryoneServed ==
  \A c \in Clients : client[c].at = "start" ~> client[c].at = "done" \/ IsDisturbed
=============================================================================
