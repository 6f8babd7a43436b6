--------------------------- MODULE CommandWorker ----------------------------
(***************************************************************************)
(* The worker process of a session (cli/src/worker.rs): it runs the shell  *)
(* commands of the session, one at a time, outlives the leader, and keeps  *)
(* on disk what a later worker must know: the command, its process group   *)
(* and its output.  A command is recorded before its process may pass the  *)
(* gate that holds it back, so that it is never run twice and can be       *)
(* killed by others than the worker that spawned it.                       *)
(*                                                                         *)
(* One session, and the leader's side of one running command at a time     *)
(* (cli/src/command.rs).  Commands are 1, 2, ...; what they write is       *)
(* counted.  The worker's threads take a lock: a step is what one of them  *)
(* does under it.                                                          *)
(***************************************************************************)
EXTENDS Integers, Sequences, SequencesExt, FiniteSets

CONSTANTS MaxCommands,    \* bound of the model: commands of the session
          MaxOutputs,     \* bound of the model: lines each command writes
          QueueCapacity,  \* SUBSCRIBER_QUEUE_CAPACITY
          SpoolCapacity,  \* MAX_OUTPUT_BYTES, in lines
          MaxFaults       \* bound of the model: crashes, failed writes and new leaders

ASSUME WorkerAssumption ==
  /\ {MaxCommands, MaxFaults} \subseteq Nat
  /\ MaxOutputs \in [1 .. MaxCommands -> Nat]
  /\ {QueueCapacity, SpoolCapacity} \subseteq Nat \ {0}

VARIABLES
  disk,        \* StoredState, as written
  spool,       \* the events of the command, in memory and on disk
  worker,      \* the worker process and its threads
  child,       \* the process groups spawned so far, in order
  gate,        \* commands whose gate file exists
  client,      \* RunningCommand of the leader
  interrupts,  \* interrupts on their way: for which command, and to which group
  stop,        \* how far stop_session is
  faults,      \* crashes, failed writes and new leaders so far
  outcome,     \* history: how the surface saw each command end
  missed       \* history: commands of which output was skipped without notice

vars == <<disk, spool, worker, child, gate, client, interrupts, stop, faults, outcome, missed>>

Commands == 1 .. MaxCommands
NoGroup == 0
Codes == {"none", "exited", "killed", "unknown", "failed", "interrupted"}

\* StoredState and StoredCommand; command 0 is none.
Nothing == [high |-> 0, id |-> 0, status |-> "none", group |-> NoGroup, sequence |-> 0]

IsActive(stored) == stored.status \in {"dispatching", "running"}
Identity(stored) == IF IsActive(stored) THEN stored.group ELSE NoGroup

Output(n) == [kind |-> "output", sequence |-> n]
Gap(first) == [kind |-> "gap", sequence |-> first]
Error == [kind |-> "error", sequence |-> 0]
Completed(n, code) == [kind |-> "completed", sequence |-> n, code |-> code]
HasSequence(event) == event.kind \in {"output", "completed"}

\* The leader's side: what of the stream is under way, how much of that was
\* sent live, and whether more can come.
NoCommand == [id |-> 0, phase |-> "over", cursor |-> 0, gap |-> 0, stream |-> <<>>, live |-> 0,
              open |-> FALSE, interrupted |-> FALSE]

Down == [up |-> FALSE, memory |-> Nothing, override |-> FALSE, thread |-> "none", shutdown |-> "no"]

Init ==
  /\ disk = Nothing
  /\ spool = <<>>
  /\ worker = Down
  /\ child = <<>>
  /\ gate = {}
  /\ client = NoCommand
  /\ interrupts = {}
  /\ stop = "no"
  /\ faults = 0
  /\ outcome = [c \in Commands |-> "none"]
  /\ missed = {}

history == <<outcome, missed>>

Fails == faults < MaxFaults /\ faults' = faults + 1

-----------------------------------------------------------------------------
(* Events: what append does to the spool and to the subscriber *)

\* Where the output is, and what has a sequence.
Outputs(events) == {k \in DOMAIN events : events[k].kind = "output"}
Sequenced(events) == {k \in DOMAIN events : HasSequence(events[k])}

\* enforce_output_limit: the oldest output goes.
Pruned(events) ==
  IF Cardinality(Outputs(events)) <= SpoolCapacity THEN events
  ELSE RemoveAt(events, Min(Outputs(events)))

Appended(events, event) == Pruned(Append(events, event))

\* Mutant: what finds the queue of a subscriber full is dropped instead.
NotifiedOrDropped(c, event) ==
  IF ~c.open \/ c.phase # "live" \/ c.live >= QueueCapacity THEN c
  ELSE [c EXCEPT !.stream = Append(@, event), !.live = @ + 1]

\* A subscriber whose queue is full is dropped: its stream ends.
Notified(c, event) ==
  IF ~c.open \/ c.phase # "live" THEN c
  ELSE IF c.live >= QueueCapacity THEN [c EXCEPT !.open = FALSE]
  ELSE [c EXCEPT !.stream = Append(@, event), !.live = @ + 1]

\* The stream ends after its last event.
Closed(c) == [c EXCEPT !.open = FALSE]

\* finish: what is stored, and the event.
Finished(memory) ==
  [memory EXCEPT !.sequence = @ + 1, !.status = "completed", !.group = NoGroup]
Completion(memory, code) == Completed(memory.sequence + 1, code)

\* The command ends with code, after an error if it could not be dispatched.
Finish(failed, code) ==
  LET completion == Completion(worker.memory, code) IN
  /\ worker' = [worker EXCEPT !.memory = Finished(@), !.override = FALSE, !.thread = "none"]
  /\ disk' = Finished(worker.memory)
  /\ spool' = Appended(IF failed THEN Appended(spool, Error) ELSE spool, completion)
  /\ client' = Notified(IF failed THEN Notified(client, Error) ELSE client, completion)

-----------------------------------------------------------------------------
(* Process groups *)

Groups == DOMAIN child
IsAlive(g) == g \in Groups /\ child[g].state # "ended"

\* terminate_verified_group: a group that has ended is left alone.
Killed(g) ==
  IF IsAlive(g) THEN [child EXCEPT ![g].state = "ended", ![g].code = "killed"] ELSE child

\* The process has found its gate open.
Execute(g) ==
  /\ child[g].state = "gated" /\ child[g].id \in gate
  /\ child' = [child EXCEPT ![g].state = "running", ![g].began = TRUE]
  /\ UNCHANGED <<disk, spool, worker, gate, client, interrupts, stop, faults, history>>

\* It gave up: the gate did not open.
GiveUp(g) ==
  /\ child[g].state = "gated" /\ child[g].id \notin gate
  /\ child' = [child EXCEPT ![g].state = "ended", ![g].code = "unknown"]
  /\ UNCHANGED <<disk, spool, worker, gate, client, interrupts, stop, faults, history>>

Write(g) ==
  /\ child[g].state = "running" /\ child[g].written < MaxOutputs[child[g].id]
  /\ child' = [child EXCEPT ![g].written = @ + 1]
  /\ UNCHANGED <<disk, spool, worker, gate, client, interrupts, stop, faults, history>>

Exit(g) ==
  /\ child[g].state = "running"
  /\ child' = [child EXCEPT ![g].state = "ended", ![g].code = "exited"]
  /\ UNCHANGED <<disk, spool, worker, gate, client, interrupts, stop, faults, history>>

-----------------------------------------------------------------------------
(* The worker: start, and a request to run *)

\* Mutant: the command that was left is forgotten.
RecoveredAsNew(stored) == IF IsActive(stored) THEN Nothing ELSE stored

\* recover_incomplete_command: what an earlier worker left unfinished is
\* killed, and its outcome is unknown.
Recovered(stored) == IF IsActive(stored) THEN Finished(stored) ELSE stored

\* connect spawns a worker where none answers.
CanStart == ~worker.up /\ stop = "no"

Start ==
  /\ CanStart
  /\ worker' = [Down EXCEPT !.up = TRUE, !.memory = Recovered(disk)]
  /\ disk' = Recovered(disk)
  /\ child' = Killed(Identity(disk))
  /\ spool' = IF IsActive(disk)
                THEN spool \o <<Error, Completion(disk, "unknown")>> ELSE spool
  /\ UNCHANGED <<gate, client, interrupts, stop, faults, history>>

\* The worker dies while it recovers, or cannot: none, one or both of its
\* events are written, and the record is not.
CutStart ==
  /\ CanStart /\ IsActive(disk)
  /\ Fails
  /\ child' = Killed(Identity(disk))
  /\ spool' \in {spool, Append(spool, Error), spool \o <<Error, Completion(disk, "unknown")>>}
  /\ UNCHANGED <<disk, worker, gate, client, interrupts, stop, history>>

IsKnown(id) == worker.memory.id = id

IsRefused(id) == ~IsKnown(id) /\ (IsActive(worker.memory) \/ id <= worker.memory.high)

\* What a request after a sequence is answered at once.
Replayed(events, after) ==
  LET kept[k \in 0 .. Len(events)] ==
        IF k = 0 THEN <<>>
        ELSE IF HasSequence(events[k]) /\ events[k].sequence <= after THEN kept[k - 1]
        ELSE Append(kept[k - 1], events[k]) IN
  kept[Len(events)]

\* What is gone from the spool before its first event is told as a gap.
Replay(events, after) ==
  LET first == events[Min(Sequenced(events))].sequence IN
  IF Sequenced(events) # {} /\ after + 1 < first
    THEN <<Gap(first)>> \o Replayed(events, after) ELSE Replayed(events, after)

Dispatching(id) ==
  [high |-> IF id > worker.memory.high THEN id ELSE worker.memory.high,
   id |-> id, status |-> "dispatching", group |-> NoGroup, sequence |-> 0]

\* The client is sent events, and more if the stream stays open.
Answered(events, open) ==
  [client EXCEPT !.phase = "live", !.stream = events, !.live = 0, !.open = open]

\* serve_run of a command that is not the worker's.
Refuse ==
  /\ worker.up /\ client.phase = "sent" /\ IsRefused(client.id)
  /\ client' = Answered(<<Error, Completed(0, "unknown")>>, FALSE)
  /\ UNCHANGED <<disk, spool, worker, child, gate, interrupts, stop, faults, history>>

\* serve_run of the command the worker has.
Subscribe ==
  /\ worker.up /\ client.phase = "sent" /\ ~IsRefused(client.id) /\ IsKnown(client.id)
  /\ client' = Answered(Replay(spool, client.cursor), worker.memory.status # "completed")
  /\ UNCHANGED <<disk, spool, worker, child, gate, interrupts, stop, faults, history>>

IsNew == client.phase = "sent" /\ ~IsRefused(client.id) /\ ~IsKnown(client.id)

\* serve_run of a new command.
Accept ==
  /\ worker.up /\ IsNew
  /\ worker' = [worker EXCEPT !.memory = Dispatching(client.id), !.thread = "stored"]
  /\ disk' = Dispatching(client.id)
  /\ spool' = <<>>
  /\ client' = Answered(<<>>, TRUE)
  /\ UNCHANGED <<child, gate, interrupts, stop, faults, history>>

\* The worker dies between clear_spool and persist.
CutAccept ==
  /\ worker.up /\ IsNew
  /\ Fails
  /\ worker' = Down
  /\ spool' = <<>>
  /\ client' = Closed(client)
  /\ interrupts' = {}
  /\ UNCHANGED <<disk, child, gate, stop, history>>

\* clear_spool or persist fails: the command stays in memory, without a thread.
AcceptFails ==
  /\ worker.up /\ IsNew
  /\ Fails
  /\ worker' = [worker EXCEPT !.memory = Dispatching(client.id)]
  /\ spool' = <<>>
  /\ client' = Answered(<<>>, FALSE)
  /\ UNCHANGED <<disk, child, gate, interrupts, stop, history>>

-----------------------------------------------------------------------------
(* The worker: spawn_active_command and monitor_command *)

Mine == Len(child)   \* the group that was spawned last

\* Mutant: the gate of an earlier attempt is left, and opens at once.
SpawnUngated ==
  /\ worker.up /\ worker.thread = "stored"
  /\ gate' = gate \cup {worker.memory.id}
  /\ child' = Append(child, [id |-> worker.memory.id, state |-> "gated", began |-> FALSE,
                             written |-> 0, taken |-> 0, code |-> "none"])
  /\ worker' = [worker EXCEPT !.thread = "spawned"]
  /\ UNCHANGED <<disk, spool, client, interrupts, stop, faults, history>>

Spawn ==
  /\ worker.up /\ worker.thread = "stored"
  /\ gate' = gate \ {worker.memory.id}
  /\ child' = Append(child, [id |-> worker.memory.id, state |-> "gated", began |-> FALSE,
                             written |-> 0, taken |-> 0, code |-> "none"])
  /\ worker' = [worker EXCEPT !.thread = "spawned"]
  /\ UNCHANGED <<disk, spool, client, interrupts, stop, faults, history>>

\* The directory of the command is gone, for one.
SpawnFails ==
  /\ worker.up /\ worker.thread = "stored"
  /\ Fails
  /\ Finish(TRUE, "failed")
  /\ UNCHANGED <<child, gate, interrupts, stop, history>>

Record ==
  /\ worker.up /\ worker.thread = "spawned"
  /\ LET recorded == [worker.memory EXCEPT !.status = "running", !.group = Mine] IN
     /\ worker' = [worker EXCEPT !.memory = recorded, !.thread = "recorded"]
     /\ disk' = recorded
  /\ UNCHANGED <<spool, child, gate, client, interrupts, stop, faults, history>>

Release ==
  /\ worker.up /\ worker.thread = "recorded"
  /\ gate' = gate \cup {worker.memory.id}
  /\ worker' = [worker EXCEPT !.thread = "released"]
  /\ UNCHANGED <<disk, spool, child, client, interrupts, stop, faults, history>>

\* The record or the gate cannot be written.
DispatchFails ==
  /\ worker.up /\ worker.thread \in {"spawned", "recorded"}
  /\ Fails
  /\ child' = Killed(Mine)
  /\ Finish(TRUE, "failed")
  /\ UNCHANGED <<gate, interrupts, stop, history>>

HasOutput(g) == child[g].taken < child[g].written

\* record_output
Collect ==
  /\ worker.up /\ worker.thread = "released" /\ HasOutput(Mine)
  /\ child' = [child EXCEPT ![Mine].taken = @ + 1]
  /\ LET event == Output(worker.memory.sequence + 1) IN
     /\ worker' = [worker EXCEPT !.memory.sequence = @ + 1]
     /\ spool' = Appended(spool, event)
     /\ client' = Notified(client, event)
  /\ UNCHANGED <<disk, gate, interrupts, stop, faults, history>>

\* The output cannot be written: the command is killed and never finished.
CollectFails ==
  /\ worker.up /\ worker.thread = "released" /\ HasOutput(Mine)
  /\ Fails
  /\ child' = Killed(Mine)
  /\ worker' = [worker EXCEPT !.memory.sequence = @ + 1, !.thread = "none"]
  /\ UNCHANGED <<disk, spool, gate, client, interrupts, stop, history>>

IsDone == worker.up /\ worker.thread = "released" /\ ~IsAlive(Mine) /\ ~HasOutput(Mine)

\* monitor_command: the code of the process, or that of an interrupt.
ExitCode == IF worker.override THEN "interrupted" ELSE child[Mine].code

Monitor ==
  /\ IsDone
  /\ Finish(FALSE, ExitCode)
  /\ gate' = gate \ {worker.memory.id}
  /\ UNCHANGED <<child, interrupts, stop, faults, history>>

\* The append or the persist of finish fails, and the worker goes on: the
\* command is over in memory, and its end is not on disk.
MonitorFails ==
  /\ IsDone
  /\ Fails
  /\ worker' = [worker EXCEPT !.memory = Finished(@), !.override = FALSE, !.thread = "none"]
  /\ gate' = gate \ {worker.memory.id}
  /\ \/ /\ spool' = Appended(spool, Completion(worker.memory, ExitCode))
        /\ client' = Notified(client, Completion(worker.memory, ExitCode))
     \/ UNCHANGED <<spool, client>>
  /\ UNCHANGED <<disk, child, interrupts, stop, history>>

\* The worker dies between the append and the persist of finish.
CutMonitor ==
  /\ IsDone
  /\ Fails
  /\ worker' = Down
  /\ spool' = Append(spool, Completion(worker.memory, ExitCode))
  /\ client' = Closed(Notified(client, Completion(worker.memory, ExitCode)))
  /\ interrupts' = {}
  /\ UNCHANGED <<disk, child, gate, stop, history>>

\* The worker dies.
Crash ==
  /\ worker.up
  /\ Fails
  /\ worker' = Down
  /\ client' = Closed(client)
  /\ interrupts' = {}
  /\ UNCHANGED <<disk, spool, child, gate, stop, history>>

\* It has had nothing to do for a long time.
Idle ==
  /\ worker.up /\ ~IsActive(worker.memory) /\ client.phase = "over" /\ worker.shutdown = "no"
  /\ worker' = Down
  /\ interrupts' = {}
  /\ UNCHANGED <<disk, spool, child, gate, client, stop, faults, history>>

-----------------------------------------------------------------------------
(* The leader *)

\* execute, of the next command.
Ask ==
  /\ worker.up /\ stop = "no"
  /\ client.phase = "over" /\ client.id < MaxCommands
  /\ client' = [NoCommand EXCEPT !.id = client.id + 1, !.phase = "sent", !.open = TRUE]
  /\ UNCHANGED <<disk, spool, worker, child, gate, interrupts, stop, faults, history>>

\* A new leader asks for the command again.
ReplaceLeader ==
  /\ client.phase \in {"sent", "live"} /\ stop = "no"
  /\ Fails
  /\ client' = [client EXCEPT !.phase = "again", !.stream = <<>>, !.open = FALSE, !.gap = 0]
  /\ UNCHANGED <<disk, spool, worker, child, gate, interrupts, stop, history>>

AskAgain ==
  /\ worker.up /\ stop = "no" /\ client.phase = "again"
  /\ client' = [client EXCEPT !.phase = "sent", !.open = TRUE, !.interrupted = FALSE]
  /\ UNCHANGED <<disk, spool, worker, child, gate, interrupts, stop, faults, history>>

\* The surface takes the command to have ended with code.
Ended(code) == outcome' = [outcome EXCEPT ![client.id] = code]

\* running_from_worker and poll_command: an event of the stream.
Read ==
  LET event == Head(client.stream)
      next == [client EXCEPT !.stream = Tail(@), !.live = IF @ = 0 THEN 0 ELSE @ - 1]
      skips == HasSequence(event) /\ event.sequence > client.cursor + 1 /\ event.sequence # client.gap
  IN
  /\ client.phase = "live" /\ client.stream # <<>>
  /\ missed' = IF skips THEN missed \cup {client.id} ELSE missed
  /\ \/ /\ event.kind = "output"
        /\ client' = [next EXCEPT !.cursor = IF event.sequence > @ THEN event.sequence ELSE @]
        /\ UNCHANGED outcome
     \/ /\ event.kind = "gap"
        /\ client' = [next EXCEPT !.gap = event.sequence]
        /\ UNCHANGED outcome
     \/ /\ event.kind = "error"
        /\ client' = next
        /\ UNCHANGED outcome
     \/ /\ event.kind = "completed"
        /\ client' = [next EXCEPT !.phase = "over", !.open = FALSE]
        /\ Ended(event.code)
  /\ UNCHANGED <<disk, spool, worker, child, gate, interrupts, stop, faults>>

\* The end of the stream is taken for the end of the command.
StreamEnds ==
  /\ client.phase \in {"sent", "live"} /\ client.stream = <<>> /\ ~client.open
  /\ client' = [client EXCEPT !.phase = "over"]
  /\ Ended("unknown")
  /\ UNCHANGED <<disk, spool, worker, child, gate, interrupts, stop, faults, missed>>

\* The user interrupts the command.  A control connection carries one request.
Interrupt ==
  /\ worker.up /\ client.phase \in {"sent", "live"} /\ ~client.interrupted
  /\ client' = [client EXCEPT !.interrupted = TRUE]
  /\ interrupts' = interrupts \cup {[id |-> client.id, group |-> NoGroup]}
  /\ UNCHANGED <<disk, spool, worker, child, gate, stop, faults, history>>

\* interrupt_active, under the lock: the interrupt is for what runs now.
HandleInterrupt(request) ==
  LET group == Identity(worker.memory) IN
  /\ worker.up /\ request \in interrupts /\ request.group = NoGroup
  /\ worker' = [worker EXCEPT !.override = @ \/ group # NoGroup]
  /\ interrupts' = IF group = NoGroup THEN interrupts \ {request}
                   ELSE (interrupts \ {request}) \cup {[request EXCEPT !.group = group]}
  /\ UNCHANGED <<disk, spool, child, gate, client, stop, faults, history>>

\* interrupt_verified_group: if the group just ended it may fail, and a
\* command may go on all the same.
SignalInterrupt(request) ==
  /\ worker.up /\ request \in interrupts /\ request.group # NoGroup
  /\ child' \in {child, Killed(request.group)}
  /\ \/ UNCHANGED worker
     \/ ~IsAlive(request.group) /\ worker' = [worker EXCEPT !.override = FALSE]
  /\ interrupts' = interrupts \ {request}
  /\ UNCHANGED <<disk, spool, gate, client, stop, faults, history>>

-----------------------------------------------------------------------------
(* stop_session *)

\* No other request of the session is being made, and none will be.
Stop ==
  /\ stop = "no"
  /\ stop' = "asked"
  /\ worker' = [worker EXCEPT !.shutdown = IF worker.up THEN "asked" ELSE "no"]
  /\ UNCHANGED <<disk, spool, child, gate, client, interrupts, faults, history>>

\* The worker terminates what runs, and then leaves: its threads go on
\* between the two.
Terminate ==
  /\ worker.up /\ worker.shutdown = "asked"
  /\ child' = Killed(Identity(worker.memory))
  /\ worker' = [worker EXCEPT !.shutdown = "terminated"]
  /\ UNCHANGED <<disk, spool, gate, client, interrupts, stop, faults, history>>

Leave ==
  /\ worker.up /\ worker.shutdown = "terminated"
  /\ worker' = Down
  /\ client' = Closed(client)
  /\ interrupts' = {}
  /\ UNCHANGED <<disk, spool, child, gate, stop, faults, history>>

\* It does not leave in time, and is killed.
KillWorker ==
  /\ stop = "asked" /\ worker.up
  /\ worker' = Down
  /\ client' = Closed(client)
  /\ interrupts' = {}
  /\ UNCHANGED <<disk, spool, child, gate, stop, faults, history>>

\* Mutant: the state is read before the worker is known to have left.
CleanUpEarly ==
  /\ stop = "asked"
  /\ child' = Killed(Identity(disk))
  /\ stop' = "done"
  /\ disk' = Nothing /\ spool' = <<>> /\ gate' = {}
  /\ UNCHANGED <<worker, client, interrupts, faults, history>>

\* The worker is gone: what its state names is killed, and the state removed.
CleanUp ==
  /\ stop = "asked" /\ ~worker.up
  /\ child' = Killed(Identity(disk))
  /\ stop' = "done"
  /\ disk' = Nothing /\ spool' = <<>> /\ gate' = {}
  /\ UNCHANGED <<worker, client, interrupts, faults, history>>

-----------------------------------------------------------------------------

Serve == Refuse \/ Subscribe \/ Accept
Dispatch == Spawn \/ Record \/ Release
Fault ==
  \/ CutStart \/ CutAccept \/ AcceptFails \/ SpawnFails \/ DispatchFails
  \/ CollectFails \/ MonitorFails \/ CutMonitor \/ Crash \/ ReplaceLeader

Next ==
  \/ Start \/ Serve \/ Dispatch \/ Collect \/ Monitor \/ Idle
  \/ Fault
  \/ \E g \in Groups : Execute(g) \/ GiveUp(g) \/ Write(g) \/ Exit(g)
  \/ Ask \/ AskAgain \/ Read \/ StreamEnds \/ Interrupt
  \/ \E request \in interrupts : HandleInterrupt(request) \/ SignalInterrupt(request)
  \/ Stop \/ Terminate \/ Leave \/ KillWorker \/ CleanUp

Spec == Init /\ [][Next]_vars

\* The threads of the worker and of the leader go on, commands end, and a
\* leader that waits for a worker starts one.
Fairness ==
  /\ WF_vars(Start /\ client.phase = "again")
  /\ WF_vars(Serve)
  /\ WF_vars(Dispatch \/ Collect \/ Monitor)
  /\ WF_vars(AskAgain \/ Read \/ StreamEnds)
  /\ WF_vars(\E g \in Groups : Execute(g) \/ Exit(g))

FairSpec == Spec /\ Fairness

-----------------------------------------------------------------------------
(* Properties *)

Stored == [high : 0 .. MaxCommands, id : 0 .. MaxCommands,
           status : {"none", "dispatching", "running", "completed"},
           group : Nat, sequence : Nat]

WorkerTypeOK ==
  /\ disk \in Stored /\ disk.group \in {NoGroup} \cup Groups
  /\ worker \in [up : BOOLEAN, memory : Stored, override : BOOLEAN,
                  thread : {"none", "stored", "spawned", "recorded", "released"},
                  shutdown : {"no", "asked", "terminated"}]
  /\ Cardinality(Outputs(spool)) <= SpoolCapacity
  /\ client.phase \in {"over", "sent", "live", "again"}
  /\ client.live <= QueueCapacity
  /\ outcome \in [Commands -> Codes]

(***************************************************************************)
(* No command is run twice, whatever is asked again, and whenever workers  *)
(* and leaders die ("command was not re-executed", worker.rs).             *)
(***************************************************************************)
RunsOnce ==
  \A g, h \in Groups : child[g].began /\ child[h].began /\ child[g].id = child[h].id => g = h

(***************************************************************************)
(* What runs is on record with its process group, so that a later worker,  *)
(* or stop_session, can kill it, also while its worker is dead; and when   *)
(* stop_session has returned, no command of the session runs or will: also *)
(* one that the worker was dispatching at the time.                        *)
(***************************************************************************)
StoppedForGood ==
  \A g \in Groups : child[g].state = "running" =>
    stop # "done" /\ disk.status = "running" /\ disk.group = g

(***************************************************************************)
(* The transcript misses no output of a command without saying so          *)
(* (OutputGap), through pruning and reconnection, up to its end.           *)
(***************************************************************************)
NoSilentLoss == missed = {}

(***************************************************************************)
(* A command that is reported to have exited did so by itself; one that is *)
(* reported as failed to start has not run.                                *)
(***************************************************************************)
OutcomesAreTrue ==
  \A c \in Commands :
    /\ outcome[c] = "exited" => \E g \in Groups : child[g].id = c /\ child[g].code = "exited"
    /\ outcome[c] = "failed" => \A g \in Groups : child[g].id = c => ~child[g].began

\* A write failed and left the command without a thread, or its end on no disk,
\* until the worker dies.
IsStuck == worker.up /\ worker.thread = "none" /\ (IsActive(worker.memory) \/ worker.memory # disk)

(***************************************************************************)
(* A command that was asked for is seen to end, unless its session stops   *)
(* or a failed write has left it without a thread, or its end untold.      *)
(***************************************************************************)
CommandsEnd == client.phase # "over" ~> client.phase = "over" \/ IsStuck \/ stop # "no"
=============================================================================
