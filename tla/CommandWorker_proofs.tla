----------------------- MODULE CommandWorker_proofs ------------------------
(***************************************************************************)
(* Proofs about CommandWorker, for any number of commands, outputs and     *)
(* faults, and any capacities: a command runs once and what runs is on     *)
(* record (WorkerInv); a transcript misses no output without notice        *)
(* (TranscriptInv); and the ends that are reported are true (EndsInv).     *)
(***************************************************************************)
EXTENDS CommandWorker, FiniteSetTheorems, SequenceTheorems, WellFoundedInduction, TLAPS

Records == [high : Nat, id : Nat, status : {"none", "dispatching", "running", "completed"},
            group : Nat, sequence : Nat]
Process == [id : Nat, state : {"gated", "running", "ended"}, began : BOOLEAN,
            written : Nat, taken : Nat, code : Codes]
Workers == [up : BOOLEAN, memory : Records, override : BOOLEAN,
            thread : {"none", "stored", "spawned", "recorded", "released"},
            shutdown : {"no", "asked", "terminated"}]

Identified(c) == "id" \in DOMAIN c /\ c.id \in Nat

Types ==
  /\ disk \in Records
  /\ worker \in Workers
  /\ child \in Seq(Process)
  /\ Identified(client)

(* A process that runs, or that may as soon as it looks at its gate. *)
IsOpen(g) == child[g].state = "running" \/ (child[g].state = "gated" /\ child[g].id \in gate)

SpawnedOnce ==
  /\ \A g, h \in Groups : child[g].id = child[h].id => g = h
  /\ stop # "done" => \A g \in Groups : child[g].id <= disk.high

OpenIsRecorded ==
  \A g \in Groups : IsOpen(g) => stop # "done" /\ disk.status = "running" /\ disk.group = g

WorkerKnows ==
  worker.up =>
    /\ stop # "done"
    /\ disk.high <= worker.memory.high
    /\ \A g \in Groups : IsOpen(g) => IsActive(worker.memory)

ThreadKnows ==
  /\ worker.thread # "none" => worker.up /\ IsActive(worker.memory)
  /\ worker.thread = "stored" =>
       worker.memory.id <= disk.high /\ \A g \in Groups : child[g].id # worker.memory.id
  /\ worker.thread \in {"stored", "spawned"} => disk.status = "dispatching"
  /\ worker.thread \in {"spawned", "recorded", "released"} =>
       Mine \in Groups /\ child[Mine].id = worker.memory.id
  /\ worker.thread \in {"recorded", "released"} => disk.status = "running" /\ disk.group = Mine

(***************************************************************************)
(* The record on disk covers every command that was ever spawned, and      *)
(* names the one process whose gate may be open; the thread that           *)
(* dispatches a command knows how far the record has come.                 *)
(***************************************************************************)
WorkerInv == Types /\ SpawnedOnce /\ OpenIsRecorded /\ WorkerKnows /\ ThreadKnows

-----------------------------------------------------------------------------
(* Lemmas about the helpers *)

(* What happens to its stream does not change which command a client has. *)
LEMMA ClientStays ==
  ASSUME NEW c, Identified(c), NEW event
  PROVE  /\ Identified(Notified(c, event)) /\ Notified(c, event).id = c.id
         /\ Identified(Closed(c)) /\ Closed(c).id = c.id
  BY DEF Identified, Notified, Closed

(* A count that goes on leaves the rest of its record alone. *)
LEMMA ProcessCounts ==
  ASSUME NEW p \in Process
  PROVE  /\ LET new == [p EXCEPT !.written = @ + 1] IN
            new \in Process /\ new.id = p.id /\ new.state = p.state
         /\ LET new == [p EXCEPT !.taken = @ + 1] IN
            new \in Process /\ new.id = p.id /\ new.state = p.state
  BY DEF Process

LEMMA RecordCounts ==
  ASSUME NEW m \in Records
  PROVE  LET new == [m EXCEPT !.sequence = @ + 1] IN
         new \in Records /\ \A field \in {"high", "id", "status", "group"} : new[field] = m[field]
  BY DEF Records

LEMMA FinishedIsRecord ==
  ASSUME NEW m \in Records
  PROVE  /\ Finished(m) \in Records /\ Finished(m).high = m.high
         /\ Finished(m).status = "completed"
<1> DEFINE counted == [m EXCEPT !.sequence = @ + 1]
           done(c) == [c EXCEPT !.status = "completed", !.group = NoGroup]
<1>1. counted \in Records /\ counted.high = m.high
  BY RecordCounts
<1>2. Finished(m) = done(counted)
  BY Zenon DEF Finished
<1>3. ASSUME NEW c \in Records
      PROVE  done(c) \in Records /\ done(c).high = c.high /\ done(c).status = "completed"
  BY DEF Records, NoGroup
<1> HIDE DEF counted, done
<1> QED
  BY <1>1, <1>2, <1>3, Zenon

(* The processes go on as they are, or come to an end, or begin where the  *)
(* gate is open.                                                           *)
GoOn(next) ==
  /\ next \in Seq(Process) /\ Len(next) = Len(child)
  /\ \A g \in Groups :
       /\ next[g].id = child[g].id
       /\ \/ next[g].state = child[g].state
          \/ next[g].state = "ended"
          \/ next[g].state = "running" /\ IsOpen(g)

(* One process that goes on leaves the others alone. *)
LEMMA OneGoesOn ==
  ASSUME Types, NEW g \in Groups, NEW new \in Process, new.id = child[g].id,
         new.state \in {child[g].state, "ended"} \/ (new.state = "running" /\ IsOpen(g))
  PROVE  GoOn([child EXCEPT ![g] = new])
<1>1. child \in Seq(Process) /\ Groups = DOMAIN child
  BY DEF Types, Groups
<1> DEFINE next == [child EXCEPT ![g] = new]
<1>2. next \in Seq(Process) /\ Len(next) = Len(child)
  BY <1>1
<1>3. next[g] = new /\ \A h \in Groups \ {g} : next[h] = child[h]
  BY <1>1
<1> HIDE DEF next
<1> QED
  BY <1>2, <1>3 DEF GoOn, next

(* Killing a group that is there ends it. *)
LEMMA KilledEnds ==
  ASSUME Types, NEW g
  PROVE  /\ GoOn(Killed(g)) /\ GoOn(child)
         /\ g \in Groups => Killed(g)[g].state = "ended"
<1>1. GoOn(child)
  BY DEF GoOn, Types
<1>2. CASE ~IsAlive(g)
  <2>1. Killed(g) = child
    BY <1>2 DEF Killed
  <2> QED
    BY <1>1, <1>2, <2>1 DEF IsAlive
<1>3. CASE IsAlive(g)
  <2> DEFINE new == [child[g] EXCEPT !.state = "ended", !.code = "killed"]
  <2>1. g \in Groups /\ child[g] \in Process
    BY <1>3 DEF IsAlive, Types, Groups
  <2>2. new \in Process /\ new.id = child[g].id /\ new.state = "ended"
    BY <2>1 DEF Process, Codes
  <2>3. Killed(g) = [child EXCEPT ![g] = new]
    BY <1>3, <2>1 DEF Killed
  <2> HIDE DEF new
  <2>4. Killed(g)[g] = new
    BY <2>1, <2>3 DEF Types, Groups
  <2> QED
    BY <1>1, <2>1, <2>2, <2>3, <2>4, OneGoesOn
<1> QED
  BY <1>2, <1>3

-----------------------------------------------------------------------------
(* Steps of processes, of the leader, and ends of the worker *)

(* Nothing is recorded. *)
Unrecorded == UNCHANGED <<disk, gate>> /\ (stop' = "done" <=> stop = "done")

(* The worker is gone, or has at most lost its thread. *)
WorkerStays ==
  \/ worker' = Down
  \/ /\ worker' \in Workers
     /\ worker'.up = worker.up
     /\ worker'.thread \in {worker.thread, "none"}
     /\ \A field \in {"high", "id", "status", "group"} :
          worker'.memory[field] = worker.memory[field]

(* What processes and the leader do, and how a worker may end, disturbs    *)
(* nothing: no process is added, and none has its gate opened.             *)
LEMMA QuietKeeps ==
  ASSUME WorkerInv, Unrecorded, WorkerStays, GoOn(child'), Identified(client')
  PROVE  WorkerInv'
<1>1. /\ Groups' = Groups /\ Mine' = Mine
      /\ \A g \in Groups : child'[g].id = child[g].id
      /\ \A g \in Groups : IsOpen(g)' => IsOpen(g)
  BY DEF GoOn, Groups, Mine, WorkerInv, Types, IsOpen, Unrecorded
<1>2. Down \in Workers /\ Down.up = FALSE /\ Down.thread = "none"
  BY DEF Down, Workers, Nothing, NoGroup, Records
<1>3. Types'
  BY <1>2 DEF WorkerInv, Types, Unrecorded, WorkerStays, GoOn
<1>4. SpawnedOnce'
  BY <1>1 DEF WorkerInv, SpawnedOnce, Unrecorded
<1>5. OpenIsRecorded'
  BY <1>1 DEF WorkerInv, OpenIsRecorded, Unrecorded
<1>6. WorkerKnows'
  <2>1. CASE worker' = Down
    BY <1>2, <2>1 DEF WorkerKnows
  <2>2. CASE worker' # Down
    <3>1. /\ worker'.up = worker.up
          /\ worker'.memory.high = worker.memory.high
          /\ worker'.memory.status = worker.memory.status
      BY <2>2 DEF WorkerStays
    <3> QED
      BY <1>1, <3>1 DEF WorkerInv, WorkerKnows, Unrecorded, IsActive
  <2> QED
    BY <2>1, <2>2
<1>7. ThreadKnows'
  <2>1. CASE worker'.thread = "none"
    BY <2>1 DEF ThreadKnows
  <2>2. CASE worker'.thread # "none"
    <3>1. /\ worker'.up = worker.up /\ worker'.thread = worker.thread
          /\ worker'.memory.id = worker.memory.id
          /\ worker'.memory.status = worker.memory.status
      BY <1>2, <2>2 DEF WorkerStays
    <3> QED
      BY <1>1, <3>1 DEF WorkerInv, ThreadKnows, Unrecorded, IsActive
  <2> QED
    BY <2>1, <2>2
<1> QED
  BY <1>3, <1>4, <1>5, <1>6, <1>7 DEF WorkerInv

(* The steps of a process. *)
LEMMA ProcessKeeps ==
  ASSUME WorkerInv, NEW g \in Groups, Execute(g) \/ GiveUp(g) \/ Write(g) \/ Exit(g)
  PROVE  WorkerInv'
<1>1. child[g] \in Process /\ child \in Seq(Process)
  BY DEF WorkerInv, Types, Groups
<1>2. /\ Unrecorded /\ WorkerStays /\ Identified(client')
  BY DEF Execute, GiveUp, Write, Exit, Unrecorded, WorkerStays, WorkerInv, Types, Identified
<1>3. CASE Execute(g)
  <2> DEFINE new == [child[g] EXCEPT !.state = "running", !.began = TRUE]
  <2>1. new \in Process /\ new.id = child[g].id /\ new.state = "running"
    BY <1>1 DEF Process
  <2>2. child' = [child EXCEPT ![g] = new]
    BY <1>1, <1>3 DEF Execute
  <2>3. IsOpen(g)
    BY <1>3 DEF Execute, IsOpen
  <2> HIDE DEF new
  <2> QED
    BY <1>2, <2>1, <2>2, <2>3, OneGoesOn, QuietKeeps DEF WorkerInv
<1>4. ASSUME NEW new, new \in Process, new.id = child[g].id, new.state \in {child[g].state, "ended"},
             child' = [child EXCEPT ![g] = new]
      PROVE  WorkerInv'
  BY <1>2, <1>4, OneGoesOn, QuietKeeps DEF WorkerInv
<1>5. CASE GiveUp(g)
  <2> DEFINE new == [child[g] EXCEPT !.state = "ended", !.code = "unknown"]
  <2>1. new \in Process /\ new.id = child[g].id /\ new.state = "ended"
    BY <1>1 DEF Process, Codes
  <2>2. child' = [child EXCEPT ![g] = new]
    BY <1>1, <1>5 DEF GiveUp
  <2> HIDE DEF new
  <2> QED
    BY <1>4, <2>1, <2>2
<1>6. CASE Write(g)
  <2> DEFINE new == [child[g] EXCEPT !.written = @ + 1]
  <2>1. new \in Process /\ new.id = child[g].id /\ new.state = child[g].state
    BY <1>1, ProcessCounts
  <2>2. child' = [child EXCEPT ![g] = new]
    BY <1>1, <1>6 DEF Write
  <2> HIDE DEF new
  <2> QED
    BY <1>4, <2>1, <2>2
<1>7. CASE Exit(g)
  <2> DEFINE new == [child[g] EXCEPT !.state = "ended", !.code = "exited"]
  <2>1. new \in Process /\ new.id = child[g].id /\ new.state = "ended"
    BY <1>1 DEF Process, Codes
  <2>2. child' = [child EXCEPT ![g] = new]
    BY <1>1, <1>7 DEF Exit
  <2> HIDE DEF new
  <2> QED
    BY <1>4, <2>1, <2>2
<1> QED
  BY <1>3, <1>5, <1>6, <1>7

(* The steps of the leader, and answers to it. *)
LEMMA LeaderKeeps ==
  ASSUME WorkerInv, Refuse \/ Subscribe \/ Ask \/ ReplaceLeader \/ AskAgain \/ Read \/ StreamEnds
                    \/ Interrupt
  PROVE  WorkerInv'
<1>1. /\ Unrecorded /\ WorkerStays /\ GoOn(child')
  BY DEF Refuse, Subscribe, Ask, ReplaceLeader, AskAgain, Read, StreamEnds, Interrupt,
         Unrecorded, WorkerStays, GoOn, WorkerInv, Types
<1>2. Identified(client)
  BY DEF WorkerInv, Types
<1>3. Identified(client')
  <2>1. CASE Refuse \/ Subscribe
    <3>1. \A events, open : Identified(Answered(events, open))
      BY <1>2 DEF Answered, Identified
    <3>2. \E events, open : client' = Answered(events, open)
      BY <2>1, Zenon DEF Refuse, Subscribe
    <3> QED
      BY <3>1, <3>2
  <2>2. CASE Ask
    BY <1>2, <2>2 DEF Ask, NoCommand, Identified
  <2>3. CASE ReplaceLeader \/ AskAgain \/ StreamEnds \/ Interrupt
    BY <1>2, <2>3 DEF ReplaceLeader, AskAgain, StreamEnds, Interrupt, Identified
  <2>4. CASE Read
    BY <1>2, <2>4 DEF Read, Identified
  <2> QED
    BY <2>1, <2>2, <2>3, <2>4
<1> QED
  BY <1>1, <1>3, QuietKeeps

(* The worker ends, and leaves everything as it is. *)
LEMMA DownKeeps ==
  ASSUME WorkerInv, CutAccept \/ CutMonitor \/ Crash \/ Idle \/ Leave \/ KillWorker
  PROVE  WorkerInv'
<1>1. Unrecorded /\ WorkerStays /\ GoOn(child')
  BY DEF CutAccept, CutMonitor, Crash, Idle, Leave, KillWorker, Unrecorded, WorkerStays, GoOn,
         WorkerInv, Types
<1>2. Identified(client')
  <2>1. Identified(client)
    BY DEF WorkerInv, Types
  <2>2. \/ client' \in {client, Closed(client)}
        \/ client' = Closed(Notified(client, Completion(worker.memory, ExitCode)))
    BY DEF CutAccept, CutMonitor, Crash, Idle, Leave, KillWorker
  <2> QED
    BY <2>1, <2>2, ClientStays
<1> QED
  BY <1>1, <1>2, QuietKeeps

-----------------------------------------------------------------------------
(* Steps of the worker that do not write the record *)

(* The user interrupts, the session is asked to stop, and output comes. *)
LEMMA ServiceKeeps ==
  ASSUME WorkerInv,
         \/ Collect \/ CollectFails \/ Stop \/ Terminate
         \/ \E request \in interrupts : HandleInterrupt(request) \/ SignalInterrupt(request)
  PROVE  WorkerInv'
<1>1. /\ worker \in Workers /\ worker.memory \in Records /\ Identified(client)
      /\ child \in Seq(Process)
  BY DEF WorkerInv, Types, Workers
<1>2. Unrecorded
  BY DEF Collect, CollectFails, Stop, Terminate, HandleInterrupt, SignalInterrupt, Unrecorded
<1>3. Identified(client')
  <2>1. \/ client' = client
        \/ client' = Notified(client, Output(worker.memory.sequence + 1))
    BY DEF Collect, CollectFails, Stop, Terminate, HandleInterrupt, SignalInterrupt
  <2> QED
    BY <1>1, <2>1, ClientStays
<1>4. WorkerStays
  <2> DEFINE new == [worker.memory EXCEPT !.sequence = @ + 1]
  <2>0. new \in Records /\ \A field \in {"high", "id", "status", "group"} : new[field] = worker.memory[field]
    BY <1>1, RecordCounts
  <2>1. CASE Collect
    <3>1. worker' = [worker EXCEPT !.memory = new]
      BY <1>1, <2>1 DEF Collect, Workers
    <3> HIDE DEF new
    <3> QED
      BY <1>1, <2>0, <3>1 DEF WorkerStays, Workers
  <2>2. CASE CollectFails
    <3>1. worker' = [worker EXCEPT !.memory = new, !.thread = "none"]
      BY <1>1, <2>2 DEF CollectFails, Workers
    <3> HIDE DEF new
    <3> QED
      BY <1>1, <2>0, <3>1 DEF WorkerStays, Workers
  <2>3. CASE Stop \/ Terminate
    BY <1>1, <2>3 DEF Stop, Terminate, WorkerStays, Workers
  <2>4. ASSUME NEW request \in interrupts, HandleInterrupt(request) \/ SignalInterrupt(request)
        PROVE  WorkerStays
    BY <1>1, <2>4 DEF HandleInterrupt, SignalInterrupt, WorkerStays, Workers
  <2> QED
    BY <2>1, <2>2, <2>3, <2>4
<1>5. GoOn(child')
  <2>1. CASE Collect
    <3> DEFINE new == [child[Mine] EXCEPT !.taken = @ + 1]
    <3>1. Mine \in Groups /\ child[Mine] \in Process
      BY <1>1, <2>1 DEF Collect, WorkerInv, ThreadKnows, Groups
    <3>2. new \in Process /\ new.id = child[Mine].id /\ new.state = child[Mine].state
      BY <3>1, ProcessCounts
    <3>3. child' = [child EXCEPT ![Mine] = new]
      BY <2>1, <3>1 DEF Collect
    <3> HIDE DEF new
    <3> QED
      BY <3>1, <3>2, <3>3, OneGoesOn DEF WorkerInv
  <2>2. CASE ~Collect
    <3>1. child' = child \/ \E g : child' = Killed(g)
      BY <2>2 DEF CollectFails, Stop, Terminate, HandleInterrupt, SignalInterrupt
    <3> QED
      BY <3>1, KilledEnds DEF WorkerInv
  <2> QED
    BY <2>1, <2>2
<1> QED
  BY <1>2, <1>3, <1>4, <1>5, QuietKeeps

-----------------------------------------------------------------------------
(* Steps that write the record, the gate, or spawn *)

(* A command is taken: nothing runs, and nothing of it was ever spawned. *)
LEMMA AcceptKeeps ==
  ASSUME WorkerInv, Accept \/ AcceptFails
  PROVE  WorkerInv'
<1> DEFINE new == Dispatching(client.id)
<1>0. disk \in Records /\ child \in Seq(Process)
  BY DEF WorkerInv, Types
<1>1. /\ worker \in Workers /\ worker.memory \in Records /\ Identified(client)
      /\ worker.up
  BY DEF WorkerInv, Types, Workers, Accept, AcceptFails
<1>2. /\ ~IsActive(worker.memory) /\ client.id > worker.memory.high
      /\ UNCHANGED <<child, gate, stop>>
  <2>1. IsNew /\ UNCHANGED <<child, gate, stop>>
    BY DEF Accept, AcceptFails
  <2>2. ~IsActive(worker.memory) /\ ~(client.id <= worker.memory.high)
    BY <2>1 DEF IsNew, IsRefused
  <2>3. client.id \in Nat /\ worker.memory.high \in Nat
    BY <1>1 DEF Identified, Records
  <2> QED
    BY <2>1, <2>2, <2>3
<1>3. /\ new \in Records /\ new.high = client.id /\ new.id = client.id
      /\ new.status = "dispatching"
  BY <1>1, <1>2 DEF Dispatching, Records, NoGroup, Identified
<1>4. /\ Identified(client')
      /\ worker'.up /\ worker'.memory = new /\ worker' \in Workers
      /\ \/ disk' = new /\ worker'.thread = "stored"
         \/ disk' = disk /\ worker'.thread = "none"
  <2>1. worker.thread = "none"
    BY <1>2 DEF WorkerInv, ThreadKnows
  <2>2. Identified(client')
    <3>1. \A events, open : Identified(Answered(events, open))
      BY <1>1 DEF Answered, Identified
    <3>2. \E events, open : client' = Answered(events, open)
      BY Zenon DEF Accept, AcceptFails
    <3> QED
      BY <3>1, <3>2
  <2> HIDE DEF new
  <2>3. CASE Accept
    <3>1. worker' = [worker EXCEPT !.memory = new, !.thread = "stored"] /\ disk' = new
      BY <2>3 DEF Accept, new
    <3> QED
      BY <1>1, <1>3, <2>2, <3>1 DEF Workers
  <2>4. CASE AcceptFails
    <3>1. worker' = [worker EXCEPT !.memory = new] /\ disk' = disk
      BY <2>4 DEF AcceptFails, new
    <3> QED
      BY <1>1, <1>3, <2>1, <2>2, <3>1 DEF Workers
  <2> QED
    BY <2>3, <2>4
<1> HIDE DEF new
<1>5. /\ disk.high <= worker.memory.high /\ stop # "done"
      /\ \A g \in Groups : child[g].id <= disk.high /\ ~IsOpen(g)
      /\ disk.high \in Nat
  BY <1>1, <1>2 DEF WorkerInv, WorkerKnows, SpawnedOnce, Types, Records
<1>6. \A g \in Groups : child[g].id # client.id /\ child[g].id <= client.id
  <2> SUFFICES ASSUME NEW g \in Groups PROVE child[g].id < client.id /\ client.id \in Nat /\ child[g].id \in Nat
    OBVIOUS
  <2>1. child[g] \in Process
    BY <1>0 DEF Groups
  <2>2. {child[g].id, client.id, worker.memory.high} \subseteq Nat
    BY <1>1, <2>1 DEF Process, Identified, Records
  <2> QED
    BY <1>2, <1>5, <2>2
<1>7. Types'
  <2>1. disk' \in Records /\ child' = child
    BY <1>0, <1>2, <1>3, <1>4
  <2> QED
    BY <1>0, <1>4, <2>1 DEF Types
<1>8. SpawnedOnce'
  <2>1. child' = child /\ (stop' = "done" <=> stop = "done") /\ (disk' = disk \/ disk'.high = client.id)
    BY <1>2, <1>3, <1>4
  <2>2. \A g \in Groups : child[g].id <= disk'.high
    BY <1>5, <1>6, <2>1
  <2>3. \A g, h \in Groups : child[g].id = child[h].id => g = h
    BY DEF WorkerInv, SpawnedOnce
  <2> QED
    BY <2>1, <2>2, <2>3 DEF SpawnedOnce, Groups
<1>9. OpenIsRecorded'
  BY <1>2, <1>5 DEF OpenIsRecorded, IsOpen, Groups
<1>10. WorkerKnows'
  BY <1>1, <1>2, <1>3, <1>4, <1>5 DEF WorkerKnows, IsActive, Records, Identified
<1>11. ThreadKnows'
  BY <1>1, <1>2, <1>3, <1>4, <1>6 DEF ThreadKnows, IsActive, Groups, Identified, WorkerInv, Types, Process
<1> QED
  BY <1>7, <1>8, <1>9, <1>10, <1>11 DEF WorkerInv

(* A process is spawned behind its gate. *)
LEMMA SpawnKeeps ==
  ASSUME WorkerInv, Spawn
  PROVE  WorkerInv'
<1> DEFINE new == [id |-> worker.memory.id, state |-> "gated", began |-> FALSE,
                   written |-> 0, taken |-> 0, code |-> "none"]
           next == Append(child, new)
<1>1. /\ worker \in Workers /\ worker.memory \in Records /\ child \in Seq(Process)
      /\ Identified(client) /\ worker.up
  BY DEF WorkerInv, Types, Workers, Spawn
<1>2. /\ new \in Process /\ new.id = worker.memory.id /\ new.state = "gated"
  BY <1>1 DEF Process, Codes, Records
<1>3. /\ child' = next /\ gate' = gate \ {worker.memory.id}
      /\ UNCHANGED <<disk, stop, client>>
      /\ worker' = [worker EXCEPT !.thread = "spawned"]
      /\ worker.thread = "stored"
  BY DEF Spawn
<1> HIDE DEF new
<1>4. /\ next \in Seq(Process) /\ Len(next) = Len(child) + 1 /\ next[Len(child) + 1] = new
      /\ DOMAIN next = DOMAIN child \cup {Len(child) + 1}
      /\ \A g \in DOMAIN child : next[g] = child[g]
      /\ Len(child) + 1 \notin DOMAIN child
  BY <1>1, <1>2
<1> HIDE DEF next
<1>5. /\ worker' \in Workers /\ worker'.thread = "spawned"
      /\ worker'.up /\ worker'.memory = worker.memory
  BY <1>1, <1>3 DEF Workers
<1>6. /\ disk.status = "dispatching" /\ worker.memory.id <= disk.high
      /\ \A g \in Groups : child[g].id # worker.memory.id /\ ~IsOpen(g)
  BY <1>3 DEF WorkerInv, ThreadKnows, OpenIsRecorded
<1>7. Types'
  BY <1>1, <1>3, <1>4, <1>5 DEF WorkerInv, Types
<1>8. SpawnedOnce'
  BY <1>2, <1>3, <1>4, <1>6 DEF WorkerInv, SpawnedOnce, Groups
<1>9. \A g \in Groups' : ~IsOpen(g)'
  BY <1>2, <1>3, <1>4, <1>6 DEF IsOpen, Groups
<1>10. OpenIsRecorded' /\ WorkerKnows'
  BY <1>3, <1>5, <1>9 DEF WorkerInv, WorkerKnows, OpenIsRecorded
<1>11. ThreadKnows'
  BY <1>2, <1>3, <1>4, <1>5, <1>6 DEF WorkerInv, ThreadKnows, Groups, Mine
<1> QED
  BY <1>7, <1>8, <1>9, <1>10, <1>11 DEF WorkerInv

(* The processes and gates as they were when nothing more is open than was. *)
LEMMA OpenShrinks ==
  ASSUME Types, GoOn(child'), gate' \subseteq gate
  PROVE  /\ Groups' = Groups /\ Mine' = Mine
         /\ \A g \in Groups : child'[g].id = child[g].id
         /\ \A g \in Groups : IsOpen(g)' => IsOpen(g)
         /\ \A g \in Groups : child'[g].state = "ended" => ~IsOpen(g)'
  BY DEF GoOn, Groups, Mine, Types, IsOpen

(* What the worker has in memory covers what is on disk. *)
LEMMA MemoryCovers ==
  ASSUME WorkerInv, worker.up, UNCHANGED stop, GoOn(child'), disk'.high = worker.memory.high
  PROVE  SpawnedOnce'
<1>1. Groups' = Groups /\ \A g \in Groups : child'[g].id = child[g].id
  BY DEF GoOn, Groups, WorkerInv, Types
<1>2. ASSUME NEW g \in Groups PROVE child'[g].id <= disk'.high
  <2>1. child[g].id <= disk.high /\ disk.high <= worker.memory.high
    BY DEF WorkerInv, WorkerKnows, SpawnedOnce
  <2>2. child[g] \in Process /\ disk \in Records /\ worker.memory \in Records
    BY DEF WorkerInv, Types, Groups, Workers
  <2>3. {child[g].id, disk.high, worker.memory.high} \subseteq Nat
    BY <2>2 DEF Process, Records
  <2> QED
    BY <1>1, <2>1, <2>3
<1> QED
  BY <1>1, <1>2 DEF WorkerInv, SpawnedOnce

(* The command has ended, and so has its process. *)
LEMMA FinishKeeps ==
  ASSUME WorkerInv, Monitor \/ SpawnFails \/ DispatchFails
  PROVE  WorkerInv'
<1> DEFINE new == Finished(worker.memory)
<1>1. /\ worker \in Workers /\ worker.memory \in Records /\ Identified(client)
      /\ worker.up /\ UNCHANGED stop
  BY DEF WorkerInv, Types, Workers, Monitor, IsDone, SpawnFails, DispatchFails
<1>2. /\ new \in Records /\ new.high = worker.memory.high /\ new.status = "completed"
  BY <1>1, FinishedIsRecord
<1>3. /\ disk' = new
      /\ worker' = [worker EXCEPT !.memory = new, !.override = FALSE, !.thread = "none"]
      /\ \/ client' = Notified(client, Completion(worker.memory, ExitCode))
         \/ client' = Notified(Notified(client, Error), Completion(worker.memory, "failed"))
  BY DEF Monitor, SpawnFails, DispatchFails, Finish
<1> HIDE DEF new
<1>4. Identified(client')
  BY <1>1, <1>3, ClientStays
<1>5. /\ worker' \in Workers /\ worker'.up /\ worker'.memory = new /\ worker'.thread = "none"
  BY <1>1, <1>2, <1>3 DEF Workers
<1>6. GoOn(child') /\ gate' \subseteq gate
  BY KilledEnds DEF Monitor, SpawnFails, DispatchFails, WorkerInv
<1>7. \A g \in Groups : ~IsOpen(g)'
  <2> SUFFICES ASSUME NEW g \in Groups, IsOpen(g) PROVE ~IsOpen(g)'
    BY <1>6, OpenShrinks DEF WorkerInv
  <2>1. disk.status = "running" /\ disk.group = g
    BY DEF WorkerInv, OpenIsRecorded
  <2>2. g = Mine /\ worker.thread \in {"recorded", "released"}
    BY <2>1 DEF Monitor, IsDone, SpawnFails, DispatchFails, WorkerInv, ThreadKnows
  <2>3. CASE Monitor
    <3>1. child' = child /\ child[g].state = "ended"
      BY <2>2, <2>3 DEF Monitor, IsDone, IsAlive
    <3> QED
      BY <1>6, <3>1, OpenShrinks DEF WorkerInv
  <2>4. CASE DispatchFails
    <3>1. child'[g].state = "ended"
      BY <2>2, <2>4, KilledEnds DEF DispatchFails, WorkerInv
    <3> QED
      BY <1>6, <3>1, OpenShrinks DEF WorkerInv
  <2> QED
    BY <2>2, <2>3, <2>4 DEF SpawnFails
<1>8. Types'
  BY <1>2, <1>3, <1>4, <1>5, <1>6 DEF Types, GoOn
<1>9. SpawnedOnce'
  BY <1>1, <1>2, <1>3, <1>6, MemoryCovers
<1>10. OpenIsRecorded'
  BY <1>6, <1>7, OpenShrinks DEF OpenIsRecorded, WorkerInv
<1>11. WorkerKnows'
  <2>1. disk'.high <= worker'.memory.high /\ stop' # "done"
    BY <1>1, <1>2, <1>3, <1>5 DEF WorkerInv, WorkerKnows, Records
  <2> QED
    BY <1>6, <1>7, <2>1, OpenShrinks DEF WorkerKnows, WorkerInv
<1>12. ThreadKnows'
  BY <1>5 DEF ThreadKnows
<1> QED
  BY <1>8, <1>9, <1>10, <1>11, <1>12 DEF WorkerInv

(* The command has ended in memory, and the record still names its process. *)
LEMMA MonitorFailsKeeps ==
  ASSUME WorkerInv, MonitorFails
  PROVE  WorkerInv'
<1> DEFINE new == Finished(worker.memory)
<1>1. /\ worker \in Workers /\ worker.memory \in Records /\ Identified(client)
      /\ worker.up /\ worker.thread = "released" /\ ~IsAlive(Mine)
      /\ UNCHANGED <<disk, child, stop>> /\ gate' \subseteq gate /\ GoOn(child')
  BY KilledEnds DEF WorkerInv, Types, Workers, MonitorFails, IsDone
<1>2. /\ new \in Records /\ new.high = worker.memory.high
  BY <1>1, FinishedIsRecord
<1>3. /\ worker' = [worker EXCEPT !.memory = new, !.override = FALSE, !.thread = "none"]
      /\ client' \in {client, Notified(client, Completion(worker.memory, ExitCode))}
  BY DEF MonitorFails
<1> HIDE DEF new
<1>4. Identified(client')
  BY <1>1, <1>3, ClientStays
<1>5. /\ worker' \in Workers /\ worker'.up /\ worker'.memory = new /\ worker'.thread = "none"
  BY <1>1, <1>2, <1>3 DEF Workers
<1>6. \A g \in Groups : ~IsOpen(g)'
  <2> SUFFICES ASSUME NEW g \in Groups, IsOpen(g) PROVE ~IsOpen(g)'
    BY <1>1, OpenShrinks DEF WorkerInv
  <2>1. g = Mine
    BY <1>1 DEF WorkerInv, OpenIsRecorded, ThreadKnows
  <2>2. child[g].state = "ended"
    BY <1>1, <2>1 DEF IsAlive
  <2> QED
    BY <2>2 DEF IsOpen
<1>7. Types'
  BY <1>1, <1>4, <1>5 DEF WorkerInv, Types
<1>8. SpawnedOnce' /\ OpenIsRecorded' /\ Groups' = Groups
  BY <1>1, <1>6 DEF WorkerInv, SpawnedOnce, OpenIsRecorded, Groups
<1>9. WorkerKnows'
  BY <1>1, <1>2, <1>5, <1>6, <1>8 DEF WorkerInv, WorkerKnows
<1>10. ThreadKnows'
  BY <1>5 DEF ThreadKnows
<1> QED
  BY <1>7, <1>8, <1>9, <1>10 DEF WorkerInv

(* The process is recorded before its gate opens. *)
LEMMA RecordKeeps ==
  ASSUME WorkerInv, Record
  PROVE  WorkerInv'
<1> DEFINE new == [worker.memory EXCEPT !.status = "running", !.group = Mine]
<1>1. /\ worker \in Workers /\ worker.memory \in Records /\ Identified(client)
      /\ worker.up /\ worker.thread = "spawned" /\ UNCHANGED <<stop, child, gate, client>>
      /\ GoOn(child')
  BY DEF WorkerInv, Types, Workers, Record, GoOn
<1>2. Mine \in Nat
  BY DEF Mine, WorkerInv, Types
<1>3. /\ new \in Records /\ new.high = worker.memory.high /\ new.id = worker.memory.id
      /\ new.status = "running" /\ new.group = Mine
  BY <1>1, <1>2 DEF Records
<1>4. disk' = new /\ worker' = [worker EXCEPT !.memory = new, !.thread = "recorded"]
  BY DEF Record
<1> HIDE DEF new
<1>5. worker' \in Workers /\ worker'.up /\ worker'.memory = new /\ worker'.thread = "recorded"
  BY <1>1, <1>3, <1>4 DEF Workers
<1>6. Types'
  BY <1>1, <1>3, <1>4, <1>5 DEF Types, GoOn
<1>7. SpawnedOnce'
  BY <1>1, <1>3, <1>4, MemoryCovers
<1>8. OpenIsRecorded'
  BY <1>1 DEF WorkerInv, ThreadKnows, OpenIsRecorded, IsOpen, Groups
<1>9. WorkerKnows'
  BY <1>1, <1>3, <1>4, <1>5 DEF WorkerInv, WorkerKnows, IsActive, Records, IsOpen, Groups
<1>10. ThreadKnows'
  BY <1>1, <1>3, <1>4, <1>5 DEF WorkerInv, ThreadKnows, IsActive, Mine, Groups
<1> QED
  BY <1>6, <1>7, <1>8, <1>9, <1>10 DEF WorkerInv

(* The gate that opens is that of the process on record. *)
LEMMA ReleaseKeeps ==
  ASSUME WorkerInv, Release
  PROVE  WorkerInv'
<1>1. /\ worker \in Workers /\ worker.up /\ worker.thread = "recorded"
      /\ UNCHANGED <<disk, stop, child, client>> /\ gate' = gate \cup {worker.memory.id}
      /\ worker' = [worker EXCEPT !.thread = "released"]
  BY DEF WorkerInv, Types, Release
<1>2. /\ worker' \in Workers /\ worker'.up /\ worker'.memory = worker.memory
      /\ worker'.thread = "released"
  BY <1>1 DEF Workers
<1>3. /\ disk.status = "running" /\ disk.group = Mine
      /\ Mine \in Groups /\ child[Mine].id = worker.memory.id
  BY <1>1 DEF WorkerInv, ThreadKnows
<1>4. OpenIsRecorded'
  <2> SUFFICES ASSUME NEW g \in Groups, IsOpen(g)' PROVE stop # "done" /\ disk.group = g
    BY <1>1, <1>3 DEF OpenIsRecorded, Groups
  <2>1. stop # "done"
    BY <1>1 DEF WorkerInv, WorkerKnows
  <2>2. CASE IsOpen(g)
    BY <2>1, <2>2 DEF WorkerInv, OpenIsRecorded
  <2>3. CASE ~IsOpen(g)
    <3>1. child[g].id = worker.memory.id
      BY <1>1, <2>3 DEF IsOpen
    <3> QED
      BY <1>3, <2>1, <3>1 DEF WorkerInv, SpawnedOnce
  <2> QED
    BY <2>2, <2>3
<1>5. Types' /\ SpawnedOnce' /\ WorkerKnows'
  <2>1. IsActive(worker.memory)
    BY <1>1 DEF WorkerInv, ThreadKnows
  <2> QED
    BY <1>1, <1>2, <2>1 DEF WorkerInv, Types, SpawnedOnce, WorkerKnows, Groups
<1>6. ThreadKnows'
  BY <1>1, <1>2, <1>3 DEF WorkerInv, ThreadKnows, Groups, Mine
<1> QED
  BY <1>4, <1>5, <1>6 DEF WorkerInv

(* The process on record is killed, and with it the only one that is open. *)
LEMMA KillingCloses ==
  ASSUME WorkerInv, child' = Killed(Identity(disk)), gate' \subseteq gate
  PROVE  /\ GoOn(child') /\ Groups' = Groups
         /\ \A g \in Groups : ~IsOpen(g)'
<1>1. GoOn(child')
  BY KilledEnds DEF WorkerInv
<1>2. ASSUME NEW g \in Groups, IsOpen(g) PROVE ~IsOpen(g)'
  <2>1. Identity(disk) = g
    BY <1>2 DEF WorkerInv, OpenIsRecorded, Identity, IsActive
  <2>2. child'[g].state = "ended"
    BY <2>1, KilledEnds DEF WorkerInv
  <2> QED
    BY <1>1, <2>2, OpenShrinks DEF WorkerInv
<1> QED
  BY <1>1, <1>2, OpenShrinks DEF WorkerInv

(* A worker starts. *)
LEMMA StartKeeps ==
  ASSUME WorkerInv, Start
  PROVE  WorkerInv'
<1> DEFINE new == Recovered(disk)
<1>1. /\ disk \in Records /\ stop = "no" /\ UNCHANGED <<gate, stop, client>>
      /\ child' = Killed(Identity(disk)) /\ disk' = new
      /\ worker' = [Down EXCEPT !.up = TRUE, !.memory = new]
  BY DEF WorkerInv, Types, Start, CanStart
<1>2. /\ new \in Records /\ new.high = disk.high /\ new.status # "running"
  BY <1>1, FinishedIsRecord DEF Recovered, IsActive
<1> HIDE DEF new
<1>3. /\ worker' \in Workers /\ worker'.up /\ worker'.memory = new /\ worker'.thread = "none"
  BY <1>1, <1>2 DEF Down, Workers, Nothing, NoGroup, Records
<1>4. GoOn(child') /\ Groups' = Groups /\ \A g \in Groups : ~IsOpen(g)'
  BY <1>1, KillingCloses
<1>5. Types'
  BY <1>1, <1>2, <1>3, <1>4 DEF WorkerInv, Types, GoOn
<1>6. SpawnedOnce'
  BY <1>1, <1>2, <1>4 DEF WorkerInv, SpawnedOnce, GoOn
<1>7. OpenIsRecorded'
  BY <1>4 DEF OpenIsRecorded
<1>8. WorkerKnows'
  BY <1>1, <1>2, <1>3, <1>4 DEF WorkerKnows, Records
<1>9. ThreadKnows'
  BY <1>3 DEF ThreadKnows
<1> QED
  BY <1>5, <1>6, <1>7, <1>8, <1>9 DEF WorkerInv

(* A worker dies while it recovers: a process is killed, and all else stays. *)
LEMMA CutStartKeeps ==
  ASSUME WorkerInv, CutStart
  PROVE  WorkerInv'
<1>1. Unrecorded /\ WorkerStays /\ Identified(client')
  BY DEF CutStart, Unrecorded, WorkerStays, WorkerInv, Types, Identified
<1>2. GoOn(child')
  BY KilledEnds DEF CutStart, WorkerInv
<1> QED
  BY <1>1, <1>2, QuietKeeps

(* The session is cleaned up. *)
LEMMA CleanUpKeeps ==
  ASSUME WorkerInv, CleanUp
  PROVE  WorkerInv'
<1>1. /\ ~worker.up /\ worker.thread = "none" /\ UNCHANGED <<worker, client>>
      /\ child' = Killed(Identity(disk)) /\ disk' = Nothing /\ gate' = {} /\ stop' = "done"
  BY DEF WorkerInv, ThreadKnows, CleanUp
<1>2. Nothing \in Records
  BY DEF Nothing, Records, NoGroup
<1>3. GoOn(child') /\ Groups' = Groups /\ \A g \in Groups : ~IsOpen(g)'
  BY <1>1, KillingCloses
<1>4. Types'
  BY <1>1, <1>2, <1>3 DEF WorkerInv, Types, GoOn
<1>5. SpawnedOnce'
  BY <1>1, <1>3 DEF WorkerInv, SpawnedOnce, GoOn
<1>6. OpenIsRecorded'
  BY <1>3 DEF OpenIsRecorded
<1>7. WorkerKnows' /\ ThreadKnows'
  BY <1>1 DEF WorkerKnows, ThreadKnows
<1> QED
  BY <1>4, <1>5, <1>6, <1>7 DEF WorkerInv

-----------------------------------------------------------------------------
(* The invariant *)

LEMMA InitWorker == Init => WorkerInv
<1> SUFFICES ASSUME Init PROVE WorkerInv
  OBVIOUS
<1>1. Nothing \in Records /\ Nothing.status # "running"
  BY DEF Nothing, Records, NoGroup
<1>2. Down \in Workers /\ Down.up = FALSE /\ Down.thread = "none"
  BY <1>1 DEF Down, Workers
<1>3. Types
  BY <1>1, <1>2 DEF Init, Types, NoCommand, Identified
<1>4. SpawnedOnce /\ OpenIsRecorded
  BY DEF Init, SpawnedOnce, OpenIsRecorded, Groups
<1>5. WorkerKnows /\ ThreadKnows
  BY <1>2 DEF Init, WorkerKnows, ThreadKnows
<1> QED
  BY <1>3, <1>4, <1>5 DEF WorkerInv

LEMMA NextWorker == WorkerInv /\ [Next]_vars => WorkerInv'
<1> SUFFICES ASSUME WorkerInv, [Next]_vars PROVE WorkerInv'
  OBVIOUS
<1>1. CASE UNCHANGED vars
  <2>1. Unrecorded /\ WorkerStays /\ GoOn(child') /\ Identified(client')
    BY <1>1 DEF vars, Unrecorded, WorkerStays, GoOn, WorkerInv, Types
  <2> QED
    BY <2>1, QuietKeeps
<1>2. CASE Start \/ Serve \/ Dispatch \/ Collect \/ Monitor \/ Idle \/ Fault
  BY <1>2, StartKeeps, LeaderKeeps, AcceptKeeps, SpawnKeeps, RecordKeeps, ReleaseKeeps,
     ServiceKeeps, FinishKeeps, MonitorFailsKeeps, CutStartKeeps, DownKeeps DEF Serve, Dispatch, Fault
<1>3. CASE \E g \in Groups : Execute(g) \/ GiveUp(g) \/ Write(g) \/ Exit(g)
  BY <1>3, ProcessKeeps
<1>4. CASE Ask \/ AskAgain \/ Read \/ StreamEnds \/ Interrupt
  BY <1>4, LeaderKeeps
<1>5. CASE \/ Stop \/ Terminate
           \/ \E request \in interrupts : HandleInterrupt(request) \/ SignalInterrupt(request)
  BY <1>5, ServiceKeeps
<1>6. CASE Leave \/ KillWorker \/ CleanUp
  BY <1>6, DownKeeps, CleanUpKeeps
<1> QED
  BY <1>1, <1>2, <1>3, <1>4, <1>5, <1>6 DEF Next

(***************************************************************************)
(* A command of which the worker was asked is executed at most once        *)
(* (serve_run and spawn_active_command of worker.rs), whatever dies or     *)
(* fails to be written, and however often it is asked for again.           *)
(***************************************************************************)
THEOREM CommandsRunOnce == Spec => []RunsOnce
<1>1. WorkerInv => RunsOnce
  BY DEF WorkerInv, SpawnedOnce, RunsOnce
<1> QED
  BY <1>1, InitWorker, NextWorker, PTL DEF Spec

(***************************************************************************)
(* The process that runs is the one on record (persist before the gate is  *)
(* opened, worker.rs), so that none is left when stop_session returns.     *)
(***************************************************************************)
THEOREM NoneIsLeft == Spec => []StoppedForGood
<1>1. WorkerInv => StoppedForGood
  BY DEF WorkerInv, OpenIsRecorded, StoppedForGood, IsOpen
<1> QED
  BY <1>1, InitWorker, NextWorker, PTL DEF Spec

-----------------------------------------------------------------------------
(* Counting.  A recursive function is reasoned about through its run, the  *)
(* function from each step to its value; that a run exists and what it     *)
(* keeps is shown by its least counterexample.                             *)

Below == {pair \in Nat \X Nat : pair[1] < pair[2]}

LEMMA BelowIsWellFounded == IsWellFoundedOn(Below, Nat)
BY ONLY NatLessThanWellFounded DEF OpToRel, Below

LEMMA LeastNumber ==
  ASSUME NEW T, T \subseteq Nat, T # {}
  PROVE  \E x \in T : \A y \in T : x <= y
<1>1. PICK x \in T : \A y \in T : ~ (<<y, x>> \in Below)
  BY BelowIsWellFounded, WFMin
<1>2. ASSUME NEW y \in T PROVE x <= y
  <2>1. ~(y < x)
    BY <1>1 DEF Below
  <2>2. QED
    BY <2>1
<1>3. QED
  BY <1>2

(* What holds at 0 and from each step to the next holds up to n. *)
LEMMA CountUp ==
  ASSUME NEW n \in Nat, NEW T, 0 \in T, \A k \in 1 .. n : k - 1 \in T => k \in T
  PROVE  \A k \in 0 .. n : k \in T
<1> SUFFICES ASSUME ~ \A k \in 0 .. n : k \in T PROVE FALSE
  OBVIOUS
<1> DEFINE Missing == {k \in 0 .. n : k \notin T}
<1>1. PICK m \in Missing : \A j \in Missing : m <= j
  <2>1. Missing \subseteq Nat /\ Missing # {}
    OBVIOUS
  <2> HIDE DEF Missing
  <2>2. QED
    BY <2>1, LeastNumber
<1>2. m \in 1 .. n /\ m \notin T
  BY <1>1
<1>3. m - 1 \in 0 .. n /\ ~(m <= m - 1)
  BY <1>2
<1>4. m - 1 \in T
  BY <1>1, <1>3
<1>5. QED
  BY <1>2, <1>4

------------------------------------------------------------------

-----------------------------------------------------------------------------
(* Events, and the client that gets them *)

Events == [kind : {"output", "gap", "error"}, sequence : Nat]
          \cup [kind : {"completed"}, sequence : Nat, code : Codes]

Clients == [id : Nat, phase : {"over", "sent", "live", "again"}, cursor : Nat, gap : Nat,
            stream : Seq(Events), live : Nat, open : BOOLEAN, interrupted : BOOLEAN]

LEMMA EventFields ==
  ASSUME NEW e \in Events
  PROVE  /\ e.kind \in {"output", "gap", "error", "completed"} /\ e.sequence \in Nat
         /\ e.kind = "completed" => e.code \in Codes
         /\ HasSequence(e) <=> e.kind \in {"output", "completed"}
BY DEF Events, HasSequence

LEMMA EventTypes ==
  ASSUME NEW n \in Nat, NEW code \in Codes
  PROVE  /\ Output(n) \in Events /\ Gap(n) \in Events /\ Error \in Events
         /\ Completed(n, code) \in Events
         /\ Output(n).kind = "output" /\ Output(n).sequence = n
         /\ Gap(n).kind = "gap" /\ Gap(n).sequence = n
         /\ Error.kind = "error"
         /\ Completed(n, code).kind = "completed" /\ Completed(n, code).sequence = n
         /\ Completed(n, code).code = code
BY DEF Output, Gap, Error, Completed, Events

LEMMA ClientFields ==
  ASSUME NEW c \in Clients
  PROVE  /\ c.id \in Nat /\ c.phase \in {"over", "sent", "live", "again"} /\ c.cursor \in Nat
         /\ c.gap \in Nat /\ c.stream \in Seq(Events) /\ c.live \in Nat /\ c.open \in BOOLEAN
         /\ c.interrupted \in BOOLEAN
BY DEF Clients

(* What a client gets, unless it is not listening or its queue is full. *)
Gets(new, c, event) ==
  /\ new \in Clients
  /\ new.id = c.id /\ new.phase = c.phase /\ new.cursor = c.cursor /\ new.gap = c.gap
  /\ \/ new.stream = c.stream /\ (new.open => c.open /\ c.phase # "live")
     \/ c.phase = "live" /\ c.open /\ new.stream = Append(c.stream, event) /\ new.open

LEMMA NotifiedGets ==
  ASSUME NEW c \in Clients, NEW event \in Events
  PROVE  Gets(Notified(c, event), c, event)
<1>1. CASE ~c.open \/ c.phase # "live"
  <2>1. Notified(c, event) = c
    BY <1>1 DEF Notified
  <2>2. QED
    BY <1>1, <2>1, ClientFields DEF Gets
<1>2. CASE c.open /\ c.phase = "live" /\ c.live >= QueueCapacity
  <2>1. Notified(c, event) = [c EXCEPT !.open = FALSE]
    BY <1>2 DEF Notified
  <2>2. QED
    BY <1>2, <2>1 DEF Gets, Clients
<1>3. CASE c.open /\ c.phase = "live" /\ ~(c.live >= QueueCapacity)
  <2>1. c.stream \in Seq(Events) /\ c.live \in Nat
    BY ClientFields
  <2> DEFINE s == Append(c.stream, event)
             l == c.live + 1
  <2>2. s \in Seq(Events) /\ l \in Nat
    BY <2>1
  <2>3. Notified(c, event) = [c EXCEPT !.stream = s, !.live = l]
    BY <1>3 DEF Notified
  <2> HIDE DEF s, l
  <2>4. /\ Notified(c, event) \in Clients /\ Notified(c, event).stream = s
        /\ Notified(c, event).id = c.id /\ Notified(c, event).phase = c.phase
        /\ Notified(c, event).cursor = c.cursor /\ Notified(c, event).gap = c.gap
        /\ Notified(c, event).open = c.open
    BY <2>2, <2>3 DEF Clients
  <2>5. QED
    BY <1>3, <2>4 DEF Gets, s
<1>4. QED
  BY <1>1, <1>2, <1>3 DEF Clients

LEMMA ClosedClient ==
  ASSUME NEW c \in Clients
  PROVE  /\ Closed(c) \in Clients /\ ~Closed(c).open
         /\ Closed(c).id = c.id /\ Closed(c).phase = c.phase /\ Closed(c).cursor = c.cursor
         /\ Closed(c).gap = c.gap /\ Closed(c).stream = c.stream
BY DEF Closed, Clients

LEMMA AnsweredClient ==
  ASSUME client \in Clients, NEW events \in Seq(Events), NEW open \in BOOLEAN
  PROVE  /\ Answered(events, open) \in Clients /\ Answered(events, open).phase = "live"
         /\ Answered(events, open).stream = events /\ Answered(events, open).open = open
         /\ Answered(events, open).id = client.id /\ Answered(events, open).cursor = client.cursor
         /\ Answered(events, open).gap = client.gap
BY DEF Answered, Clients

-----------------------------------------------------------------------------
(* What is replayed *)

IsKept(event, after) == ~(HasSequence(event) /\ event.sequence <= after)

\* f is the run of Replayed over the first n events.
IsFilter(f, events, after, n) ==
  f = [k \in 0 .. n |-> IF k = 0 THEN <<>>
                        ELSE IF HasSequence(events[k]) /\ events[k].sequence <= after THEN f[k - 1]
                        ELSE Append(f[k - 1], events[k])]

LEMMA FilterExists ==
  ASSUME NEW events, NEW after, NEW n \in Nat
  PROVE  \E f : IsFilter(f, events, after, n)
<1> DEFINE T == {k \in Nat : \E f : IsFilter(f, events, after, k)}
           next(s, k) == IF HasSequence(events[k]) /\ events[k].sequence <= after THEN s
                         ELSE Append(s, events[k])
<1>1. 0 \in T
  <2>1. IsFilter([k \in 0 .. 0 |-> <<>>], events, after, 0)
    BY DEF IsFilter
  <2>2. QED
    BY <2>1
<1>2. ASSUME NEW m \in 1 .. n, m - 1 \in T PROVE m \in T
  <2>1. PICK f : IsFilter(f, events, after, m - 1)
    BY <1>2
  <2>2. \A k \in 0 .. m - 1 : f[k] = IF k = 0 THEN <<>> ELSE next(f[k - 1], k)
    BY <2>1 DEF IsFilter
  <2> HIDE DEF next
  <2> DEFINE g == [k \in 0 .. m |-> IF k = m THEN next(f[m - 1], m) ELSE f[k]]
  <2>3. /\ g = [k \in 0 .. m |-> g[k]]
        /\ g[m] = next(f[m - 1], m)
        /\ \A k \in 0 .. m - 1 : g[k] = f[k]
    OBVIOUS
  <2> HIDE DEF g
  <2>4. ASSUME NEW k \in 0 .. m
        PROVE  g[k] = IF k = 0 THEN <<>> ELSE next(g[k - 1], k)
    <3>1. CASE k = m
      <4>1. m - 1 \in 0 .. m - 1 /\ m # 0
        OBVIOUS
      <4>2. QED
        BY <2>3, <3>1, <4>1
    <3>2. CASE k # m
      <4>1. k \in 0 .. m - 1 /\ (k # 0 => k - 1 \in 0 .. m - 1)
        BY <3>2
      <4>2. QED
        BY <2>2, <2>3, <4>1
    <3>3. QED
      BY <3>1, <3>2
  <2>5. g = [k \in 0 .. m |-> IF k = 0 THEN <<>> ELSE next(g[k - 1], k)]
    BY <2>3, <2>4
  <2>6. IsFilter(g, events, after, m)
    BY <2>5 DEF IsFilter, next
  <2>7. QED
    BY <2>6
<1> HIDE DEF T
<1>3. \A k \in 0 .. n : k \in T
  BY <1>1, <1>2, CountUp
<1>4. n \in T
  BY <1>3
<1>5. QED
  BY <1>4 DEF T

(* What is kept of the first n events, and in which order. *)
Keeps(kept, events, after, n) ==
  /\ kept \in Seq(Events)
  /\ \A i \in 1 .. Len(kept) : \E k \in 1 .. n :
       /\ kept[i] = events[k] /\ IsKept(events[k], after)
       /\ \A j \in 1 .. k - 1 : IsKept(events[j], after) => \E h \in 1 .. i - 1 : kept[h] = events[j]
  /\ \A k \in 1 .. n : IsKept(events[k], after) => \E i \in 1 .. Len(kept) : kept[i] = events[k]

LEMMA KeepsOneMore ==
  ASSUME NEW events \in Seq(Events), NEW after, NEW n \in 1 .. Len(events),
         NEW kept, Keeps(kept, events, after, n - 1)
  PROVE  /\ ~IsKept(events[n], after) => Keeps(kept, events, after, n)
         /\ IsKept(events[n], after) => Keeps(Append(kept, events[n]), events, after, n)
<1>1. kept \in Seq(Events) /\ events[n] \in Events
  BY DEF Keeps
<1>2. ASSUME ~IsKept(events[n], after) PROVE Keeps(kept, events, after, n)
  <2>1. \A k \in 1 .. n : k = n \/ k \in 1 .. n - 1
    OBVIOUS
  <2>2. \A k \in 1 .. n - 1 : k \in 1 .. n
    OBVIOUS
  <2>3. QED
    BY <1>2, <2>1, <2>2 DEF Keeps
<1>3. ASSUME IsKept(events[n], after) PROVE Keeps(Append(kept, events[n]), events, after, n)
  <2> DEFINE new == Append(kept, events[n])
  <2>1. /\ new \in Seq(Events) /\ Len(new) = Len(kept) + 1 /\ new[Len(kept) + 1] = events[n]
        /\ \A i \in 1 .. Len(kept) : new[i] = kept[i]
        /\ Len(kept) \in Nat
    BY <1>1
  <2> HIDE DEF new
  <2>2. ASSUME NEW i \in 1 .. Len(new)
        PROVE  \E k \in 1 .. n :
                 /\ new[i] = events[k] /\ IsKept(events[k], after)
                 /\ \A j \in 1 .. k - 1 : IsKept(events[j], after) => \E h \in 1 .. i - 1 : new[h] = events[j]
    <3>1. CASE i = Len(kept) + 1
      <4>1. new[i] = events[n]
        BY <2>1, <3>1
      <4>2. ASSUME NEW j \in 1 .. n - 1, IsKept(events[j], after)
            PROVE  \E h \in 1 .. i - 1 : new[h] = events[j]
        <5>1. PICK h \in 1 .. Len(kept) : kept[h] = events[j]
          BY <4>2 DEF Keeps
        <5>2. h \in 1 .. i - 1 /\ new[h] = events[j]
          BY <2>1, <3>1, <5>1
        <5>3. QED
          BY <5>2
      <4>3. n \in 1 .. n
        OBVIOUS
      <4>4. QED
        BY <1>3, <4>1, <4>2, <4>3
    <3>2. CASE i # Len(kept) + 1
      <4>1. i \in 1 .. Len(kept)
        BY <2>1, <3>2
      <4>2. PICK k \in 1 .. n - 1 :
              /\ kept[i] = events[k] /\ IsKept(events[k], after)
              /\ \A j \in 1 .. k - 1 : IsKept(events[j], after) => \E h \in 1 .. i - 1 : kept[h] = events[j]
        BY <4>1 DEF Keeps
      <4>3. \A h \in 1 .. i - 1 : new[h] = kept[h]
        BY <2>1, <4>1
      <4>4. new[i] = kept[i] /\ k \in 1 .. n
        BY <2>1, <4>1
      <4>5. QED
        BY <4>2, <4>3, <4>4
    <3>3. QED
      BY <3>1, <3>2
  <2>3. ASSUME NEW k \in 1 .. n, IsKept(events[k], after)
        PROVE  \E i \in 1 .. Len(new) : new[i] = events[k]
    <3>1. CASE k = n
      <4>1. Len(kept) + 1 \in 1 .. Len(new)
        BY <2>1
      <4>2. QED
        BY <2>1, <3>1, <4>1
    <3>2. CASE k # n
      <4>1. k \in 1 .. n - 1
        BY <3>2
      <4>2. PICK i \in 1 .. Len(kept) : kept[i] = events[k]
        BY <2>3, <4>1 DEF Keeps
      <4>3. i \in 1 .. Len(new) /\ new[i] = events[k]
        BY <2>1, <4>2
      <4>4. QED
        BY <4>3
    <3>3. QED
      BY <3>1, <3>2
  <2>4. QED
    BY <2>1, <2>2, <2>3 DEF Keeps, new
<1>4. QED
  BY <1>2, <1>3

(***************************************************************************)
(* What is replayed after a sequence are the events that are kept, all of  *)
(* them, and in their order.                                               *)
(***************************************************************************)
LEMMA ReplayedKeeps ==
  ASSUME NEW events \in Seq(Events), NEW after
  PROVE  Keeps(Replayed(events, after), events, after, Len(events))
<1> DEFINE f == CHOOSE g : IsFilter(g, events, after, Len(events))
           T == {k \in 0 .. Len(events) : Keeps(f[k], events, after, k)}
<1>1. Len(events) \in Nat
  OBVIOUS
<1>2. IsFilter(f, events, after, Len(events))
  BY <1>1, FilterExists
<1>3. Replayed(events, after) = f[Len(events)]
  BY DEF Replayed, IsFilter
<1> HIDE DEF f
<1>4. \A k \in 0 .. Len(events) :
        f[k] = IF k = 0 THEN <<>>
               ELSE IF HasSequence(events[k]) /\ events[k].sequence <= after THEN f[k - 1]
               ELSE Append(f[k - 1], events[k])
  BY <1>2 DEF IsFilter
<1>5. 0 \in T
  <2>1. f[0] = <<>>
    BY <1>1, <1>4
  <2>2. <<>> \in Seq(Events) /\ Len(<<>>) = 0
    OBVIOUS
  <2>3. Keeps(<<>>, events, after, 0)
    BY <2>2 DEF Keeps
  <2>4. QED
    BY <1>1, <2>1, <2>3
<1>6. ASSUME NEW k \in 1 .. Len(events), k - 1 \in T PROVE k \in T
  <2>1. Keeps(f[k - 1], events, after, k - 1)
    BY <1>6
  <2>2. f[k] = IF IsKept(events[k], after) THEN Append(f[k - 1], events[k]) ELSE f[k - 1]
    <3>1. k \in 0 .. Len(events) /\ k # 0
      BY <1>1
    <3>2. QED
      BY <1>4, <3>1 DEF IsKept
  <2>3. Keeps(f[k], events, after, k)
    BY <2>1, <2>2, KeepsOneMore
  <2>4. k \in 0 .. Len(events)
    BY <1>1
  <2>5. QED
    BY <2>3, <2>4
<1> HIDE DEF T
<1>7. \A k \in 0 .. Len(events) : k \in T
  BY <1>1, <1>5, <1>6, CountUp
<1>8. Len(events) \in T
  BY <1>1, <1>7
<1>9. QED
  BY <1>3, <1>8 DEF T

-----------------------------------------------------------------------------
(* The spool *)

(***************************************************************************)
(* The first m events are the last m lines of output, up to the n-th; what *)
(* follows are errors and ends, and an end comes after the output or is    *)
(* that of a worker which has counted none.                                *)
(***************************************************************************)
SpoolHolds(events, m, n) ==
  /\ m \in 0 .. Len(events) /\ m <= n /\ m <= SpoolCapacity /\ (n > 0 => m > 0)
  /\ \A k \in 1 .. m : events[k] = Output(n - m + k)
  /\ \A k \in m + 1 .. Len(events) :
       /\ events[k].kind \in {"error", "completed"}
       /\ events[k].kind = "completed" => events[k].sequence \in {1, n + 1}

LEMMA SpoolParts ==
  ASSUME NEW events \in Seq(Events), NEW m \in Nat, NEW n \in Nat, SpoolHolds(events, m, n)
  PROVE  /\ Outputs(events) = 1 .. m /\ Cardinality(Outputs(events)) = m
         /\ \A k \in 1 .. m : events[k].kind = "output" /\ events[k].sequence = n - m + k
                              /\ HasSequence(events[k])
         /\ \A k \in 1 .. Len(events) : events[k].kind # "gap"
<1>1. m <= Len(events) /\ m <= n /\ Len(events) \in Nat /\ DOMAIN events = 1 .. Len(events)
  BY DEF SpoolHolds
<1>2. ASSUME NEW k \in 1 .. m
      PROVE  /\ events[k].kind = "output" /\ events[k].sequence = n - m + k
             /\ HasSequence(events[k])
  <2>1. events[k] = Output(n - m + k)
    BY DEF SpoolHolds
  <2>2. QED
    BY <2>1 DEF Output, HasSequence
<1>3. ASSUME NEW k \in m + 1 .. Len(events) PROVE events[k].kind \in {"error", "completed"}
  BY DEF SpoolHolds
<1>4. \A k \in 1 .. Len(events) : k \in 1 .. m \/ k \in m + 1 .. Len(events)
  BY <1>1
<1>5. Outputs(events) = 1 .. m
  BY <1>1, <1>2, <1>3, <1>4 DEF Outputs
<1>6. Cardinality(1 .. m) = m
  BY FS_Interval
<1>7. QED
  BY <1>2, <1>3, <1>4, <1>5, <1>6

LEMMA MinOfInterval ==
  ASSUME NEW m \in Nat, m > 0
  PROVE  Min(1 .. m) = 1
<1>1. 1 \in 1 .. m /\ \A y \in 1 .. m : 1 <= y
  OBVIOUS
<1>2. Min(1 .. m) \in 1 .. m /\ \A y \in 1 .. m : Min(1 .. m) <= y
  BY <1>1 DEF Min
<1>3. QED
  BY <1>1, <1>2

(* Appending output drops the oldest, if there is too much. *)
LEMMA OutputAppended ==
  ASSUME NEW events \in Seq(Events), NEW n \in Nat, SpoolHolds(events, Len(events), n)
  PROVE  LET new == Appended(events, Output(n + 1)) IN
         new \in Seq(Events) /\ SpoolHolds(new, Len(new), n + 1)
<1> DEFINE longer == Append(events, Output(n + 1))
           m == Len(events)
<1>1. /\ Output(n + 1) \in Events /\ m \in Nat /\ m <= n /\ m <= SpoolCapacity
      /\ SpoolCapacity \in Nat \ {0}
  <2>1. n + 1 \in Nat /\ "none" \in Codes
    BY DEF Codes
  <2>2. Output(n + 1) \in Events
    BY <2>1, EventTypes
  <2>3. QED
    BY <2>2, WorkerAssumption DEF SpoolHolds
<1>2. /\ longer \in Seq(Events) /\ Len(longer) = m + 1 /\ longer[m + 1] = Output(n + 1)
      /\ \A k \in 1 .. m : longer[k] = events[k]
  BY <1>1
<1>3. \A k \in 1 .. m : events[k] = Output(n - m + k)
  BY DEF SpoolHolds
<1> HIDE DEF longer, m
<1>4. \A k \in 1 .. m + 1 : longer[k] = Output((n + 1) - (m + 1) + k)
  <2> SUFFICES ASSUME NEW k \in 1 .. m + 1 PROVE longer[k] = Output((n + 1) - (m + 1) + k)
    OBVIOUS
  <2>1. (n + 1) - (m + 1) + k = n - m + k
    BY <1>1
  <2>2. CASE k \in 1 .. m
    BY <1>2, <1>3, <2>1, <2>2
  <2>3. CASE k = m + 1
    <3>1. n - m + k = n + 1
      BY <1>1, <2>3
    <3>2. QED
      BY <1>2, <2>1, <2>3, <3>1
  <2>4. QED
    BY <1>1, <2>2, <2>3
<1>5. Outputs(longer) = 1 .. m + 1 /\ Cardinality(Outputs(longer)) = m + 1
  <2>1. \A k \in 1 .. m + 1 : longer[k].kind = "output"
    <3>1. \A x : Output(x).kind = "output"
      BY DEF Output
    <3>2. QED
      BY <1>4, <3>1, Zenon
  <2>2. DOMAIN longer = 1 .. m + 1
    BY <1>1, <1>2
  <2>3. Outputs(longer) = 1 .. m + 1
    BY <2>1, <2>2 DEF Outputs
  <2>4. Cardinality(1 .. m + 1) = m + 1
    BY <1>1, FS_Interval
  <2>5. QED
    BY <2>3, <2>4
<1>6. CASE m + 1 <= SpoolCapacity
  <2>1. Appended(events, Output(n + 1)) = longer
    BY <1>5, <1>6 DEF Appended, Pruned, longer
  <2>2. SpoolHolds(longer, m + 1, n + 1)
    <3>1. m + 1 \in 0 .. m + 1 /\ m + 1 <= n + 1 /\ m + 1 > 0 /\ (m + 1) + 1 .. m + 1 = {}
      BY <1>1
    <3>2. QED
      BY <1>2, <1>4, <1>6, <3>1 DEF SpoolHolds
  <2>3. QED
    BY <1>2, <2>1, <2>2
<1>7. CASE ~(m + 1 <= SpoolCapacity)
  <2> DEFINE front == SubSeq(longer, 1, 1 - 1)
             rest == SubSeq(longer, 1 + 1, Len(longer))
  <2>1. Appended(events, Output(n + 1)) = front \o rest
    <3>1. Min(Outputs(longer)) = 1
      BY <1>1, <1>5, MinOfInterval
    <3>2. QED
      BY <1>5, <1>7, <3>1 DEF Appended, Pruned, RemoveAt, longer
  <2>2. front = <<>>
    BY SubSeqEmpty
  <2>3. /\ rest \in Seq(Events) /\ Len(rest) = m
        /\ \A k \in 1 .. m : rest[k] = longer[k + 1]
    <3>1. \A k \in 2 .. Len(longer) : longer[k] \in Events
      BY <1>1, <1>2
    <3>2. rest = SubSeq(longer, 2, m + 1)
      BY <1>2
    <3>3. /\ rest \in Seq(Events)
          /\ Len(rest) = IF 2 <= m + 1 THEN (m + 1) - 2 + 1 ELSE 0
          /\ \A k \in 1 .. (m + 1) - 2 + 1 : rest[k] = longer[2 + k - 1]
      <4> HIDE DEF rest
      <4>1. 2 \in Int /\ m + 1 \in Int /\ \A k \in 2 .. m + 1 : longer[k] \in Events
        BY <1>1, <1>2, <3>1
      <4>2. QED
        BY <3>2, <4>1, SubSeqProperties
    <3> HIDE DEF rest
    <3>4. (m + 1) - 2 + 1 = m /\ \A k \in 1 .. m : 2 + k - 1 = k + 1
      BY <1>1
    <3>5. QED
      BY <1>1, <1>7, <3>3, <3>4
  <2> HIDE DEF front, rest
  <2>4. front \o rest = rest
    BY <2>2, <2>3, ConcatEmptySeq
  <2>5. m \in 0 .. m /\ m <= n + 1 /\ m > 0 /\ m + 1 .. m = {}
    BY <1>1, <1>7
  <2>6. \A k \in 1 .. m : rest[k] = Output((n + 1) - m + k)
    <3> SUFFICES ASSUME NEW k \in 1 .. m PROVE rest[k] = Output((n + 1) - m + k)
      OBVIOUS
    <3>1. k + 1 \in 1 .. m + 1 /\ (n + 1) - (m + 1) + (k + 1) = (n + 1) - m + k
      BY <1>1
    <3>2. QED
      BY <1>4, <2>3, <3>1
  <2>7. SpoolHolds(rest, m, n + 1)
    BY <1>1, <2>3, <2>5, <2>6 DEF SpoolHolds
  <2>8. QED
    BY <2>1, <2>3, <2>4, <2>7
<1>8. QED
  BY <1>6, <1>7

(* Appending anything else drops nothing. *)
LEMMA OtherAppended ==
  ASSUME NEW events \in Seq(Events), NEW m \in Nat, NEW n \in Nat, SpoolHolds(events, m, n),
         NEW event \in Events, event.kind \in {"error", "completed"},
         event.kind = "completed" => event.sequence \in {1, n + 1}
  PROVE  /\ Appended(events, event) = Append(events, event)
         /\ Append(events, event) \in Seq(Events)
         /\ SpoolHolds(Append(events, event), m, n)
<1> DEFINE longer == Append(events, event)
<1>1. m <= Len(events) /\ m <= SpoolCapacity /\ Len(events) \in Nat
  BY DEF SpoolHolds
<1>2. /\ longer \in Seq(Events) /\ Len(longer) = Len(events) + 1
      /\ longer[Len(events) + 1] = event
      /\ \A k \in 1 .. Len(events) : longer[k] = events[k]
  OBVIOUS
<1> HIDE DEF longer
<1>3. SpoolHolds(longer, m, n)
  <2>1. \A k \in 1 .. m : longer[k] = events[k]
    BY <1>1, <1>2
  <2>2. \A k \in m + 1 .. Len(longer) : k = Len(events) + 1 \/ (k \in m + 1 .. Len(events) /\ longer[k] = events[k])
    BY <1>1, <1>2
  <2>3. m \in 0 .. Len(longer)
    BY <1>1, <1>2
  <2>4. QED
    BY <1>2, <2>1, <2>2, <2>3 DEF SpoolHolds
<1>4. Cardinality(Outputs(longer)) = m
  BY <1>2, <1>3, SpoolParts
<1>5. QED
  BY <1>1, <1>2, <1>3, <1>4 DEF Appended, Pruned, longer

LEMMA EmptySpool ==
  SpoolHolds(<<>>, Len(<<>>), 0) /\ <<>> \in Seq(Events)
<1>1. SpoolCapacity \in Nat /\ Len(<<>>) = 0 /\ <<>> \in Seq(Events)
  BY WorkerAssumption
<1>2. QED
  BY <1>1 DEF SpoolHolds

-----------------------------------------------------------------------------
(* The stream *)

\* What the client takes to be the first event after a gap.
Announced(stream, gap) ==
  IF stream # <<>> /\ stream[1].kind = "gap" THEN stream[1].sequence ELSE gap

\* Output before the k-th event is the one before the n-th of the command.
Reached(stream, k, n) ==
  \E j \in 1 .. k - 1 : stream[j].kind = "output" /\ stream[j].sequence + 1 = n

(***************************************************************************)
(* When the client comes to the k-th event of the stream, it has read what *)
(* precedes the n-th of the command, or was told that it would not.        *)
(***************************************************************************)
Follows(stream, cursor, gap, k, n) ==
  n <= cursor + 1 \/ n = Announced(stream, gap) \/ Reached(stream, k, n)

Unbroken(stream, cursor, gap) ==
  \A k \in 1 .. Len(stream) :
    /\ HasSequence(stream[k]) => Follows(stream, cursor, gap, k, stream[k].sequence)
    /\ stream[k].kind = "gap" => k = 1 /\ gap = 0

(* The predecessor of what is kept is kept, or is not asked for, or gone.  *)
LEMMA KeptFollows ==
  ASSUME NEW events \in Seq(Events), NEW m \in Nat, NEW n \in Nat, SpoolHolds(events, m, n),
         NEW after \in Nat, NEW kept, Keeps(kept, events, after, Len(events)),
         NEW i \in 1 .. Len(kept), HasSequence(kept[i])
  PROVE  \/ kept[i].sequence <= after + 1
         \/ m > 0 /\ kept[i].sequence = n - m + 1
         \/ Reached(kept, i, kept[i].sequence)
<1>1. PICK k \in 1 .. Len(events) :
        /\ kept[i] = events[k]
        /\ \A j \in 1 .. k - 1 : IsKept(events[j], after) => \E h \in 1 .. i - 1 : kept[h] = events[j]
  BY DEF Keeps
<1>2. m <= Len(events) /\ m <= n /\ (n > 0 => m > 0) /\ Len(events) \in Nat
  BY DEF SpoolHolds
<1>3. \A j \in 1 .. m : events[j].kind = "output" /\ events[j].sequence = n - m + j /\ HasSequence(events[j])
  BY SpoolParts
<1>4. ASSUME NEW j \in 1 .. m, j < k, kept[i].sequence = n - m + j + 1
      PROVE  kept[i].sequence <= after + 1 \/ Reached(kept, i, kept[i].sequence)
  <2>1. CASE IsKept(events[j], after)
    <3>1. PICK h \in 1 .. i - 1 : kept[h] = events[j]
      BY <1>1, <1>2, <1>4, <2>1
    <3>2. kept[h].kind = "output" /\ kept[h].sequence + 1 = kept[i].sequence
      BY <1>2, <1>3, <1>4, <3>1
    <3>3. QED
      BY <3>1, <3>2 DEF Reached
  <2>2. CASE ~IsKept(events[j], after)
    <3>1. n - m + j <= after
      BY <1>3, <2>2 DEF IsKept
    <3>2. QED
      BY <1>2, <1>4, <3>1
  <2>3. QED
    BY <2>1, <2>2
<1>5. CASE k \in 1 .. m
  <2>1. kept[i].sequence = n - m + k
    BY <1>1, <1>3, <1>5
  <2>2. CASE k = 1
    BY <1>2, <1>5, <2>1, <2>2
  <2>3. CASE k # 1
    <3>1. k - 1 \in 1 .. m /\ k - 1 < k /\ n - m + (k - 1) + 1 = n - m + k
      BY <1>2, <1>5, <2>3
    <3>2. QED
      BY <1>4, <2>1, <3>1
  <2>4. QED
    BY <2>2, <2>3
<1>6. CASE k \notin 1 .. m
  <2>1. k \in m + 1 .. Len(events)
    BY <1>2, <1>6
  <2>2. kept[i].kind \in {"error", "completed"} /\ (kept[i].kind = "completed" => kept[i].sequence \in {1, n + 1})
    BY <1>1, <2>1 DEF SpoolHolds
  <2>3. kept[i].kind = "completed"
    BY <2>2 DEF HasSequence
  <2>4. CASE kept[i].sequence = 1
    BY <2>4
  <2>5. CASE kept[i].sequence = n + 1 /\ n > 0
    <3>1. m \in 1 .. m /\ m < k /\ n + 1 = n - m + m + 1
      BY <1>2, <2>1, <2>5
    <3>2. QED
      BY <1>4, <2>5, <3>1
  <2>6. CASE n = 0 /\ kept[i].sequence = n + 1
    BY <2>6
  <2>7. QED
    BY <2>2, <2>3, <2>4, <2>5, <2>6
<1>7. QED
  BY <1>5, <1>6

(* Where the first event of the spool with a sequence is. *)
LEMMA FirstSequenced ==
  ASSUME NEW events \in Seq(Events), NEW m \in Nat, NEW n \in Nat, SpoolHolds(events, m, n),
         Sequenced(events) # {}
  PROVE  LET first == events[Min(Sequenced(events))].sequence IN
         IF m > 0 THEN first = n - m + 1 ELSE first = 1
<1>1. m <= Len(events) /\ m <= n /\ (n > 0 => m > 0) /\ Len(events) \in Nat /\ DOMAIN events = 1 .. Len(events)
  BY DEF SpoolHolds
<1>2. CASE m > 0
  <2>1. 1 \in 1 .. m /\ 1 \in DOMAIN events
    BY <1>1, <1>2
  <2>2. HasSequence(events[1]) /\ events[1].sequence = n - m + 1
    BY <2>1, SpoolParts
  <2>3. 1 \in Sequenced(events) /\ \A k \in Sequenced(events) : k \in Int /\ 1 <= k
    BY <1>1, <2>1, <2>2 DEF Sequenced
  <2>4. Min(Sequenced(events)) \in Sequenced(events) /\ Min(Sequenced(events)) <= 1
    BY <2>3 DEF Min
  <2>5. Min(Sequenced(events)) = 1
    BY <2>3, <2>4
  <2>6. QED
    BY <1>2, <2>2, <2>5
<1>3. CASE ~(m > 0)
  <2>1. m = 0 /\ n = 0
    BY <1>1, <1>3
  <2>2. Sequenced(events) \subseteq Nat
    BY <1>1 DEF Sequenced
  <2>3. Min(Sequenced(events)) \in Sequenced(events)
    <3>1. \E x \in Sequenced(events) : \A y \in Sequenced(events) : x <= y
      BY <2>2, LeastNumber
    <3>2. QED
      BY <3>1 DEF Min
  <2>4. ASSUME NEW k \in Sequenced(events) PROVE events[k].sequence = 1
    <3>1. k \in m + 1 .. Len(events) /\ HasSequence(events[k])
      BY <1>1, <2>1, <2>4 DEF Sequenced
    <3>2. events[k].kind \in {"error", "completed"} /\ (events[k].kind = "completed" => events[k].sequence \in {1, n + 1})
      BY <3>1 DEF SpoolHolds
    <3>3. QED
      BY <2>1, <3>1, <3>2 DEF HasSequence
  <2>5. QED
    BY <1>3, <2>3, <2>4
<1>4. QED
  BY <1>2, <1>3

(* A gap, if any, and then what is kept. *)
LEMMA ReplayParts ==
  ASSUME NEW events \in Seq(Events), NEW m \in Nat, NEW n \in Nat, SpoolHolds(events, m, n),
         NEW after \in Nat
  PROVE  LET kept == Replayed(events, after)
             first == events[Min(Sequenced(events))].sequence IN
         \/ /\ Replay(events, after) = kept
            /\ m > 0 => n - m + 1 <= after + 1
         \/ /\ Replay(events, after) = <<Gap(first)>> \o kept
            /\ m > 0 /\ first = n - m + 1 /\ first \in Nat
<1> DEFINE kept == Replayed(events, after)
           first == events[Min(Sequenced(events))].sequence
<1>1. m <= n /\ (m > 0 => Sequenced(events) # {})
  <2>1. m <= n /\ m <= Len(events) /\ Len(events) \in Nat /\ DOMAIN events = 1 .. Len(events)
    BY DEF SpoolHolds
  <2>2. ASSUME m > 0 PROVE Sequenced(events) # {}
    <3>1. 1 \in 1 .. m /\ 1 \in DOMAIN events
      BY <2>1, <2>2
    <3>2. HasSequence(events[1])
      BY <3>1, SpoolParts
    <3>3. QED
      BY <3>1, <3>2 DEF Sequenced
  <2>3. QED
    BY <2>1, <2>2
<1>2. Sequenced(events) # {} => IF m > 0 THEN first = n - m + 1 ELSE first = 1
  BY FirstSequenced
<1>3. Replay(events, after) = IF Sequenced(events) # {} /\ after + 1 < first
                                THEN <<Gap(first)>> \o kept ELSE kept
  BY DEF Replay
<1> HIDE DEF kept, first
<1>4. CASE Sequenced(events) # {} /\ after + 1 < first
  <2>1. m > 0 /\ first = n - m + 1 /\ first \in Nat
    BY <1>1, <1>2, <1>4
  <2>2. QED
    BY <1>3, <1>4, <2>1 DEF kept, first
<1>5. CASE ~(Sequenced(events) # {} /\ after + 1 < first)
  <2>1. m > 0 => n - m + 1 <= after + 1
    BY <1>1, <1>2, <1>5
  <2>2. QED
    BY <1>3, <1>5, <2>1 DEF kept
<1>6. QED
  BY <1>4, <1>5

(* A gap before a stream. *)
LEMMA GapBefore ==
  ASSUME NEW first \in Nat, NEW kept \in Seq(Events)
  PROVE  LET stream == <<Gap(first)>> \o kept IN
         /\ stream \in Seq(Events) /\ Len(stream) = Len(kept) + 1 /\ stream[1] = Gap(first)
         /\ \A i \in 1 .. Len(kept) : stream[i + 1] = kept[i]
         /\ stream # <<>>
<1>1. Gap(first) \in Events
  BY DEF Gap, Events
<1>2. <<Gap(first)>> \in Seq(Events) /\ Len(<<Gap(first)>>) = 1 /\ <<Gap(first)>>[1] = Gap(first)
  BY <1>1
<1> DEFINE one == <<Gap(first)>>
           stream == one \o kept
<1> HIDE DEF one
<1>3. one \in Seq(Events) /\ Len(one) = 1 /\ one[1] = Gap(first)
  BY <1>2 DEF one
<1>4. /\ stream \in Seq(Events) /\ Len(stream) = 1 + Len(kept)
      /\ \A i \in 1 .. 1 + Len(kept) : stream[i] = IF i <= 1 THEN one[i] ELSE kept[i - 1]
  <2>1. /\ stream \in Seq(Events) /\ Len(stream) = Len(one) + Len(kept)
        /\ \A i \in 1 .. Len(one) + Len(kept) :
             stream[i] = IF i <= Len(one) THEN one[i] ELSE kept[i - Len(one)]
    BY <1>3, ConcatProperties, Zenon
  <2>2. QED
    BY <1>3, <2>1
<1> HIDE DEF stream
<1>5. Len(kept) \in Nat
  OBVIOUS
<1>6. stream[1] = Gap(first)
  <2>1. 1 \in 1 .. 1 + Len(kept)
    BY <1>5
  <2>2. QED
    BY <1>3, <1>4, <2>1
<1>7. \A i \in 1 .. Len(kept) : stream[i + 1] = kept[i]
  <2> SUFFICES ASSUME NEW i \in 1 .. Len(kept) PROVE stream[i + 1] = kept[i]
    OBVIOUS
  <2>1. i + 1 \in 1 .. 1 + Len(kept) /\ ~(i + 1 <= 1) /\ (i + 1) - 1 = i
    BY <1>5
  <2>2. QED
    BY <1>4, <2>1
<1>8. stream # <<>>
  BY <1>4, <1>5
<1>9. QED
  BY <1>4, <1>5, <1>6, <1>7, <1>8 DEF stream, one

(***************************************************************************)
(* What is replayed to a client which was told of no gap follows on what   *)
(* it has, and so does what the command will write next.                   *)
(***************************************************************************)
LEMMA ReplayUnbroken ==
  ASSUME NEW events \in Seq(Events), NEW m \in Nat, NEW n \in Nat, SpoolHolds(events, m, n),
         NEW after \in Nat
  PROVE  LET stream == Replay(events, after) IN
         /\ stream \in Seq(Events)
         /\ Unbroken(stream, after, 0)
         /\ m = Len(events) => Follows(stream, after, 0, Len(stream) + 1, n + 1)
         /\ \A i \in 1 .. Len(stream) : stream[i].kind = "completed" =>
              \E k \in 1 .. Len(events) : stream[i] = events[k]
<1> DEFINE kept == Replayed(events, after)
           stream == Replay(events, after)
           first == events[Min(Sequenced(events))].sequence
<1>1. Keeps(kept, events, after, Len(events))
  BY ReplayedKeeps
<1>2. \/ stream = kept /\ (m > 0 => n - m + 1 <= after + 1)
      \/ stream = <<Gap(first)>> \o kept /\ m > 0 /\ first = n - m + 1 /\ first \in Nat
  BY ReplayParts
<1> HIDE DEF kept, stream, first
<1>3. /\ kept \in Seq(Events) /\ Len(kept) \in Nat
      /\ \A i \in 1 .. Len(kept) : \E k \in 1 .. Len(events) : kept[i] = events[k]
      /\ \A i \in 1 .. Len(kept) : kept[i].kind # "gap"
  <2>1. kept \in Seq(Events) /\ \A i \in 1 .. Len(kept) : \E k \in 1 .. Len(events) : kept[i] = events[k]
    BY <1>1 DEF Keeps
  <2>2. \A k \in 1 .. Len(events) : events[k].kind # "gap"
    BY SpoolParts
  <2>3. QED
    BY <2>1, <2>2
<1>4. \A i \in 1 .. Len(kept) : HasSequence(kept[i]) =>
        \/ kept[i].sequence <= after + 1
        \/ m > 0 /\ kept[i].sequence = n - m + 1
        \/ Reached(kept, i, kept[i].sequence)
  BY <1>1, KeptFollows
<1>5. m <= n /\ m <= Len(events) /\ (n > 0 => m > 0)
  BY DEF SpoolHolds
<1>6. ASSUME m = Len(events)
      PROVE  n + 1 <= after + 1 \/ Reached(kept, Len(kept) + 1, n + 1)
  <2>1. CASE m = 0
    BY <1>5, <2>1
  <2>2. CASE m > 0
    <3>1. m \in 1 .. Len(events) /\ m \in 1 .. m
      BY <1>6, <2>2
    <3>2. events[m].kind = "output" /\ events[m].sequence = n - m + m /\ HasSequence(events[m])
      BY <3>1, SpoolParts
    <3>3. CASE IsKept(events[m], after)
      <4>1. PICK i \in 1 .. Len(kept) : kept[i] = events[m]
        BY <1>1, <3>1, <3>3 DEF Keeps
      <4>2. i \in 1 .. (Len(kept) + 1) - 1 /\ kept[i].kind = "output" /\ kept[i].sequence + 1 = n + 1
        BY <1>3, <3>2, <4>1
      <4>3. QED
        BY <4>2 DEF Reached
    <3>4. CASE ~IsKept(events[m], after)
      <4>1. n <= after
        BY <3>2, <3>4 DEF IsKept
      <4>2. QED
        BY <4>1
    <3>5. QED
      BY <3>3, <3>4
  <2>3. QED
    BY <2>1, <2>2
<1>7. CASE stream = kept /\ (m > 0 => n - m + 1 <= after + 1)
  <2>1. Unbroken(kept, after, 0)
    BY <1>3, <1>4, <1>7 DEF Unbroken, Follows
  <2>2. m = Len(events) => Follows(kept, after, 0, Len(kept) + 1, n + 1)
    BY <1>6 DEF Follows
  <2>3. QED
    BY <1>3, <1>7, <2>1, <2>2 DEF stream
<1>8. CASE stream = <<Gap(first)>> \o kept /\ m > 0 /\ first = n - m + 1 /\ first \in Nat
  <2>1. /\ stream \in Seq(Events) /\ Len(stream) = Len(kept) + 1 /\ stream[1] = Gap(first)
        /\ \A i \in 1 .. Len(kept) : stream[i + 1] = kept[i]
        /\ stream # <<>>
    BY <1>3, <1>8, GapBefore
  <2>2. Gap(first).kind = "gap" /\ Gap(first).sequence = first /\ ~HasSequence(Gap(first))
    BY DEF Gap, HasSequence
  <2>3. Announced(stream, 0) = first
    BY <2>1, <2>2 DEF Announced
  <2>4. ASSUME NEW i \in 1 .. Len(kept) + 1, NEW q, Reached(kept, i, q)
        PROVE  Reached(stream, i + 1, q)
    <3>1. PICK j \in 1 .. i - 1 : kept[j].kind = "output" /\ kept[j].sequence + 1 = q
      BY <2>4 DEF Reached
    <3>2. j \in 1 .. Len(kept) /\ j + 1 \in 1 .. (i + 1) - 1
      BY <1>3
    <3>3. stream[j + 1] = kept[j]
      BY <2>1, <3>2
    <3>4. QED
      BY <3>1, <3>2, <3>3 DEF Reached
  <2>5. \A k \in 1 .. Len(stream) : k = 1 \/ (k - 1 \in 1 .. Len(kept) /\ (k - 1) + 1 = k)
    BY <1>3, <2>1
  <2>6. Unbroken(stream, after, 0)
    <3> SUFFICES ASSUME NEW k \in 1 .. Len(stream)
                 PROVE  /\ HasSequence(stream[k]) => Follows(stream, after, 0, k, stream[k].sequence)
                        /\ stream[k].kind = "gap" => k = 1
      BY DEF Unbroken
    <3>1. CASE k = 1
      BY <2>1, <2>2, <3>1
    <3>2. CASE k # 1
      <4>1. PICK i \in 1 .. Len(kept) : k = i + 1
        BY <2>5, <3>2
      <4>2. stream[k] = kept[i]
        BY <2>1, <4>1
      <4>3. i \in 1 .. Len(kept) + 1
        BY <1>3
      <4>4. ASSUME HasSequence(kept[i])
            PROVE  Follows(stream, after, 0, i + 1, kept[i].sequence)
        BY <1>4, <1>8, <2>3, <2>4, <4>3, <4>4 DEF Follows
      <4>5. QED
        BY <1>3, <4>1, <4>2, <4>4
    <3>3. QED
      BY <3>1, <3>2
  <2>7. m = Len(events) => Follows(stream, after, 0, Len(stream) + 1, n + 1)
    <3>1. Len(kept) + 1 \in 1 .. Len(kept) + 1 /\ Len(stream) + 1 = (Len(kept) + 1) + 1
      BY <1>3, <2>1
    <3>2. QED
      BY <1>6, <2>4, <3>1 DEF Follows
  <2>8. \A i \in 1 .. Len(stream) : stream[i].kind = "completed" =>
              \E k \in 1 .. Len(events) : stream[i] = events[k]
    <3> SUFFICES ASSUME NEW i \in 1 .. Len(stream), stream[i].kind = "completed"
                 PROVE  \E k \in 1 .. Len(events) : stream[i] = events[k]
      OBVIOUS
    <3>1. i # 1
      BY <2>1, <2>2
    <3>2. i - 1 \in 1 .. Len(kept) /\ stream[i] = kept[i - 1]
      BY <2>1, <2>5, <3>1
    <3>3. QED
      BY <1>3, <3>2
  <2>9. QED
    BY <2>1, <2>6, <2>7, <2>8 DEF stream
<1>9. QED
  BY <1>2, <1>7, <1>8

(* What a stream gets at its end leaves what it announces. *)
LEMMA AppendedFollows ==
  ASSUME NEW stream \in Seq(Events), NEW event \in Events, event.kind # "gap",
         NEW cursor \in Nat, NEW gap \in Nat
  PROVE  LET new == Append(stream, event) IN
         /\ new \in Seq(Events) /\ Len(new) = Len(stream) + 1 /\ new[Len(stream) + 1] = event
         /\ \A k \in 1 .. Len(stream) : new[k] = stream[k]
         /\ \A k \in 1 .. Len(stream) + 1 : \A q :
              Follows(stream, cursor, gap, k, q) =>
                Follows(new, cursor, gap, k, q) /\ Follows(new, cursor, gap, k + 1, q)
         /\ event.kind = "output" => Follows(new, cursor, gap, Len(new) + 1, event.sequence + 1)
<1> DEFINE new == Append(stream, event)
<1>1. /\ new \in Seq(Events) /\ Len(new) = Len(stream) + 1 /\ new[Len(stream) + 1] = event
      /\ \A k \in 1 .. Len(stream) : new[k] = stream[k]
      /\ Len(stream) \in Nat
  OBVIOUS
<1> HIDE DEF new
<1>2. Announced(new, gap) = Announced(stream, gap)
  <2>1. CASE stream = <<>>
    <3>1. Len(stream) = 0
      BY <2>1
    <3>2. new[1] = event
      BY <1>1, <3>1
    <3>3. QED
      BY <2>1, <3>2 DEF Announced
  <2>2. CASE stream # <<>>
    <3>1. 1 \in 1 .. Len(stream)
      BY <1>1, <2>2
    <3>2. new[1] = stream[1] /\ new # <<>>
      BY <1>1, <3>1
    <3>3. QED
      BY <2>2, <3>2 DEF Announced
  <2>3. QED
    BY <2>1, <2>2
<1>3. ASSUME NEW k \in 1 .. Len(stream) + 1, NEW q, Follows(stream, cursor, gap, k, q)
      PROVE  Follows(new, cursor, gap, k, q) /\ Follows(new, cursor, gap, k + 1, q)
  <2>1. ASSUME Reached(stream, k, q) PROVE Reached(new, k, q) /\ Reached(new, k + 1, q)
    <3>1. PICK j \in 1 .. k - 1 : stream[j].kind = "output" /\ stream[j].sequence + 1 = q
      BY <2>1 DEF Reached
    <3>2. new[j] = stream[j] /\ j \in 1 .. (k + 1) - 1
      BY <1>1
    <3>3. QED
      BY <3>1, <3>2 DEF Reached
  <2>2. QED
    BY <1>2, <1>3, <2>1 DEF Follows
<1>4. event.kind = "output" => Follows(new, cursor, gap, Len(new) + 1, event.sequence + 1)
  <2>1. Len(stream) + 1 \in 1 .. (Len(new) + 1) - 1
    BY <1>1
  <2>2. QED
    BY <1>1, <2>1 DEF Follows, Reached
<1>5. QED
  BY <1>1, <1>3, <1>4 DEF new

LEMMA AppendedUnbroken ==
  ASSUME NEW stream \in Seq(Events), NEW event \in Events, event.kind # "gap",
         NEW cursor \in Nat, NEW gap \in Nat, Unbroken(stream, cursor, gap),
         HasSequence(event) => Follows(stream, cursor, gap, Len(stream) + 1, event.sequence)
  PROVE  Unbroken(Append(stream, event), cursor, gap)
<1> DEFINE new == Append(stream, event)
<1>1. /\ Len(new) = Len(stream) + 1 /\ new[Len(stream) + 1] = event
      /\ \A k \in 1 .. Len(stream) : new[k] = stream[k]
      /\ \A k \in 1 .. Len(stream) + 1 : \A q :
           Follows(stream, cursor, gap, k, q) => Follows(new, cursor, gap, k, q)
  BY AppendedFollows
<1> HIDE DEF new
<1>2. \A k \in 1 .. Len(new) : k \in 1 .. Len(stream) \/ k = Len(stream) + 1
  BY <1>1
<1>3. \A k \in 1 .. Len(stream) : k \in 1 .. Len(stream) + 1
  OBVIOUS
<1>4. Len(stream) + 1 \in 1 .. Len(stream) + 1
  OBVIOUS
<1>5. Unbroken(new, cursor, gap)
  <2> SUFFICES ASSUME NEW k \in 1 .. Len(new)
               PROVE  /\ HasSequence(new[k]) => Follows(new, cursor, gap, k, new[k].sequence)
                      /\ new[k].kind = "gap" => k = 1 /\ gap = 0
    BY DEF Unbroken
  <2>1. CASE k \in 1 .. Len(stream)
    BY <1>1, <1>3, <2>1 DEF Unbroken
  <2>2. CASE k = Len(stream) + 1
    BY <1>1, <1>4, <2>2
  <2>3. QED
    BY <1>2, <2>1, <2>2
<1>6. QED
  BY <1>5 DEF new

(* The cursor and the gap after the first event of a stream. *)
Reads(stream, cursor, gap, cursor2, gap2) ==
  /\ cursor2 = IF stream[1].kind = "output" /\ stream[1].sequence > cursor THEN stream[1].sequence
               ELSE cursor
  /\ gap2 = IF stream[1].kind = "gap" THEN stream[1].sequence ELSE gap

LEMMA ReadFollows ==
  ASSUME NEW stream \in Seq(Events), stream # <<>>, NEW cursor \in Nat, NEW gap \in Nat,
         Unbroken(stream, cursor, gap), NEW cursor2, NEW gap2, Reads(stream, cursor, gap, cursor2, gap2)
  PROVE  LET rest == Tail(stream) IN
         /\ rest \in Seq(Events) /\ Len(rest) + 1 = Len(stream)
         /\ \A k \in 1 .. Len(rest) : rest[k] = stream[k + 1]
         /\ \A k \in 2 .. Len(stream) + 1 : \A q \in Nat :
              Follows(stream, cursor, gap, k, q) => Follows(rest, cursor2, gap2, k - 1, q)
         /\ Unbroken(rest, cursor2, gap2)
<1> DEFINE rest == Tail(stream)
<1>1. /\ rest \in Seq(Events) /\ Len(rest) + 1 = Len(stream) /\ Len(rest) \in Nat
      /\ \A k \in 1 .. Len(rest) : rest[k] = stream[k + 1]
  OBVIOUS
<1> HIDE DEF rest
<1>2. stream[1] \in Events /\ stream[1].sequence \in Nat
  <2>1. 1 \in 1 .. Len(stream)
    BY <1>1
  <2>2. stream[1] \in Events
    BY <2>1
  <2>3. QED
    BY <2>2, EventFields
<1>3. \A k \in 1 .. Len(rest) : rest[k].kind # "gap"
  <2> SUFFICES ASSUME NEW k \in 1 .. Len(rest), rest[k].kind = "gap" PROVE FALSE
    OBVIOUS
  <2>1. k + 1 \in 1 .. Len(stream) /\ k + 1 # 1 /\ stream[k + 1].kind = "gap"
    BY <1>1
  <2>2. QED
    BY <2>1 DEF Unbroken
<1>4. Announced(rest, gap2) = gap2
  <2>1. rest # <<>> => 1 \in 1 .. Len(rest)
    BY <1>1
  <2>2. QED
    BY <1>3, <2>1 DEF Announced
<1>5. Announced(stream, gap) = gap2
  BY DEF Announced, Reads
<1>6. ASSUME NEW k \in 2 .. Len(stream) + 1, NEW q \in Nat, Follows(stream, cursor, gap, k, q)
      PROVE  Follows(rest, cursor2, gap2, k - 1, q)
  <2>1. CASE q <= cursor + 1
    <3>1. cursor2 \in Nat /\ cursor <= cursor2
      BY <1>2 DEF Reads
    <3>2. QED
      BY <2>1, <3>1 DEF Follows
  <2>2. CASE q = Announced(stream, gap)
    BY <1>4, <1>5, <2>2 DEF Follows
  <2>3. CASE Reached(stream, k, q)
    <3>1. PICK j \in 1 .. k - 1 : stream[j].kind = "output" /\ stream[j].sequence + 1 = q
      BY <2>3 DEF Reached
    <3>2. CASE j = 1
      <4>1. q <= cursor2 + 1
        BY <1>2, <3>1, <3>2 DEF Reads
      <4>2. QED
        BY <4>1 DEF Follows
    <3>3. CASE j # 1
      <4>1. j - 1 \in 1 .. (k - 1) - 1 /\ j - 1 \in 1 .. Len(rest) /\ (j - 1) + 1 = j
        BY <1>1, <3>3
      <4>2. rest[j - 1] = stream[j]
        BY <1>1, <4>1
      <4>3. QED
        BY <3>1, <4>1, <4>2 DEF Follows, Reached
    <3>4. QED
      BY <3>2, <3>3
  <2>4. QED
    BY <1>6, <2>1, <2>2, <2>3 DEF Follows
<1>7. Unbroken(rest, cursor2, gap2)
  <2> SUFFICES ASSUME NEW k \in 1 .. Len(rest), HasSequence(rest[k])
               PROVE  Follows(rest, cursor2, gap2, k, rest[k].sequence)
    BY <1>3 DEF Unbroken
  <2>1. k + 1 \in 1 .. Len(stream) /\ k + 1 \in 2 .. Len(stream) + 1 /\ (k + 1) - 1 = k
    BY <1>1
  <2>2. rest[k] = stream[k + 1] /\ rest[k].sequence \in Nat
    BY <1>1, EventFields
  <2>3. Follows(stream, cursor, gap, k + 1, rest[k].sequence)
    BY <2>1, <2>2 DEF Unbroken
  <2>4. QED
    BY <1>6, <2>1, <2>2, <2>3
<1>8. QED
  BY <1>1, <1>6, <1>7 DEF rest

(* Nothing is skipped without notice. *)
LEMMA FirstIsNext ==
  ASSUME NEW stream \in Seq(Events), stream # <<>>, NEW cursor, NEW gap, Unbroken(stream, cursor, gap),
         HasSequence(stream[1])
  PROVE  stream[1].sequence <= cursor + 1 \/ stream[1].sequence = gap
<1>1. 1 \in 1 .. Len(stream)
  OBVIOUS
<1>2. Follows(stream, cursor, gap, 1, stream[1].sequence)
  BY <1>1 DEF Unbroken
<1>3. ~Reached(stream, 1, stream[1].sequence)
  BY DEF Reached
<1>4. Announced(stream, gap) = gap
  BY DEF Announced, HasSequence
<1>5. QED
  BY <1>2, <1>3, <1>4 DEF Follows

-----------------------------------------------------------------------------
(* The transcript *)

(***************************************************************************)
(* The stream of a client is unbroken; while a thread works for it, what   *)
(* the command writes next follows; a client that asks knows of no gap.    *)
(***************************************************************************)
InStep(c, works, next) ==
  /\ c.phase = "live" => Unbroken(c.stream, c.cursor, c.gap)
  /\ c.phase = "live" /\ c.open /\ works =>
       Follows(c.stream, c.cursor, c.gap, Len(c.stream) + 1, next)
  /\ c.phase \in {"sent", "again"} => c.gap = 0

Works == worker.thread # "none"

StreamInv == InStep(client, Works, worker.memory.sequence + 1) /\ missed = {}

SpoolInv ==
  /\ \E m, n \in Nat : SpoolHolds(spool, m, n)
  /\ Works => SpoolHolds(spool, Len(spool), worker.memory.sequence)
  /\ IsActive(disk) => disk.sequence = 0
  /\ worker.thread \in {"stored", "spawned"} => worker.memory.sequence = 0

EventTypesOK ==
  /\ client \in Clients
  /\ spool \in Seq(Events)
  /\ outcome \in [Commands -> Codes]

TranscriptInv == WorkerInv /\ EventTypesOK /\ SpoolInv /\ StreamInv

LEMMA IdleInStep ==
  ASSUME NEW c \in Clients, NEW works, NEW next, InStep(c, works, next)
  PROVE  /\ \A x : InStep(c, FALSE, x)
         /\ \A w, x : InStep(Closed(c), w, x)
<1>1. /\ ~Closed(c).open /\ Closed(c).phase = c.phase /\ Closed(c).cursor = c.cursor
      /\ Closed(c).gap = c.gap /\ Closed(c).stream = c.stream
  BY ClosedClient
<1>2. QED
  BY <1>1, Zenon DEF InStep

LEMMA GetsInStep ==
  ASSUME NEW c \in Clients, NEW event \in Events, NEW new, Gets(new, c, event),
         NEW works \in BOOLEAN, NEW next \in Nat, InStep(c, works, next)
  PROVE  /\ event.kind = "error" => InStep(new, works, next)
         /\ event.kind = "output" /\ event.sequence = next /\ works => InStep(new, TRUE, next + 1)
         /\ event.kind = "completed" /\ event.sequence = next /\ works => InStep(new, FALSE, next)
<1>1. /\ c.stream \in Seq(Events) /\ c.cursor \in Nat /\ c.gap \in Nat /\ Len(c.stream) \in Nat
  BY ClientFields, LenProperties
<1>2. /\ new.phase = c.phase /\ new.cursor = c.cursor /\ new.gap = c.gap
      /\ \/ new.stream = c.stream /\ (new.open => c.phase # "live")
         \/ c.phase = "live" /\ c.open /\ new.stream = Append(c.stream, event)
  BY DEF Gets
<1>3. CASE new.stream = c.stream /\ (new.open => c.phase # "live")
  BY <1>2, <1>3, Zenon DEF InStep
<1>4. CASE c.phase = "live" /\ c.open /\ new.stream = Append(c.stream, event)
  <2> DEFINE s == Append(c.stream, event)
  <2>1. HasSequence(event) <=> event.kind \in {"output", "completed"}
    BY EventFields
  <2>2. Unbroken(c.stream, c.cursor, c.gap)
    BY <1>4 DEF InStep
  <2>3. works => Follows(c.stream, c.cursor, c.gap, Len(c.stream) + 1, next)
    BY <1>4 DEF InStep
  <2>4. ASSUME event.kind = "error" PROVE InStep(new, works, next)
    <3>1. Unbroken(s, c.cursor, c.gap)
      BY <1>1, <2>1, <2>2, <2>4, AppendedUnbroken
    <3>2. works => Follows(s, c.cursor, c.gap, Len(s) + 1, next)
      <4>1. /\ Len(s) = Len(c.stream) + 1
            /\ \A k \in 1 .. Len(c.stream) + 1 : \A q :
                 Follows(c.stream, c.cursor, c.gap, k, q) => Follows(s, c.cursor, c.gap, k + 1, q)
        BY <1>1, <2>4, AppendedFollows
      <4>2. Len(c.stream) + 1 \in 1 .. Len(c.stream) + 1
        BY <1>1
      <4> HIDE DEF s
      <4>3. QED
        BY <2>3, <4>1, <4>2
    <3> HIDE DEF s
    <3>3. new.stream = s
      BY <1>4 DEF s
    <3>4. QED
      BY <1>2, <1>4, <3>1, <3>2, <3>3 DEF InStep
  <2>5. ASSUME event.kind \in {"output", "completed"}, event.sequence = next, works
        PROVE  Unbroken(s, c.cursor, c.gap)
    BY <1>1, <2>1, <2>2, <2>3, <2>5, AppendedUnbroken
  <2>6. ASSUME event.kind = "output", event.sequence = next, works
        PROVE  InStep(new, TRUE, next + 1)
    <3>1. Follows(s, c.cursor, c.gap, Len(s) + 1, next + 1)
      BY <1>1, <2>6, AppendedFollows
    <3>2. Unbroken(s, c.cursor, c.gap)
      BY <2>5, <2>6
    <3> HIDE DEF s
    <3>3. new.stream = s
      BY <1>4 DEF s
    <3>4. QED
      BY <1>2, <1>4, <3>1, <3>2, <3>3 DEF InStep
  <2>7. ASSUME event.kind = "completed", event.sequence = next, works
        PROVE  InStep(new, FALSE, next)
    <3>2. Unbroken(s, c.cursor, c.gap)
      BY <2>5, <2>7
    <3> HIDE DEF s
    <3>3. new.stream = s
      BY <1>4 DEF s
    <3>4. QED
      BY <1>2, <1>4, <3>2, <3>3 DEF InStep
  <2>8. QED
    BY <2>4, <2>6, <2>7
<1>5. QED
  BY <1>2, <1>3, <1>4

(* What may be without a thread: the worker is idle, or is told nothing. *)
ThreadRests ==
  /\ worker'.thread # "none" => Works /\ worker'.memory.sequence = worker.memory.sequence
  /\ worker'.thread \in {"stored", "spawned"} => worker.thread \in {"stored", "spawned"}

(* The client is as it was, and perhaps its stream has ended. *)
ClientRests == client' \in {client, Closed(client)} /\ UNCHANGED <<outcome, missed>>

LEMMA RestKeepsStream ==
  ASSUME EventTypesOK, StreamInv, ThreadRests, ClientRests
  PROVE  StreamInv' /\ client' \in Clients /\ outcome' \in [Commands -> Codes]
<1>1. client \in Clients /\ outcome \in [Commands -> Codes]
  BY DEF EventTypesOK
<1>2. InStep(client, Works, worker.memory.sequence + 1)
  BY DEF StreamInv
<1>3. /\ \A x : InStep(client, FALSE, x)
      /\ \A w, x : InStep(Closed(client), w, x)
  BY <1>1, <1>2, IdleInStep
<1>4. missed' = {} /\ outcome' = outcome
  BY DEF ClientRests, StreamInv
<1>5. Works' \in BOOLEAN /\ (Works' => Works /\ worker'.memory.sequence = worker.memory.sequence)
  BY DEF ThreadRests, Works
<1>6. InStep(client', Works', worker'.memory.sequence + 1)
  <2>1. CASE client' = Closed(client)
    BY <1>3, <2>1
  <2>2. CASE client' = client /\ Works'
    <3>1. Works' = Works /\ worker'.memory.sequence + 1 = worker.memory.sequence + 1
      BY <1>5, <2>2 DEF Works
    <3>2. QED
      BY <1>2, <2>2, <3>1
  <2>3. CASE client' = client /\ ~Works'
    <3>1. Works' = FALSE
      BY <1>5, <2>3
    <3>2. QED
      BY <1>3, <2>3, <3>1
  <2>4. QED
    BY <2>1, <2>2, <2>3 DEF ClientRests
<1>7. QED
  BY <1>1, <1>4, <1>6, ClosedClient DEF StreamInv, ClientRests

LEMMA RestKeepsSpool ==
  ASSUME EventTypesOK, SpoolInv, ThreadRests, spool' = spool, IsActive(disk)' => disk'.sequence = 0
  PROVE  SpoolInv' /\ spool' \in Seq(Events)
<1>1. spool' \in Seq(Events) /\ (\E m, n \in Nat : SpoolHolds(spool', m, n))
  BY DEF EventTypesOK, SpoolInv
<1>2. Works' => SpoolHolds(spool', Len(spool'), worker'.memory.sequence)
  <2>1. Works' => Works /\ worker'.memory.sequence = worker.memory.sequence
    BY DEF ThreadRests, Works
  <2>2. QED
    BY <2>1 DEF SpoolInv
<1>3. worker'.thread \in {"stored", "spawned"} => worker'.memory.sequence = 0
  BY DEF SpoolInv, ThreadRests
<1>4. QED
  BY <1>1, <1>2, <1>3 DEF SpoolInv

-----------------------------------------------------------------------------
(* Steps and the transcript *)

Transcript == EventTypesOK /\ SpoolInv /\ StreamInv

LEMMA WorkerFields ==
  ASSUME WorkerInv
  PROVE  /\ worker \in Workers /\ worker.memory \in Records /\ disk \in Records
         /\ worker.memory.sequence \in Nat /\ worker.memory.id \in Nat /\ disk.sequence \in Nat
         /\ worker.thread \in {"none", "stored", "spawned", "recorded", "released"}
BY DEF WorkerInv, Types, Workers, Records

LEMMA DownRests == worker' = Down => worker'.thread = "none" /\ ThreadRests
BY DEF Down, ThreadRests

(* A thread that goes on with what it has. *)
LEMMA ThreadGoesOn ==
  ASSUME WorkerInv,
         \/ Spawn \/ Record \/ Release \/ CollectFails \/ Stop \/ Terminate
         \/ \E request \in interrupts : HandleInterrupt(request) \/ SignalInterrupt(request)
  PROVE  ThreadRests
<1>1. worker \in Workers /\ worker.memory \in Records
  BY WorkerFields
<1>2. CASE Spawn \/ Release
  BY <1>1, <1>2 DEF Spawn, Release, ThreadRests, Workers, Works
<1>3. CASE Record
  <2> DEFINE new == [worker.memory EXCEPT !.status = "running", !.group = Mine]
  <2>1. new.sequence = worker.memory.sequence
    BY <1>1 DEF Records
  <2>2. worker' = [worker EXCEPT !.memory = new, !.thread = "recorded"] /\ worker.thread = "spawned"
    BY <1>3 DEF Record
  <2> HIDE DEF new
  <2>3. worker'.memory = new /\ worker'.thread = "recorded"
    BY <1>1, <2>2 DEF Workers
  <2>4. QED
    BY <2>1, <2>2, <2>3 DEF ThreadRests, Works
<1>4. CASE CollectFails
  <2> DEFINE new == [worker.memory EXCEPT !.sequence = @ + 1]
  <2>1. worker' = [worker EXCEPT !.memory = new, !.thread = "none"]
    BY <1>1, <1>4 DEF CollectFails, Workers
  <2> HIDE DEF new
  <2>2. worker'.thread = "none"
    BY <1>1, <2>1 DEF Workers
  <2>3. QED
    BY <2>2 DEF ThreadRests
<1>5. CASE Stop \/ Terminate
  BY <1>1, <1>5 DEF Stop, Terminate, ThreadRests, Workers, Works
<1>6. ASSUME NEW request \in interrupts, HandleInterrupt(request) \/ SignalInterrupt(request)
      PROVE  ThreadRests
  BY <1>1, <1>6 DEF HandleInterrupt, SignalInterrupt, ThreadRests, Workers, Works
<1>7. QED
  BY <1>2, <1>3, <1>4, <1>5, <1>6

LEMMA RestsTranscript ==
  ASSUME WorkerInv, Transcript,
         \/ UNCHANGED vars
         \/ \E g \in Groups : Execute(g) \/ GiveUp(g) \/ Write(g) \/ Exit(g)
         \/ Crash \/ Idle \/ Leave \/ KillWorker
         \/ Spawn \/ Record \/ Release \/ CollectFails \/ Stop \/ Terminate
         \/ \E request \in interrupts : HandleInterrupt(request) \/ SignalInterrupt(request)
  PROVE  Transcript'
<1>1. ThreadRests
  <2>1. CASE worker' = worker
    BY <2>1 DEF ThreadRests, Works
  <2>2. CASE worker' = Down
    BY <2>2, DownRests
  <2>3. QED
    BY <2>1, <2>2, ThreadGoesOn DEF vars, Execute, GiveUp, Write, Exit, Crash, Idle, Leave, KillWorker
<1>2. ClientRests /\ spool' = spool
  BY DEF ClientRests, vars, history, Execute, GiveUp, Write, Exit, Crash, Idle, Leave, KillWorker,
         Spawn, Record, Release, CollectFails, Stop, Terminate, HandleInterrupt, SignalInterrupt
<1>3. IsActive(disk)' => disk'.sequence = 0
  <2>1. CASE disk' = disk
    BY <2>1 DEF Transcript, SpoolInv, IsActive
  <2>2. CASE Record
    <3> DEFINE new == [worker.memory EXCEPT !.status = "running", !.group = Mine]
    <3>1. worker.memory \in Records /\ worker.memory.sequence = 0
      BY <2>2, WorkerFields DEF Record, Transcript, SpoolInv
    <3>2. new.sequence = 0
      BY <3>1 DEF Records
    <3>3. disk' = new
      BY <2>2 DEF Record
    <3>4. QED
      BY <3>2, <3>3
  <2>3. QED
    BY <2>1, <2>2 DEF vars, Execute, GiveUp, Write, Exit, Crash, Idle, Leave, KillWorker,
         Spawn, Release, CollectFails, Stop, Terminate, HandleInterrupt, SignalInterrupt
<1>4. EventTypesOK /\ SpoolInv /\ StreamInv
  BY DEF Transcript
<1>5. StreamInv' /\ client' \in Clients /\ outcome' \in [Commands -> Codes]
  BY <1>1, <1>2, <1>4, RestKeepsStream
<1>6. SpoolInv' /\ spool' \in Seq(Events)
  BY <1>1, <1>2, <1>3, <1>4, RestKeepsSpool
<1>7. QED
  BY <1>5, <1>6 DEF Transcript, EventTypesOK

(* The spool is cleared, with the session or for the next command. *)
LEMMA ClearsTranscript ==
  ASSUME WorkerInv, Transcript, CleanUp \/ CutAccept
  PROVE  Transcript'
<1>1. ThreadRests /\ worker'.thread = "none"
  <2>1. CASE CleanUp
    <3>1. worker' = worker /\ worker.thread = "none"
      BY <2>1 DEF CleanUp, WorkerInv, ThreadKnows
    <3>2. QED
      BY <3>1 DEF ThreadRests
  <2>2. CASE CutAccept
    <3>1. worker' = Down
      BY <2>2 DEF CutAccept
    <3>2. QED
      BY <3>1, DownRests
  <2>3. QED
    BY <2>1, <2>2
<1>2. ClientRests /\ spool' = <<>>
  BY DEF ClientRests, CleanUp, CutAccept, history
<1>3. IsActive(disk)' => disk'.sequence = 0
  BY DEF CleanUp, CutAccept, Nothing, Transcript, SpoolInv, IsActive
<1>4. StreamInv' /\ client' \in Clients /\ outcome' \in [Commands -> Codes]
  BY <1>1, <1>2, RestKeepsStream DEF Transcript
<1>5. SpoolInv' /\ spool' \in Seq(Events)
  <2>1. SpoolHolds(<<>>, Len(<<>>), 0) /\ <<>> \in Seq(Events) /\ Len(<<>>) \in Nat /\ 0 \in Nat
    BY EmptySpool
  <2>2. \E m, n \in Nat : SpoolHolds(spool', m, n)
    BY <1>2, <2>1
  <2>3. QED
    BY <1>1, <1>2, <1>3, <2>1, <2>2 DEF SpoolInv, Works
<1>6. QED
  BY <1>4, <1>5 DEF Transcript, EventTypesOK

(* A command is taken, with an empty spool. *)
LEMMA AcceptsTranscript ==
  ASSUME WorkerInv, Transcript, Accept \/ AcceptFails
  PROVE  Transcript'
<1>1. worker \in Workers /\ client \in Clients /\ outcome \in [Commands -> Codes] /\ missed = {}
  BY WorkerFields DEF Transcript, EventTypesOK, StreamInv
<1>2. /\ client' \in Clients /\ client'.phase = "live" /\ client'.stream = <<>>
      /\ client'.cursor = client.cursor /\ client'.cursor \in Nat
  <2>1. <<>> \in Seq(Events) /\ TRUE \in BOOLEAN /\ FALSE \in BOOLEAN
    OBVIOUS
  <2>2. client' = Answered(<<>>, TRUE) \/ client' = Answered(<<>>, FALSE)
    BY DEF Accept, AcceptFails
  <2>3. client.cursor \in Nat
    BY <1>1, ClientFields
  <2>4. QED
    BY <1>1, <2>1, <2>2, <2>3, AnsweredClient
<1>3. \/ worker'.thread = "none"
      \/ worker'.thread = "stored" /\ worker'.memory.sequence = 0
  <2>1. CASE Accept
    <3> DEFINE new == Dispatching(client.id)
    <3>1. new.sequence = 0
      BY DEF Dispatching
    <3>2. worker' = [worker EXCEPT !.memory = new, !.thread = "stored"]
      BY <2>1 DEF Accept
    <3> HIDE DEF new
    <3>3. QED
      BY <1>1, <3>1, <3>2 DEF Workers
  <2>2. CASE AcceptFails
    <3> DEFINE new == Dispatching(client.id)
    <3>1. worker.thread = "none"
      BY <2>2 DEF AcceptFails, IsNew, IsRefused, WorkerInv, ThreadKnows
    <3>2. worker' = [worker EXCEPT !.memory = new]
      BY <2>2 DEF AcceptFails
    <3> HIDE DEF new
    <3>3. QED
      BY <1>1, <3>1, <3>2 DEF Workers
  <2>3. QED
    BY <2>1, <2>2
<1>4. /\ spool' = <<>> /\ UNCHANGED <<outcome, missed>>
      /\ IsActive(disk)' => disk'.sequence = 0
  <2>1. spool' = <<>> /\ UNCHANGED <<outcome, missed>>
    BY DEF Accept, AcceptFails, history
  <2>2. IsActive(disk) => disk.sequence = 0
    BY DEF Transcript, SpoolInv
  <2>3. \A id : Dispatching(id).sequence = 0
    BY DEF Dispatching
  <2>4. disk' = Dispatching(client.id) \/ disk' = disk
    BY DEF Accept, AcceptFails
  <2>5. IsActive(disk)' => disk'.sequence = 0
    BY <2>2, <2>3, <2>4 DEF IsActive
  <2>6. QED
    BY <2>1, <2>5
<1>5. SpoolInv' /\ spool' \in Seq(Events)
  <2>1. SpoolHolds(<<>>, Len(<<>>), 0) /\ <<>> \in Seq(Events) /\ Len(<<>>) \in Nat /\ 0 \in Nat
    BY EmptySpool
  <2>2. \E m, n \in Nat : SpoolHolds(spool', m, n)
    BY <1>4, <2>1
  <2>3. QED
    BY <1>3, <1>4, <2>1, <2>2 DEF SpoolInv, Works
<1>6. InStep(client', Works', worker'.memory.sequence + 1)
  <2>1. Unbroken(<<>>, client'.cursor, client'.gap)
    BY DEF Unbroken
  <2>2. Works' => Follows(<<>>, client'.cursor, client'.gap, Len(<<>>) + 1, worker'.memory.sequence + 1)
    BY <1>2, <1>3 DEF Works, Follows
  <2>3. QED
    BY <1>2, <2>1, <2>2 DEF InStep
<1>7. QED
  BY <1>1, <1>2, <1>4, <1>5, <1>6 DEF Transcript, EventTypesOK, StreamInv

(* Two events at the end of a sequence. *)
LEMMA AppendedTwo ==
  ASSUME NEW events \in Seq(Events), NEW a \in Events, NEW b \in Events
  PROVE  events \o <<a, b>> = Append(Append(events, a), b)
<1> DEFINE left == events \o <<a, b>>
           right == Append(Append(events, a), b)
<1>1. <<a, b>> \in Seq(Events) /\ Len(<<a, b>>) = 2 /\ <<a, b>>[1] = a /\ <<a, b>>[2] = b
  OBVIOUS
<1>2. /\ left \in Seq(Events) /\ Len(left) = Len(events) + Len(<<a, b>>)
      /\ \A i \in 1 .. Len(events) + Len(<<a, b>>) :
           left[i] = IF i <= Len(events) THEN events[i] ELSE <<a, b>>[i - Len(events)]
  BY <1>1, ConcatProperties, Zenon
<1>3. /\ right \in Seq(Events) /\ Len(right) = Len(events) + 2
      /\ right[Len(events) + 1] = a /\ right[Len(events) + 2] = b
      /\ \A i \in 1 .. Len(events) : right[i] = events[i]
  OBVIOUS
<1>4. Len(events) \in Nat
  OBVIOUS
<1> HIDE DEF left, right
<1>5. ASSUME NEW i \in 1 .. Len(left) PROVE left[i] = right[i]
  <2>1. i \in 1 .. Len(events) \/ i = Len(events) + 1 \/ i = Len(events) + 2
    BY <1>1, <1>2, <1>4
  <2>2. CASE i \in 1 .. Len(events)
    BY <1>1, <1>2, <1>3, <1>4, <2>2
  <2>3. CASE i = Len(events) + 1
    <3>1. ~(i <= Len(events)) /\ i - Len(events) = 1 /\ i \in 1 .. Len(events) + Len(<<a, b>>)
      BY <1>1, <1>4, <2>3
    <3>2. QED
      BY <1>1, <1>2, <1>3, <2>3, <3>1
  <2>4. CASE i = Len(events) + 2
    <3>1. ~(i <= Len(events)) /\ i - Len(events) = 2 /\ i \in 1 .. Len(events) + Len(<<a, b>>)
      BY <1>1, <1>4, <2>4
    <3>2. QED
      BY <1>1, <1>2, <1>3, <2>4, <3>1
  <2>5. QED
    BY <2>1, <2>2, <2>3, <2>4
<1>6. left = right
  <2>1. Len(left) = Len(right)
    BY <1>1, <1>2, <1>3
  <2>2. QED
    BY <1>2, <1>3, <1>5, <2>1, SeqEqual
<1>7. QED
  BY <1>6 DEF left, right

(* A worker starts. *)
LEMMA StartTranscript ==
  ASSUME WorkerInv, Transcript, Start
  PROVE  Transcript'
<1>1. disk \in Records
  BY WorkerFields
<1> DEFINE new == Recovered(disk)
<1>2. /\ worker' = [Down EXCEPT !.up = TRUE, !.memory = new] /\ disk' = new
      /\ client' = client /\ UNCHANGED <<outcome, missed>>
      /\ spool' = IF IsActive(disk)
                    THEN spool \o <<Error, Completion(disk, "unknown")>> ELSE spool
  BY DEF Start, history
<1>3. ~IsActive(new)
  <2>1. CASE IsActive(disk)
    BY <1>1, <2>1, FinishedIsRecord DEF Recovered, IsActive
  <2>2. CASE ~IsActive(disk)
    BY <2>2 DEF Recovered
  <2>3. QED
    BY <2>1, <2>2
<1> HIDE DEF new
<1>4. worker'.thread = "none"
  BY <1>2 DEF Down
<1>5. ThreadRests /\ ClientRests
  BY <1>2, <1>4 DEF ThreadRests, ClientRests
<1>6. StreamInv' /\ client' \in Clients /\ outcome' \in [Commands -> Codes]
  BY <1>5, RestKeepsStream DEF Transcript
<1>7. spool' \in Seq(Events) /\ \E m, n \in Nat : SpoolHolds(spool', m, n)
  <2>1. PICK m \in Nat, n \in Nat : SpoolHolds(spool, m, n)
    BY DEF Transcript, SpoolInv
  <2>2. spool \in Seq(Events)
    BY DEF Transcript, EventTypesOK
  <2>3. CASE ~IsActive(disk)
    BY <1>2, <2>1, <2>2, <2>3
  <2>4. CASE IsActive(disk)
    <3> DEFINE end == Completion(disk, "unknown")
    <3>1. /\ Error \in Events /\ Error.kind = "error"
          /\ end \in Events /\ end.kind = "completed" /\ end.sequence = 1
      <4>1. disk.sequence = 0
        BY <2>4 DEF Transcript, SpoolInv
      <4>2. disk.sequence + 1 \in Nat /\ "unknown" \in Codes
        BY <4>1 DEF Codes
      <4>3. QED
        BY <4>1, <4>2, EventTypes DEF Completion
    <3> HIDE DEF end
    <3>2. Append(spool, Error) \in Seq(Events) /\ SpoolHolds(Append(spool, Error), m, n)
      BY <2>1, <2>2, <3>1, OtherAppended
    <3>3. /\ Append(Append(spool, Error), end) \in Seq(Events)
          /\ SpoolHolds(Append(Append(spool, Error), end), m, n)
      BY <3>1, <3>2, OtherAppended
    <3>4. spool' = Append(Append(spool, Error), end)
      <4>1. spool \o <<Error, end>> = Append(Append(spool, Error), end)
        BY <2>2, <3>1, AppendedTwo
      <4>2. QED
        BY <1>2, <2>4, <4>1 DEF end
    <3>5. QED
      BY <3>3, <3>4
  <2>5. QED
    BY <2>3, <2>4
<1>8. SpoolInv'
  <2>1. ~IsActive(disk)'
    BY <1>2, <1>3 DEF IsActive
  <2>2. QED
    BY <1>4, <1>7, <2>1 DEF SpoolInv, Works
<1>9. QED
  BY <1>6, <1>7, <1>8 DEF Transcript, EventTypesOK

(* A worker that dies while it recovers has added an error, or an error and *)
(* an end, to the spool.                                                    *)
LEMMA CutStartTranscript ==
  ASSUME WorkerInv, Transcript, CutStart
  PROVE  Transcript'
<1> DEFINE end == Completion(disk, "unknown")
<1>1. /\ IsActive(disk) /\ ~worker.up /\ UNCHANGED <<disk, worker, client, outcome, missed>>
      /\ spool' \in {spool, Append(spool, Error), spool \o <<Error, end>>}
  BY DEF CutStart, CanStart, history
<1>2. worker'.thread = "none"
  BY <1>1 DEF WorkerInv, ThreadKnows
<1>3. ThreadRests /\ ClientRests
  BY <1>1, <1>2 DEF ThreadRests, ClientRests
<1>4. StreamInv' /\ client' \in Clients /\ outcome' \in [Commands -> Codes]
  BY <1>3, RestKeepsStream DEF Transcript
<1>5. /\ Error \in Events /\ Error.kind = "error"
      /\ end \in Events /\ end.kind = "completed" /\ end.sequence = 1
  <2>1. disk.sequence = 0
    BY <1>1 DEF Transcript, SpoolInv
  <2>2. disk.sequence + 1 \in Nat /\ "unknown" \in Codes
    BY <2>1 DEF Codes
  <2>3. QED
    BY <2>1, <2>2, EventTypes DEF Completion
<1> HIDE DEF end
<1>6. spool' \in Seq(Events) /\ \E m, n \in Nat : SpoolHolds(spool', m, n)
  <2>1. PICK m \in Nat, n \in Nat : SpoolHolds(spool, m, n)
    BY DEF Transcript, SpoolInv
  <2>2. spool \in Seq(Events)
    BY DEF Transcript, EventTypesOK
  <2>3. Append(spool, Error) \in Seq(Events) /\ SpoolHolds(Append(spool, Error), m, n)
    BY <2>1, <2>2, <1>5, OtherAppended
  <2>4. /\ Append(Append(spool, Error), end) \in Seq(Events)
        /\ SpoolHolds(Append(Append(spool, Error), end), m, n)
    BY <1>5, <2>3, OtherAppended
  <2>5. spool \o <<Error, end>> = Append(Append(spool, Error), end)
    BY <1>5, <2>2, AppendedTwo
  <2>6. QED
    BY <1>1, <2>1, <2>2, <2>3, <2>4, <2>5
<1>7. SpoolInv'
  <2>1. IsActive(disk)' => disk'.sequence = 0
    BY <1>1 DEF Transcript, SpoolInv, IsActive
  <2>2. QED
    BY <1>2, <1>6, <2>1 DEF SpoolInv, Works
<1>8. QED
  BY <1>4, <1>6, <1>7 DEF Transcript, EventTypesOK

(* A line of output is read. *)
LEMMA CollectTranscript ==
  ASSUME WorkerInv, Transcript, Collect
  PROVE  Transcript'
<1> DEFINE n == worker.memory.sequence
           event == Output(n + 1)
           new == [worker.memory EXCEPT !.sequence = @ + 1]
<1>1. /\ worker \in Workers /\ worker.memory \in Records /\ n \in Nat
      /\ client \in Clients /\ spool \in Seq(Events) /\ outcome \in [Commands -> Codes]
  BY WorkerFields DEF Transcript, EventTypesOK
<1>2. /\ worker.thread = "released" /\ UNCHANGED <<disk, outcome, missed>>
      /\ worker' = [worker EXCEPT !.memory = new]
      /\ spool' = Appended(spool, event) /\ client' = Notified(client, event)
  BY <1>1 DEF Collect, history, Workers
<1>3. new.sequence = n + 1
  BY <1>1 DEF Records
<1> HIDE DEF new
<1>4. worker'.memory = new /\ worker'.thread = "released"
  BY <1>1, <1>2 DEF Workers
<1>5. event \in Events /\ event.kind = "output" /\ event.sequence = n + 1
  <2>1. n + 1 \in Nat /\ "none" \in Codes
    BY <1>1 DEF Codes
  <2>2. QED
    BY <2>1, EventTypes
<1>6. SpoolHolds(spool, Len(spool), n)
  BY <1>2 DEF Transcript, SpoolInv, Works
<1>7. spool' \in Seq(Events) /\ SpoolHolds(spool', Len(spool'), n + 1)
  BY <1>1, <1>2, <1>6, OutputAppended
<1> HIDE DEF event
<1>8. SpoolInv'
  <2>1. Len(spool') \in Nat /\ n + 1 \in Nat
    BY <1>1, <1>7
  <2>2. \E k, l \in Nat : SpoolHolds(spool', k, l)
    BY <1>7, <2>1
  <2>3. IsActive(disk)' => disk'.sequence = 0
    BY <1>2 DEF Transcript, SpoolInv, IsActive
  <2>4. QED
    BY <1>3, <1>4, <1>7, <2>2, <2>3 DEF SpoolInv
<1>9. client' \in Clients /\ InStep(client', TRUE, (n + 1) + 1)
  <2>1. Gets(client', client, event)
    BY <1>1, <1>2, <1>5, NotifiedGets
  <2>2. InStep(client, TRUE, n + 1)
    <3>1. Works = TRUE
      BY <1>2 DEF Works
    <3>2. QED
      BY <3>1 DEF Transcript, StreamInv
  <2>3. n + 1 \in Nat /\ TRUE \in BOOLEAN
    BY <1>1
  <2>4. QED
    BY <1>1, <1>5, <2>1, <2>2, <2>3, GetsInStep DEF Gets
<1>10. StreamInv'
  <2>1. Works' = TRUE /\ worker'.memory.sequence + 1 = (n + 1) + 1 /\ missed' = {}
    BY <1>2, <1>3, <1>4 DEF Works, Transcript, StreamInv
  <2>2. QED
    BY <1>9, <2>1 DEF StreamInv
<1>11. QED
  BY <1>1, <1>2, <1>7, <1>8, <1>9, <1>10 DEF Transcript, EventTypesOK

(* The end of a command, and the error before it, in spool and stream. *)
LEMMA EndsTranscript ==
  ASSUME WorkerInv, Transcript, Works, NEW code \in Codes
  PROVE  LET n == worker.memory.sequence
             end == Completion(worker.memory, code) IN
         /\ n \in Nat /\ end \in Events /\ end.kind = "completed" /\ end.code = code
         /\ \A events \in {spool, Appended(spool, Error)} :
              /\ Appended(events, end) = Append(events, end)
              /\ Appended(events, end) \in Seq(Events)
              /\ SpoolHolds(Appended(events, end), Len(spool), n)
         /\ \A c \in {client, Notified(client, Error)} :
              /\ c \in Clients /\ Gets(Notified(c, end), c, end)
              /\ Notified(c, end) \in Clients
              /\ \A x : InStep(Notified(c, end), FALSE, x)
         /\ Gets(Notified(client, Error), client, Error)
         /\ Appended(spool, Error) = Append(spool, Error)
<1> DEFINE n == worker.memory.sequence
           end == Completion(worker.memory, code)
<1>1. /\ n \in Nat /\ client \in Clients /\ spool \in Seq(Events)
      /\ SpoolHolds(spool, Len(spool), n) /\ InStep(client, TRUE, n + 1)
      /\ Len(spool) \in Nat
  <2>1. Works = TRUE
    BY DEF Works
  <2>2. InStep(client, TRUE, n + 1)
    BY <2>1 DEF Transcript, StreamInv
  <2>3. n \in Nat
    BY WorkerFields
  <2>4. client \in Clients /\ spool \in Seq(Events) /\ SpoolHolds(spool, Len(spool), n)
    BY DEF Transcript, EventTypesOK, SpoolInv
  <2>5. QED
    BY <2>2, <2>3, <2>4, LenProperties
<1>2. /\ end \in Events /\ end.kind = "completed" /\ end.sequence = n + 1 /\ end.code = code
      /\ Error \in Events /\ Error.kind = "error"
  <2>1. n + 1 \in Nat
    BY <1>1
  <2>2. QED
    BY <2>1, EventTypes DEF Completion
<1> HIDE DEF n, end
<1>3. ASSUME NEW events \in Seq(Events), SpoolHolds(events, Len(spool), n)
      PROVE  /\ Appended(events, end) = Append(events, end)
             /\ Appended(events, end) \in Seq(Events)
             /\ SpoolHolds(Appended(events, end), Len(spool), n)
  <2>1. /\ Appended(events, end) = Append(events, end)
        /\ Append(events, end) \in Seq(Events)
        /\ SpoolHolds(Append(events, end), Len(spool), n)
    BY <1>1, <1>2, <1>3, OtherAppended
  <2>2. QED
    BY <2>1
<1>4. /\ Appended(spool, Error) = Append(spool, Error)
      /\ Appended(spool, Error) \in Seq(Events) /\ SpoolHolds(Appended(spool, Error), Len(spool), n)
  <2>1. /\ Appended(spool, Error) = Append(spool, Error)
        /\ Append(spool, Error) \in Seq(Events)
        /\ SpoolHolds(Append(spool, Error), Len(spool), n)
    BY <1>1, <1>2, OtherAppended
  <2>2. QED
    BY <2>1
<1>5. ASSUME NEW c \in Clients, InStep(c, TRUE, n + 1)
      PROVE  /\ Gets(Notified(c, end), c, end) /\ Notified(c, end) \in Clients
             /\ \A x : InStep(Notified(c, end), FALSE, x)
  <2>1. Gets(Notified(c, end), c, end)
    BY <1>2, NotifiedGets
  <2>2. Notified(c, end) \in Clients
    BY <2>1 DEF Gets
  <2>3. InStep(Notified(c, end), FALSE, n + 1)
    <3>1. n + 1 \in Nat /\ TRUE \in BOOLEAN
      BY <1>1
    <3>2. QED
      BY <1>2, <1>5, <2>1, <3>1, GetsInStep
  <2>4. \A x : InStep(Notified(c, end), FALSE, x)
    BY <2>2, <2>3, IdleInStep
  <2>5. QED
    BY <2>1, <2>2, <2>4
<1>6. Gets(Notified(client, Error), client, Error)
  BY <1>1, <1>2, NotifiedGets
<1>7. Notified(client, Error) \in Clients /\ InStep(Notified(client, Error), TRUE, n + 1)
  <2>1. n + 1 \in Nat /\ TRUE \in BOOLEAN
    BY <1>1
  <2>2. InStep(Notified(client, Error), TRUE, n + 1)
    BY <1>1, <1>2, <1>6, <2>1, GetsInStep
  <2>3. QED
    BY <1>6, <2>2 DEF Gets
<1>8. \A events \in {spool, Appended(spool, Error)} :
              /\ Appended(events, end) = Append(events, end)
              /\ Appended(events, end) \in Seq(Events)
              /\ SpoolHolds(Appended(events, end), Len(spool), n)
  BY <1>1, <1>3, <1>4
<1>9. \A c \in {client, Notified(client, Error)} :
              /\ c \in Clients /\ Gets(Notified(c, end), c, end)
              /\ Notified(c, end) \in Clients
              /\ \A x : InStep(Notified(c, end), FALSE, x)
  BY <1>1, <1>5, <1>7
<1>10. QED
  BY <1>1, <1>2, <1>4, <1>6, <1>8, <1>9 DEF n, end

(* The code that the process of a thread ends with. *)
LEMMA ExitCodes ==
  ASSUME WorkerInv, worker.thread = "released"
  PROVE  ExitCode \in Codes
<1>1. Mine \in Groups /\ child \in Seq(Process)
  BY DEF WorkerInv, ThreadKnows, Types
<1>2. child[Mine] \in Process
  BY <1>1 DEF Groups
<1>3. QED
  BY <1>2 DEF ExitCode, Process, Codes

LEMMA FinishTranscript ==
  ASSUME WorkerInv, Transcript, Monitor \/ SpawnFails \/ DispatchFails \/ CutMonitor
  PROVE  Transcript'
<1> DEFINE code == IF Monitor \/ CutMonitor THEN ExitCode ELSE "failed"
           n == worker.memory.sequence
           end == Completion(worker.memory, code)
<1>1. /\ Works /\ worker.thread # "none"
      /\ Monitor \/ CutMonitor => worker.thread = "released"
  BY DEF Monitor, CutMonitor, IsDone, SpawnFails, DispatchFails, Works
<1>2. code \in Codes
  BY <1>1, ExitCodes DEF Codes
<1>3. CASE ~CutMonitor
  <2>1. \E failed \in BOOLEAN : Finish(failed, code)
    <3>1. CASE Monitor
      <4>1. Finish(FALSE, code)
        BY <3>1 DEF Monitor
      <4>2. QED
        BY <4>1
    <3>2. CASE ~Monitor
      <4>1. Finish(TRUE, code)
        BY <1>3, <3>2 DEF SpawnFails, DispatchFails
      <4>2. QED
        BY <4>1
    <3>3. QED
      BY <3>1, <3>2
  <2> DEFINE new == Finished(worker.memory)
  <2>2. /\ worker' = [worker EXCEPT !.memory = new, !.override = FALSE, !.thread = "none"]
        /\ disk' = new
        /\ \E events \in {spool, Appended(spool, Error)} : spool' = Appended(events, end)
        /\ \E c \in {client, Notified(client, Error)} : client' = Notified(c, end)
    <3> HIDE DEF code
    <3>1. PICK failed \in BOOLEAN : Finish(failed, code)
      BY <2>1
    <3>2. CASE failed
      BY <3>1, <3>2 DEF Finish
    <3>3. CASE ~failed
      BY <3>1, <3>3 DEF Finish
    <3>4. QED
      BY <3>2, <3>3
  <2>3. missed' = missed /\ outcome' = outcome
    BY <1>3 DEF Monitor, SpawnFails, DispatchFails, history
  <2>4. ~IsActive(new)
    BY WorkerFields, FinishedIsRecord DEF IsActive
  <2> HIDE DEF new, code
  <2>5. worker'.thread = "none"
    BY <2>2, WorkerFields DEF Workers
  <2>6. spool' \in Seq(Events) /\ SpoolHolds(spool', Len(spool), n) /\ n \in Nat
    BY <1>1, <1>2, <2>2, EndsTranscript
  <2>7. client' \in Clients /\ \A x : InStep(client', FALSE, x)
    BY <1>1, <1>2, <2>2, EndsTranscript
  <2>8. SpoolInv'
    <3>1. Len(spool) \in Nat
      BY LenProperties DEF Transcript, EventTypesOK
    <3>2. \E k, l \in Nat : SpoolHolds(spool', k, l)
      BY <2>6, <3>1
    <3>3. ~IsActive(disk)'
      BY <2>2, <2>4 DEF IsActive
    <3>4. QED
      BY <2>5, <3>2, <3>3 DEF SpoolInv, Works
  <2>9. StreamInv'
    <3>1. Works' = FALSE /\ missed' = {}
      BY <2>3, <2>5 DEF Works, Transcript, StreamInv
    <3>2. QED
      BY <2>7, <3>1 DEF StreamInv
  <2>10. QED
    BY <2>3, <2>6, <2>7, <2>8, <2>9 DEF Transcript, EventTypesOK
<1>4. CASE CutMonitor
  <2>1. /\ worker' = Down /\ disk' = disk /\ UNCHANGED <<outcome, missed>>
        /\ spool' = Append(spool, end) /\ client' = Closed(Notified(client, end))
    BY <1>4 DEF CutMonitor, history
  <2> HIDE DEF code
  <2>2. spool' \in Seq(Events) /\ SpoolHolds(spool', Len(spool), n) /\ n \in Nat
    BY <1>1, <1>2, <2>1, EndsTranscript
  <2>3. Notified(client, end) \in Clients /\ \A x : InStep(Notified(client, end), FALSE, x)
    BY <1>1, <1>2, EndsTranscript
  <2>4. client' \in Clients /\ \A x, w : InStep(client', w, x)
    BY <2>1, <2>3, ClosedClient, IdleInStep
  <2>5. worker'.thread = "none"
    BY <2>1 DEF Down
  <2>6. SpoolInv'
    <3>1. Len(spool) \in Nat
      BY LenProperties DEF Transcript, EventTypesOK
    <3>2. \E k, l \in Nat : SpoolHolds(spool', k, l)
      BY <2>2, <3>1
    <3>3. IsActive(disk)' => disk'.sequence = 0
      BY <2>1 DEF Transcript, SpoolInv, IsActive
    <3>4. QED
      BY <2>5, <3>2, <3>3 DEF SpoolInv, Works
  <2>7. StreamInv'
    BY <2>1, <2>4 DEF StreamInv, Transcript
  <2>8. QED
    BY <2>1, <2>2, <2>4, <2>6, <2>7 DEF Transcript, EventTypesOK
<1>5. QED
  BY <1>3, <1>4

(* An end that cannot be written is told, or is not. *)
LEMMA MonitorFailsTranscript ==
  ASSUME WorkerInv, Transcript, MonitorFails
  PROVE  Transcript'
<1> DEFINE n == worker.memory.sequence
           end == Completion(worker.memory, ExitCode)
<1>1. /\ Works /\ worker.thread = "released"
      /\ disk' = disk /\ UNCHANGED <<outcome, missed>>
      /\ worker' = [worker EXCEPT !.memory = Finished(@), !.override = FALSE, !.thread = "none"]
      /\ \/ spool' = Appended(spool, end) /\ client' = Notified(client, end)
         \/ spool' = spool /\ client' = client
  BY DEF MonitorFails, IsDone, Works, history
<1>2. ExitCode \in Codes
  BY <1>1, ExitCodes
<1>3. worker'.thread = "none"
  BY <1>1, WorkerFields DEF Workers
<1>4. CASE spool' = Appended(spool, end) /\ client' = Notified(client, end)
  <2>1. /\ spool' \in Seq(Events) /\ SpoolHolds(spool', Len(spool), n) /\ n \in Nat
        /\ client' \in Clients /\ \A x : InStep(client', FALSE, x)
    BY <1>1, <1>2, <1>4, EndsTranscript
  <2>2. SpoolInv'
    <3>1. Len(spool) \in Nat
      BY LenProperties DEF Transcript, EventTypesOK
    <3>2. \E k, l \in Nat : SpoolHolds(spool', k, l)
      BY <2>1, <3>1
    <3>3. IsActive(disk)' => disk'.sequence = 0
      BY <1>1 DEF Transcript, SpoolInv, IsActive
    <3>4. QED
      BY <1>3, <3>2, <3>3 DEF SpoolInv, Works
  <2>3. StreamInv'
    <3>1. Works' = FALSE /\ missed' = {}
      BY <1>1, <1>3 DEF Works, Transcript, StreamInv
    <3>2. QED
      BY <2>1, <3>1 DEF StreamInv
  <2>4. QED
    BY <1>1, <2>1, <2>2, <2>3 DEF Transcript, EventTypesOK
<1>5. CASE spool' = spool /\ client' = client
  <2>1. ThreadRests /\ ClientRests
    BY <1>1, <1>3, <1>5 DEF ThreadRests, ClientRests
  <2>2. StreamInv' /\ client' \in Clients /\ outcome' \in [Commands -> Codes]
    BY <2>1, RestKeepsStream DEF Transcript
  <2>3. IsActive(disk)' => disk'.sequence = 0
    BY <1>1 DEF Transcript, SpoolInv, IsActive
  <2>4. SpoolInv' /\ spool' \in Seq(Events)
    BY <1>5, <2>1, <2>3, RestKeepsSpool DEF Transcript
  <2>5. QED
    BY <2>2, <2>4 DEF Transcript, EventTypesOK
<1>6. QED
  BY <1>1, <1>4, <1>5

(* What the leader does and is answered changes its own side only. *)
LEMMA LeaderTranscript ==
  ASSUME WorkerInv, Transcript, UNCHANGED <<worker, disk, spool>>,
         client' \in Clients, InStep(client', Works, worker.memory.sequence + 1),
         outcome' \in [Commands -> Codes], missed' = {}
  PROVE  Transcript'
<1>1. ThreadRests
  BY DEF ThreadRests, Works
<1>2. SpoolInv' /\ spool' \in Seq(Events)
  <2>1. IsActive(disk)' => disk'.sequence = 0
    BY DEF Transcript, SpoolInv, IsActive
  <2>2. QED
    BY <1>1, <2>1, RestKeepsSpool DEF Transcript
<1>3. StreamInv'
  <2>1. Works' = Works /\ worker'.memory.sequence + 1 = worker.memory.sequence + 1
    BY DEF Works
  <2>2. QED
    BY <2>1 DEF StreamInv
<1>4. QED
  BY <1>2, <1>3 DEF Transcript, EventTypesOK

(* A command that is not the worker's is refused, and one that is replayed. *)
LEMMA AnswersTranscript ==
  ASSUME WorkerInv, Transcript, Refuse \/ Subscribe
  PROVE  Transcript'
<1> DEFINE next == worker.memory.sequence + 1
<1>1. /\ client \in Clients /\ client.phase = "sent" /\ client.gap = 0 /\ client.cursor \in Nat
      /\ outcome \in [Commands -> Codes] /\ missed = {} /\ spool \in Seq(Events)
  <2>1. client \in Clients /\ client.phase = "sent"
    BY DEF Transcript, EventTypesOK, Refuse, Subscribe
  <2>2. client.gap = 0
    BY <2>1 DEF Transcript, StreamInv, InStep
  <2>3. QED
    BY <2>1, <2>2, ClientFields DEF Transcript, EventTypesOK, StreamInv
<1>2. UNCHANGED <<worker, disk, spool, outcome, missed>>
  BY DEF Refuse, Subscribe, history
<1>3. ASSUME NEW stream \in Seq(Events), NEW open \in BOOLEAN, client' = Answered(stream, open),
             Unbroken(stream, client.cursor, 0),
             open /\ Works => Follows(stream, client.cursor, 0, Len(stream) + 1, next)
      PROVE  Transcript'
  <2>1. /\ client' \in Clients /\ client'.phase = "live" /\ client'.stream = stream
        /\ client'.open = open /\ client'.cursor = client.cursor /\ client'.gap = 0
    BY <1>1, <1>3, AnsweredClient
  <2>2. InStep(client', Works, next)
    BY <1>3, <2>1 DEF InStep
  <2>3. QED
    BY <1>1, <1>2, <2>1, <2>2, LeaderTranscript
<1>4. CASE Refuse
  <2> DEFINE end == Completed(0, "unknown")
             stream == <<Error, end>>
  <2>1. Error \in Events /\ Error.kind = "error" /\ end \in Events /\ end.kind = "completed" /\ end.sequence = 0
    <3>1. 0 \in Nat /\ "unknown" \in Codes
      BY DEF Codes
    <3>2. QED
      BY <3>1, EventTypes
  <2>2. client' = Answered(stream, FALSE)
    BY <1>4 DEF Refuse
  <2> HIDE DEF end
  <2>3. stream \in Seq(Events) /\ Len(stream) = 2 /\ stream[1] = Error /\ stream[2] = end
    BY <2>1
  <2> HIDE DEF stream
  <2>4. Unbroken(stream, client.cursor, 0)
    <3>1. \A k \in 1 .. Len(stream) : k = 1 \/ k = 2
      BY <2>3
    <3>2. 0 <= client.cursor + 1
      BY <1>1
    <3>3. \A k \in 1 .. Len(stream) : stream[k].kind # "gap" /\ (HasSequence(stream[k]) => stream[k].sequence = 0)
      BY <2>1, <2>3, <3>1 DEF HasSequence
    <3>4. QED
      BY <3>2, <3>3 DEF Unbroken, Follows
  <2>5. FALSE \in BOOLEAN
    OBVIOUS
  <2>6. QED
    BY <1>3, <2>2, <2>3, <2>4, <2>5
<1>5. CASE Subscribe
  <2> DEFINE stream == Replay(spool, client.cursor)
             open == worker.memory.status # "completed"
  <2>1. client' = Answered(stream, open) /\ open \in BOOLEAN
    BY <1>5 DEF Subscribe
  <2>2. \E m, n \in Nat : SpoolHolds(spool, m, n) /\ (Works => m = Len(spool) /\ n + 1 = next)
    <3>1. CASE Works
      <4>1. SpoolHolds(spool, Len(spool), worker.memory.sequence)
        BY <3>1 DEF Transcript, SpoolInv
      <4>2. Len(spool) \in Nat /\ worker.memory.sequence \in Nat
        BY <1>1, WorkerFields, LenProperties
      <4>3. QED
        BY <4>1, <4>2
    <3>2. CASE ~Works
      BY <3>2 DEF Transcript, SpoolInv
    <3>3. QED
      BY <3>1, <3>2
  <2>3. PICK m, n \in Nat : SpoolHolds(spool, m, n) /\ (Works => m = Len(spool) /\ n + 1 = next)
    BY <2>2
  <2>4. /\ stream \in Seq(Events) /\ Unbroken(stream, client.cursor, 0)
        /\ m = Len(spool) => Follows(stream, client.cursor, 0, Len(stream) + 1, n + 1)
    <3>1. SpoolHolds(spool, m, n)
      BY <2>3
    <3> HIDE DEF next, open
    <3>2. QED
      BY <1>1, <3>1, ReplayUnbroken
  <2> HIDE DEF stream, open, next
  <2>5. open /\ Works => Follows(stream, client.cursor, 0, Len(stream) + 1, next)
    BY <2>3, <2>4
  <2>6. QED
    BY <1>3, <2>1, <2>4, <2>5
<1>6. QED
  BY <1>4, <1>5

(* A leader asks, waits, and is replaced. *)
LEMMA AsksTranscript ==
  ASSUME WorkerInv, Transcript, Ask \/ ReplaceLeader \/ AskAgain \/ StreamEnds \/ Interrupt
  PROVE  Transcript'
<1>1. /\ client \in Clients /\ outcome \in [Commands -> Codes] /\ missed = {}
      /\ InStep(client, Works, worker.memory.sequence + 1)
  BY DEF Transcript, EventTypesOK, StreamInv
<1>2. UNCHANGED <<worker, disk, spool, missed>>
  BY DEF Ask, ReplaceLeader, AskAgain, StreamEnds, Interrupt, history
<1>3. outcome' \in [Commands -> Codes]
  BY <1>1 DEF Ask, ReplaceLeader, AskAgain, StreamEnds, Interrupt, history, Ended, Codes
<1>4. client' \in Clients
  <2>1. CASE Ask
    <3>1. client.id + 1 \in Nat /\ <<>> \in Seq(Events)
      BY <1>1, ClientFields
    <3>2. client' = [NoCommand EXCEPT !.id = client.id + 1, !.phase = "sent", !.open = TRUE]
      BY <2>1 DEF Ask
    <3>3. QED
      BY <3>1, <3>2 DEF NoCommand, Clients
  <2>2. CASE ReplaceLeader
    <3>1. <<>> \in Seq(Events)
      OBVIOUS
    <3>2. QED
      BY <1>1, <2>2, <3>1 DEF ReplaceLeader, Clients
  <2>3. CASE AskAgain \/ StreamEnds \/ Interrupt
    BY <1>1, <2>3 DEF AskAgain, StreamEnds, Interrupt, Clients
  <2>4. QED
    BY <2>1, <2>2, <2>3
<1>5. InStep(client', Works, worker.memory.sequence + 1)
  <2>1. CASE Ask
    <3>1. client'.phase = "sent" /\ client'.gap = 0
      BY <2>1 DEF Ask, NoCommand
    <3>2. QED
      BY <3>1 DEF InStep
  <2>2. CASE ReplaceLeader
    <3>1. client'.phase = "again" /\ client'.gap = 0
      BY <1>1, <2>2 DEF ReplaceLeader, Clients
    <3>2. QED
      BY <3>1 DEF InStep
  <2>3. CASE AskAgain
    <3>1. client.phase = "again" /\ client'.phase = "sent" /\ client'.gap = client.gap
      BY <1>1, <2>3 DEF AskAgain, Clients
    <3>2. QED
      BY <1>1, <3>1 DEF InStep
  <2>4. CASE StreamEnds
    <3>1. client'.phase = "over"
      BY <1>1, <2>4 DEF StreamEnds, Clients
    <3>2. QED
      BY <3>1 DEF InStep
  <2>5. CASE Interrupt
    <3>1. /\ client'.phase = client.phase /\ client'.gap = client.gap /\ client'.open = client.open
          /\ client'.stream = client.stream /\ client'.cursor = client.cursor
      BY <1>1, <2>5 DEF Interrupt, Clients
    <3>2. QED
      BY <1>1, <3>1, Zenon DEF InStep
  <2>6. QED
    BY <2>1, <2>2, <2>3, <2>4, <2>5
<1>6. missed' = {}
  BY <1>1, <1>2
<1>7. QED
  BY <1>2, <1>3, <1>4, <1>5, <1>6, LeaderTranscript

(* An event is read: none was skipped before it. *)
LEMMA ReadTranscript ==
  ASSUME WorkerInv, Transcript, Read
  PROVE  Transcript'
<1> DEFINE event == client.stream[1]
           cursor2 == IF event.kind = "output" /\ event.sequence > client.cursor
                      THEN event.sequence ELSE client.cursor
           gap2 == IF event.kind = "gap" THEN event.sequence ELSE client.gap
           live2 == IF client.live = 0 THEN 0 ELSE client.live - 1
           rest == Tail(client.stream)
           next == worker.memory.sequence + 1
<1>1. /\ client \in Clients /\ outcome \in [Commands -> Codes] /\ missed = {} /\ next \in Nat
      /\ InStep(client, Works, next) /\ client.phase = "live" /\ client.stream # <<>>
  <2>1. next \in Nat
    BY WorkerFields
  <2>2. QED
    BY <2>1 DEF Transcript, EventTypesOK, StreamInv, Read
<1>2. /\ client.stream \in Seq(Events) /\ client.cursor \in Nat /\ client.gap \in Nat /\ client.live \in Nat
      /\ Unbroken(client.stream, client.cursor, client.gap)
  BY <1>1, ClientFields DEF InStep
<1>3. /\ event \in Events /\ event.sequence \in Nat /\ 1 <= Len(client.stream) /\ Len(client.stream) \in Nat
      /\ event.kind = "completed" => event.code \in Codes
      /\ Head(client.stream) = event
  <2>1. event \in Events /\ Head(client.stream) = event /\ 1 <= Len(client.stream) /\ Len(client.stream) \in Nat
    BY <1>1, <1>2
  <2> HIDE DEF event
  <2>2. QED
    BY <2>1, EventFields
<1>4. /\ rest \in Seq(Events) /\ Len(rest) + 1 = Len(client.stream)
      /\ \A k \in 2 .. Len(client.stream) + 1 : \A q \in Nat :
           Follows(client.stream, client.cursor, client.gap, k, q) => Follows(rest, cursor2, gap2, k - 1, q)
      /\ Unbroken(rest, cursor2, gap2)
  <2>1. Reads(client.stream, client.cursor, client.gap, cursor2, gap2)
    BY DEF Reads
  <2> HIDE DEF cursor2, gap2
  <2>2. QED
    BY <1>1, <1>2, <2>1, ReadFollows
<1>5. cursor2 \in Nat /\ gap2 \in Nat /\ live2 \in Nat
  BY <1>2, <1>3
<1>6. missed' = {}
  <2>1. HasSequence(event) => event.sequence <= client.cursor + 1 \/ event.sequence = client.gap
    BY <1>1, <1>2, FirstIsNext
  <2>2. ~(HasSequence(event) /\ event.sequence > client.cursor + 1 /\ event.sequence # client.gap)
    BY <1>2, <1>3, <2>1
  <2> HIDE DEF event
  <2>3. missed' = missed
    BY <1>3, <2>2 DEF Read
  <2>4. QED
    BY <1>1, <2>3
<1>7. client' \in Clients /\ (client'.phase = "over" \/
        /\ client'.phase = "live" /\ client'.stream = rest /\ client'.cursor = cursor2
        /\ client'.gap = gap2 /\ client'.open = client.open)
  <2> DEFINE base == [client EXCEPT !.stream = rest, !.live = live2]
  <2>1. /\ base \in Clients /\ base.phase = "live" /\ base.stream = rest /\ base.cursor = client.cursor
        /\ base.gap = client.gap /\ base.open = client.open
    <3> HIDE DEF rest, live2
    <3>1. QED
      BY <1>1, <1>4, <1>5 DEF Clients
  <2>2. \/ event.kind = "output" /\ client' = [base EXCEPT !.cursor = IF event.sequence > @ THEN event.sequence ELSE @]
        \/ event.kind = "gap" /\ client' = [base EXCEPT !.gap = event.sequence]
        \/ event.kind = "error" /\ client' = base
        \/ event.kind = "completed" /\ client' = [base EXCEPT !.phase = "over", !.open = FALSE]
    BY <1>1, <1>3, Zenon DEF Read, Clients
  <2> HIDE DEF base, event, rest
  <2>3. CASE event.kind = "output" /\ client' = [base EXCEPT !.cursor = IF event.sequence > @ THEN event.sequence ELSE @]
    <3>1. cursor2 = IF event.sequence > base.cursor THEN event.sequence ELSE base.cursor
      BY <2>1, <2>3
    <3>2. client' = [base EXCEPT !.cursor = cursor2]
      BY <2>1, <2>3, <3>1 DEF Clients
    <3>3. gap2 = client.gap
      BY <2>3
    <3> HIDE DEF cursor2, gap2
    <3>4. QED
      BY <1>5, <2>1, <3>2, <3>3 DEF Clients
  <2>4. CASE event.kind = "gap" /\ client' = [base EXCEPT !.gap = event.sequence]
    <3>1. cursor2 = client.cursor /\ gap2 = event.sequence
      BY <2>4
    <3> HIDE DEF cursor2, gap2
    <3>2. QED
      BY <1>5, <2>1, <2>4, <3>1 DEF Clients
  <2>5. CASE event.kind = "error" /\ client' = base
    <3>1. cursor2 = client.cursor /\ gap2 = client.gap
      BY <2>5
    <3>2. QED
      BY <2>1, <2>5, <3>1
  <2>6. CASE event.kind = "completed" /\ client' = [base EXCEPT !.phase = "over", !.open = FALSE]
    BY <2>1, <2>6 DEF Clients
  <2>7. QED
    BY <2>2, <2>3, <2>4, <2>5, <2>6
<1>8. outcome' \in [Commands -> Codes]
  <2>1. outcome' = outcome \/ (event.kind = "completed" /\ outcome' = [outcome EXCEPT ![client.id] = event.code])
    <3> HIDE DEF event
    <3>1. QED
      BY <1>3 DEF Read, Ended
  <2> HIDE DEF event
  <2>2. QED
    BY <1>1, <1>3, <2>1
<1> HIDE DEF event, cursor2, gap2, live2
<1>9. InStep(client', Works, next)
  <2>1. CASE client'.phase = "over"
    BY <2>1 DEF InStep
  <2>2. CASE client'.phase = "live" /\ client'.stream = rest /\ client'.cursor = cursor2
             /\ client'.gap = gap2 /\ client'.open = client.open
    <3>1. client'.open /\ Works => Follows(rest, cursor2, gap2, Len(rest) + 1, next)
      <4>1. client.open /\ Works => Follows(client.stream, client.cursor, client.gap, Len(client.stream) + 1, next)
        BY <1>1 DEF InStep
      <4>2. Len(client.stream) + 1 \in 2 .. Len(client.stream) + 1 /\ Len(client.stream) + 1 - 1 = Len(rest) + 1
        BY <1>3, <1>4
      <4> HIDE DEF rest, next
      <4>3. QED
        BY <1>1, <1>4, <2>2, <4>1, <4>2
    <3> HIDE DEF rest, next
    <3>2. QED
      BY <1>4, <2>2, <3>1 DEF InStep
  <2>3. QED
    BY <1>7, <2>1, <2>2
<1>10. UNCHANGED <<worker, disk, spool>>
  BY DEF Read
<1>11. QED
  BY <1>6, <1>7, <1>8, <1>9, <1>10, LeaderTranscript

-----------------------------------------------------------------------------

LEMMA InitTranscript == Init => TranscriptInv
<1> SUFFICES ASSUME Init PROVE Transcript
  BY InitWorker DEF TranscriptInv, Transcript
<1>1. EventTypesOK
  <2>1. <<>> \in Seq(Events) /\ "none" \in Codes
    BY DEF Codes
  <2>2. QED
    BY <2>1 DEF Init, EventTypesOK, NoCommand, Clients
<1>2. SpoolInv
  <2>1. SpoolHolds(<<>>, Len(<<>>), 0) /\ Len(<<>>) \in Nat /\ 0 \in Nat
    BY EmptySpool
  <2>2. \E m, n \in Nat : SpoolHolds(<<>>, m, n)
    BY <2>1
  <2>3. spool = <<>> /\ worker.thread = "none" /\ ~IsActive(disk)
    BY DEF Init, Down, Nothing, IsActive
  <2>4. QED
    BY <2>2, <2>3 DEF SpoolInv, Works
<1>3. StreamInv
  BY DEF Init, NoCommand, StreamInv, InStep
<1>4. QED
  BY <1>1, <1>2, <1>3 DEF Transcript

LEMMA NextTranscript == TranscriptInv /\ [Next]_vars => TranscriptInv'
<1> SUFFICES ASSUME WorkerInv, Transcript, [Next]_vars PROVE Transcript'
  BY NextWorker DEF TranscriptInv, Transcript
<1>1. CASE UNCHANGED vars \/ (\E g \in Groups : Execute(g) \/ GiveUp(g) \/ Write(g) \/ Exit(g))
           \/ Crash \/ Idle \/ Leave \/ KillWorker
           \/ Spawn \/ Record \/ Release \/ CollectFails \/ Stop \/ Terminate
           \/ (\E request \in interrupts : HandleInterrupt(request) \/ SignalInterrupt(request))
  BY <1>1, RestsTranscript
<1>2. CASE CleanUp \/ CutAccept
  BY <1>2, ClearsTranscript
<1>3. CASE Accept \/ AcceptFails
  BY <1>3, AcceptsTranscript
<1>4. CASE Start \/ CutStart
  BY <1>4, StartTranscript, CutStartTranscript
<1>5. CASE Collect
  BY <1>5, CollectTranscript
<1>6. CASE Monitor \/ SpawnFails \/ DispatchFails \/ MonitorFails \/ CutMonitor
  BY <1>6, FinishTranscript, MonitorFailsTranscript
<1>7. CASE Refuse \/ Subscribe
  BY <1>7, AnswersTranscript
<1>8. CASE Ask \/ ReplaceLeader \/ AskAgain \/ StreamEnds \/ Interrupt
  BY <1>8, AsksTranscript
<1>9. CASE Read
  BY <1>9, ReadTranscript
<1>10. QED
  BY <1>1, <1>2, <1>3, <1>4, <1>5, <1>6, <1>7, <1>8, <1>9 DEF Next, Serve, Dispatch, Fault

(* No output of a command is skipped without notice: what the client reads *)
(* next is what it read last and one more, or what a gap announced.        *)
THEOREM NothingIsMissed == Spec => []NoSilentLoss
<1>1. Spec => []TranscriptInv
  BY InitTranscript, NextTranscript, PTL DEF Spec
<1>2. TranscriptInv => NoSilentLoss
  BY DEF TranscriptInv, StreamInv, NoSilentLoss
<1>3. QED
  BY <1>1, <1>2, PTL

-----------------------------------------------------------------------------
(* How commands end *)

Exited(c) == \E g \in Groups : child[g].id = c /\ child[g].code = "exited"

\* Its process is gone and did nothing, and no other will come.
NeverBegan(c) ==
  /\ \A g \in Groups : child[g].id = c => child[g].state = "ended" /\ ~child[g].began
  /\ worker.thread = "stored" => worker.memory.id # c
  /\ stop # "done" => c <= disk.high

\* Which command may be said to have ended with which code.
Truths ==
  {t \in Nat \X Codes : /\ t[2] = "exited" => Exited(t[1])
                        /\ t[2] = "failed" => NeverBegan(t[1])}

\* What events tell of the end of c is among the truths.
Tells(events, c, truths) ==
  \A k \in 1 .. Len(events) : events[k].kind = "completed" => <<c, events[k].code>> \in truths

\* A process has a code when it has ended, and its gate holds it until then.
CodesInv ==
  /\ \A g \in Groups :
       child[g].code # "failed" /\ (child[g].state # "ended" => child[g].code = "none")
  /\ worker.thread \in {"spawned", "recorded"} => ~child[Mine].began /\ worker.memory.id \notin gate
  /\ worker.thread # "none" => disk.id = worker.memory.id

\* A client that listens has the command that the worker has.
Listens == client.phase = "live" /\ client.open => worker.up /\ client.id = worker.memory.id

TruthInv ==
  /\ Tells(spool, disk.id, Truths)
  /\ worker.up => Tells(spool, worker.memory.id, Truths)
  /\ client.phase = "live" => Tells(client.stream, client.id, Truths)
  /\ \A c \in Commands : <<c, outcome[c]>> \in Truths

(***************************************************************************)
(* What a step may not do: change how a process ended, spawn one of a      *)
(* command that no thread has, or take a command that was taken before.    *)
(***************************************************************************)
Steady ==
  /\ \A g \in Groups :
       /\ g \in Groups' /\ child'[g].id = child[g].id
       /\ child[g].state = "ended" =>
            /\ child'[g].state = "ended" /\ child'[g].began = child[g].began
            /\ child'[g].code = child[g].code
  /\ \A g \in Groups' \ Groups : worker.thread = "stored" /\ child'[g].id = worker.memory.id
  /\ worker'.thread = "stored" =>
       \/ worker.thread = "stored" /\ worker'.memory.id = worker.memory.id
       \/ stop # "done" /\ worker'.memory.id \in Nat /\ disk.high \in Nat /\ worker'.memory.id > disk.high
  /\ stop' # "done" => stop # "done" /\ {disk.high, disk'.high} \subseteq Nat /\ disk.high <= disk'.high

(* What was true of an end stays true. *)
LEMMA TruthsStay ==
  ASSUME CodesInv, Steady
  PROVE  Truths \subseteq Truths'
<1> SUFFICES ASSUME NEW t \in Nat \X Codes,
                    t[2] = "exited" => Exited(t[1]), t[2] = "failed" => NeverBegan(t[1])
             PROVE  /\ t[2] = "exited" => Exited(t[1])'
                    /\ t[2] = "failed" => NeverBegan(t[1])'
  BY DEF Truths
<1> DEFINE c == t[1]
<1>0. c \in Nat
  OBVIOUS
<1>1. ASSUME Exited(c) PROVE \E g \in Groups' : child'[g].id = c /\ child'[g].code = "exited"
  <2>1. PICK g \in Groups : child[g].id = c /\ child[g].code = "exited"
    BY <1>1 DEF Exited
  <2>2. child[g].state = "ended"
    BY <2>1 DEF CodesInv
  <2>3. QED
    BY <2>1, <2>2 DEF Steady
<1>2. ASSUME NeverBegan(c)
      PROVE  /\ \A g \in Groups' : child'[g].id = c => child'[g].state = "ended" /\ ~child'[g].began
             /\ worker'.thread = "stored" => worker'.memory.id # c
             /\ stop' # "done" => c <= disk'.high
  <2> HIDE DEF c
  <2>1. ASSUME NEW g \in Groups', child'[g].id = c PROVE child'[g].state = "ended" /\ ~child'[g].began
    BY <1>2, <2>1 DEF NeverBegan, Steady
  <2>2. ASSUME worker'.thread = "stored" PROVE worker'.memory.id # c
    BY <1>0, <1>2, <2>2 DEF NeverBegan, Steady
  <2>3. ASSUME stop' # "done" PROVE c <= disk'.high
    BY <1>0, <1>2, <2>3 DEF NeverBegan, Steady
  <2>4. QED
    BY <2>1, <2>2, <2>3
<1>3. QED
  BY <1>1, <1>2 DEF Exited, NeverBegan

(* How one process goes on: it may begin when its gate is open, and ends   *)
(* with a code.                                                            *)
Proceeds(old, new) ==
  /\ new.id = old.id
  /\ \/ new.state = old.state /\ new.code = old.code
     \/ old.state # "ended" /\ new.state = "running" /\ new.code = old.code
     \/ old.state # "ended" /\ new.state = "ended" /\ new.code # "failed"
  /\ new.began = old.began \/ (old.state = "gated" /\ old.id \in gate)

AllProceed == Groups' = Groups /\ \A g \in Groups : Proceeds(child[g], child'[g])

\* The thread goes on with its command, or is gone.
ThreadProceeds ==
  worker'.thread # "none" =>
    /\ worker'.memory.id = worker.memory.id /\ worker.thread # "none"
    /\ worker'.thread = "stored" => worker.thread = "stored"
    /\ worker'.thread \in {"spawned", "recorded"} =>
         worker.thread \in {"spawned", "recorded"} /\ gate' \subseteq gate
    /\ disk'.id = disk.id \/ disk'.id = worker.memory.id

HighStays == stop' # "done" => stop # "done" /\ {disk.high, disk'.high} \subseteq Nat /\ disk.high <= disk'.high

(* Steps that spawn nothing and take no command. *)
LEMMA ProceedsSteady ==
  ASSUME WorkerInv, CodesInv, AllProceed, ThreadProceeds, HighStays, Mine' = Mine
  PROVE  CodesInv' /\ Steady
<1>1. ASSUME NEW g \in Groups PROVE Proceeds(child[g], child'[g])
  BY DEF AllProceed
<1>2. Steady
  <2>1. ASSUME NEW g \in Groups
        PROVE  /\ g \in Groups' /\ child'[g].id = child[g].id
               /\ child[g].state = "ended" =>
                    /\ child'[g].state = "ended" /\ child'[g].began = child[g].began
                    /\ child'[g].code = child[g].code
    BY <1>1 DEF AllProceed, Proceeds
  <2>2. Groups' = Groups
    BY DEF AllProceed
  <2>3. worker'.thread = "stored" => worker.thread = "stored" /\ worker'.memory.id = worker.memory.id
    BY DEF ThreadProceeds
  <2>4. QED
    BY <2>1, <2>2, <2>3 DEF Steady, HighStays
<1>3. ASSUME NEW g \in Groups'
      PROVE  child'[g].code # "failed" /\ (child'[g].state # "ended" => child'[g].code = "none")
  <2>1. g \in Groups
    BY DEF AllProceed
  <2>2. QED
    BY <1>1, <2>1 DEF CodesInv, Proceeds
<1>4. ASSUME worker'.thread \in {"spawned", "recorded"}
      PROVE  ~child'[Mine].began /\ worker'.memory.id \notin gate'
  <2>1. /\ worker.thread \in {"spawned", "recorded"} /\ gate' \subseteq gate
        /\ worker'.memory.id = worker.memory.id
    BY <1>4 DEF ThreadProceeds
  <2>2. Mine \in Groups /\ child[Mine].id = worker.memory.id /\ ~child[Mine].began /\ worker.memory.id \notin gate
    BY <2>1 DEF WorkerInv, ThreadKnows, CodesInv
  <2>3. Proceeds(child[Mine], child'[Mine])
    BY <1>1, <2>2
  <2>4. QED
    BY <2>1, <2>2, <2>3 DEF Proceeds
<1>5. worker'.thread # "none" => disk'.id = worker'.memory.id
  BY DEF ThreadProceeds, CodesInv
<1>6. QED
  BY <1>2, <1>3, <1>4, <1>5 DEF CodesInv

LEMMA OneProceeds ==
  ASSUME WorkerInv, NEW g \in Groups, NEW new, child' = [child EXCEPT ![g] = new],
         Proceeds(child[g], new)
  PROVE  AllProceed /\ Mine' = Mine
<1>1. child \in Seq(Process) /\ Groups = DOMAIN child
  BY DEF WorkerInv, Types, Groups
<1>2. DOMAIN child' = DOMAIN child /\ Len(child') = Len(child)
  BY <1>1
<1>3. \A h \in Groups : child'[h] = IF h = g THEN new ELSE child[h]
  BY <1>1
<1>4. \A h \in Groups : Proceeds(child[h], child'[h])
  BY <1>3 DEF Proceeds
<1>5. QED
  BY <1>1, <1>2, <1>4 DEF AllProceed, Groups, Mine

LEMMA NoneProceeds ==
  ASSUME WorkerInv, child' = child
  PROVE  AllProceed /\ Mine' = Mine
BY DEF AllProceed, Proceeds, Groups, Mine

LEMMA KilledProceeds ==
  ASSUME WorkerInv, NEW g, child' = Killed(g)
  PROVE  AllProceed /\ Mine' = Mine
<1>1. CASE ~IsAlive(g)
  BY <1>1, NoneProceeds DEF Killed
<1>2. CASE IsAlive(g)
  <2> DEFINE new == [child[g] EXCEPT !.state = "ended", !.code = "killed"]
  <2>1. g \in Groups /\ child[g] \in Process /\ child[g].state # "ended" /\ child \in Seq(Process)
    BY <1>2 DEF IsAlive, WorkerInv, Types, Groups
  <2>2. child' = [child EXCEPT ![g] = new]
    BY <1>2, <2>1 DEF Killed
  <2>3. Proceeds(child[g], new)
    BY <2>1 DEF Proceeds, Process
  <2> HIDE DEF new
  <2>4. QED
    BY <2>1, <2>2, <2>3, OneProceeds
<1>3. QED
  BY <1>1, <1>2

(* What a process does. *)
LEMMA ProcessProceeds ==
  ASSUME WorkerInv, NEW g \in Groups, Execute(g) \/ GiveUp(g) \/ Write(g) \/ Exit(g)
  PROVE  AllProceed /\ Mine' = Mine
<1>1. child[g] \in Process /\ child \in Seq(Process)
  BY DEF WorkerInv, Types, Groups
<1>2. CASE Execute(g)
  <2> DEFINE new == [child[g] EXCEPT !.state = "running", !.began = TRUE]
  <2>1. child' = [child EXCEPT ![g] = new] /\ child[g].state = "gated" /\ child[g].id \in gate
    BY <1>1, <1>2 DEF Execute
  <2>2. Proceeds(child[g], new)
    BY <1>1, <2>1 DEF Proceeds, Process
  <2> HIDE DEF new
  <2>3. QED
    BY <2>1, <2>2, OneProceeds
<1>3. CASE GiveUp(g)
  <2> DEFINE new == [child[g] EXCEPT !.state = "ended", !.code = "unknown"]
  <2>1. child' = [child EXCEPT ![g] = new] /\ child[g].state = "gated"
    BY <1>1, <1>3 DEF GiveUp
  <2>2. Proceeds(child[g], new)
    BY <1>1, <2>1 DEF Proceeds, Process
  <2> HIDE DEF new
  <2>3. QED
    BY <2>1, <2>2, OneProceeds
<1>4. CASE Exit(g)
  <2> DEFINE new == [child[g] EXCEPT !.state = "ended", !.code = "exited"]
  <2>1. child' = [child EXCEPT ![g] = new] /\ child[g].state = "running"
    BY <1>1, <1>4 DEF Exit
  <2>2. Proceeds(child[g], new)
    BY <1>1, <2>1 DEF Proceeds, Process
  <2> HIDE DEF new
  <2>3. QED
    BY <2>1, <2>2, OneProceeds
<1>5. CASE Write(g)
  <2> DEFINE more == child[g].written + 1
             new == [child[g] EXCEPT !.written = more]
  <2>1. child' = [child EXCEPT ![g] = new]
    BY <1>1, <1>5 DEF Write
  <2> HIDE DEF more
  <2>2. Proceeds(child[g], new)
    BY <1>1 DEF Proceeds, Process
  <2> HIDE DEF new
  <2>3. QED
    BY <2>1, <2>2, OneProceeds
<1>6. QED
  BY <1>2, <1>3, <1>4, <1>5

(* The output of a process is taken. *)
LEMMA CollectProceeds ==
  ASSUME WorkerInv, Collect
  PROVE  AllProceed /\ Mine' = Mine
<1> DEFINE more == child[Mine].taken + 1
           new == [child[Mine] EXCEPT !.taken = more]
<1>1. Mine \in Groups /\ child \in Seq(Process)
  BY DEF Collect, WorkerInv, ThreadKnows, Types
<1>2. child[Mine] \in Process
  BY <1>1 DEF Groups
<1>3. child' = [child EXCEPT ![Mine] = new]
  BY <1>1, <1>2 DEF Collect
<1> HIDE DEF more
<1>4. Proceeds(child[Mine], new)
  BY <1>2 DEF Proceeds, Process
<1> HIDE DEF new
<1>5. QED
  BY <1>1, <1>3, <1>4, OneProceeds

\* The steps that neither take a command nor spawn.
Others ==
  \/ UNCHANGED vars
  \/ \E g \in Groups : Execute(g) \/ GiveUp(g) \/ Write(g) \/ Exit(g)
  \/ Crash \/ Idle \/ Leave \/ KillWorker \/ CleanUp \/ CutAccept \/ CutMonitor
  \/ Record \/ Release \/ CollectFails \/ Stop \/ Terminate
  \/ \E request \in interrupts : HandleInterrupt(request) \/ SignalInterrupt(request)
  \/ AcceptFails \/ Start \/ CutStart \/ Collect \/ Monitor \/ MonitorFails \/ SpawnFails \/ DispatchFails
  \/ Refuse \/ Subscribe \/ Ask \/ ReplaceLeader \/ AskAgain \/ StreamEnds \/ Interrupt \/ Read

LEMMA OthersProceed ==
  ASSUME WorkerInv, Others
  PROVE  AllProceed /\ Mine' = Mine
<1>1. CASE child' = child
  BY <1>1, NoneProceeds
<1>2. CASE \E g : child' = Killed(g)
  BY <1>2, KilledProceeds
<1>3. CASE \E g \in Groups : Execute(g) \/ GiveUp(g) \/ Write(g) \/ Exit(g)
  BY <1>3, ProcessProceeds
<1>4. CASE Collect
  BY <1>4, CollectProceeds
<1>5. QED
  BY <1>1, <1>2, <1>3, <1>4 DEF Others, vars, Crash, Idle, Leave, KillWorker, CleanUp, CutAccept,
     CutMonitor, Record, Release, CollectFails, Stop, Terminate, HandleInterrupt, SignalInterrupt,
     AcceptFails, Start, CutStart, Monitor, MonitorFails, SpawnFails, DispatchFails, Refuse, Subscribe,
     Ask, ReplaceLeader, AskAgain, StreamEnds, Interrupt, Read

(* They leave the thread its command, or end it. *)
LEMMA OthersKeepThread ==
  ASSUME WorkerInv, Others
  PROVE  ThreadProceeds /\ HighStays
<1>1. /\ worker \in Workers /\ worker.memory \in Records /\ disk \in Records /\ disk.high \in Nat
      /\ worker.memory.high \in Nat
  BY WorkerFields DEF Records
<1>2. HighStays
  <2>1. CASE disk' = disk /\ stop' \in {stop, "asked"} /\ (stop' = "asked" => stop # "done")
    BY <1>1, <2>1 DEF HighStays
  <2>2. CASE CleanUp
    BY <2>2 DEF CleanUp, HighStays
  <2>3. CASE Start
    <3>1. disk' = Recovered(disk) /\ stop' = stop /\ Recovered(disk).high = disk.high
      BY <1>1, <2>3, FinishedIsRecord DEF Start, Recovered
    <3>2. QED
      BY <1>1, <3>1 DEF HighStays
  <2>4. CASE Record
    <3> DEFINE new == [worker.memory EXCEPT !.status = "running", !.group = Mine]
    <3>1. new.high = worker.memory.high
      BY <1>1 DEF Records
    <3>2. disk' = new /\ stop' = stop /\ worker.up
      BY <2>4 DEF Record
    <3> HIDE DEF new
    <3>3. QED
      BY <1>1, <3>1, <3>2 DEF HighStays, WorkerInv, WorkerKnows
  <2>5. CASE Monitor \/ SpawnFails \/ DispatchFails
    <3>1. disk' = Finished(worker.memory) /\ stop' = stop /\ worker.up
      BY <2>5 DEF Monitor, IsDone, SpawnFails, DispatchFails, Finish
    <3>2. Finished(worker.memory).high = worker.memory.high
      BY <1>1, FinishedIsRecord
    <3>3. QED
      BY <1>1, <3>1, <3>2 DEF HighStays, WorkerInv, WorkerKnows
  <2>6. CASE Stop
    BY <1>1, <2>6 DEF Stop, HighStays
  <2>7. CASE ~(CleanUp \/ Start \/ Record \/ Monitor \/ SpawnFails \/ DispatchFails \/ Stop)
    <3>1. disk' = disk /\ stop' = stop
      BY <2>7 DEF Others, vars, Execute, GiveUp, Write, Exit, Crash, Idle, Leave, KillWorker, CutAccept,
         CutMonitor, Release, CollectFails, Terminate, HandleInterrupt, SignalInterrupt,
         AcceptFails, CutStart, MonitorFails, Collect, Refuse, Subscribe, Ask, ReplaceLeader, AskAgain, StreamEnds, Interrupt, Read
    <3>2. QED
      BY <1>1, <3>1 DEF HighStays
  <2>8. QED
    BY <2>2, <2>3, <2>4, <2>5, <2>6, <2>7
<1>3. ThreadProceeds
  <2>1. CASE worker' = worker /\ disk' = disk /\ gate' \subseteq gate
    BY <2>1 DEF ThreadProceeds
  <2>2. CASE worker'.thread = "none"
    BY <2>2 DEF ThreadProceeds
  <2>3. CASE Start
    BY <2>2, <2>3 DEF Start, Down
  <2>4. CASE worker' = Down
    BY <2>2, <2>4 DEF Down
  <2>5. CASE Record
    <3> DEFINE new == [worker.memory EXCEPT !.status = "running", !.group = Mine]
    <3>1. new.id = worker.memory.id
      BY <1>1 DEF Records
    <3>2. /\ disk' = new /\ gate' = gate /\ worker.thread = "spawned"
          /\ worker' = [worker EXCEPT !.memory = new, !.thread = "recorded"]
      BY <2>5 DEF Record
    <3> HIDE DEF new
    <3>3. worker'.memory = new /\ worker'.thread = "recorded"
      BY <1>1, <3>2 DEF Workers
    <3>4. QED
      BY <3>1, <3>2, <3>3 DEF ThreadProceeds
  <2>6. CASE Release
    BY <1>1, <2>6 DEF Release, ThreadProceeds, Workers
  <2>7. CASE Collect
    <3> DEFINE new == [worker.memory EXCEPT !.sequence = @ + 1]
    <3>1. new.id = worker.memory.id
      BY <1>1, RecordCounts
    <3>2. worker' = [worker EXCEPT !.memory = new] /\ disk' = disk /\ worker.thread = "released"
      BY <1>1, <2>7 DEF Collect, Workers
    <3> HIDE DEF new
    <3>3. worker'.memory = new /\ worker'.thread = "released"
      BY <1>1, <3>2 DEF Workers
    <3>4. QED
      BY <3>1, <3>2, <3>3 DEF ThreadProceeds
  <2>8. CASE CollectFails
    <3> DEFINE new == [worker.memory EXCEPT !.sequence = @ + 1]
    <3>1. worker' = [worker EXCEPT !.memory = new, !.thread = "none"]
      BY <1>1, <2>8 DEF CollectFails, Workers
    <3> HIDE DEF new
    <3>2. worker'.thread = "none"
      BY <1>1, <3>1 DEF Workers
    <3>3. QED
      BY <2>2, <3>2
  <2>9. CASE Monitor \/ MonitorFails \/ SpawnFails \/ DispatchFails
    <3> DEFINE new == Finished(worker.memory)
    <3>1. worker' = [worker EXCEPT !.memory = new, !.override = FALSE, !.thread = "none"]
      BY <1>1, <2>9 DEF Monitor, MonitorFails, SpawnFails, DispatchFails, Finish, Workers
    <3> HIDE DEF new
    <3>2. worker'.thread = "none"
      BY <1>1, <3>1 DEF Workers
    <3>3. QED
      BY <2>2, <3>2
  <2>10. CASE AcceptFails
    <3> DEFINE new == Dispatching(client.id)
    <3>1. worker.thread = "none"
      BY <2>10 DEF AcceptFails, IsNew, IsRefused, WorkerInv, ThreadKnows
    <3>2. worker' = [worker EXCEPT !.memory = new]
      BY <2>10 DEF AcceptFails
    <3> HIDE DEF new
    <3>3. worker'.thread = "none"
      BY <1>1, <3>1, <3>2 DEF Workers
    <3>4. QED
      BY <2>2, <3>3
  <2>11. CASE Stop \/ Terminate \/ \E request \in interrupts : HandleInterrupt(request) \/ SignalInterrupt(request)
    <3>1. /\ disk' = disk /\ gate' = gate /\ worker'.memory = worker.memory
          /\ worker'.thread = worker.thread
      BY <1>1, <2>11 DEF Stop, Terminate, HandleInterrupt, SignalInterrupt, Workers
    <3>2. QED
      BY <3>1 DEF ThreadProceeds
  <2>12. CASE CleanUp
    <3>1. worker' = worker /\ worker.thread = "none"
      BY <2>12 DEF CleanUp, WorkerInv, ThreadKnows
    <3>2. QED
      BY <2>2, <3>1
  <2>13. CASE Crash \/ Idle \/ Leave \/ KillWorker \/ CutAccept \/ CutMonitor
    BY <2>4, <2>13 DEF Crash, Idle, Leave, KillWorker, CutAccept, CutMonitor
  <2>14. CASE \/ UNCHANGED vars \/ CutStart \/ \E g \in Groups : Execute(g) \/ GiveUp(g) \/ Write(g) \/ Exit(g)
              \/ Refuse \/ Subscribe \/ Ask \/ ReplaceLeader \/ AskAgain \/ StreamEnds \/ Interrupt \/ Read
    <3>1. worker' = worker /\ disk' = disk /\ gate' = gate
      BY <2>14 DEF vars, CutStart, Execute, GiveUp, Write, Exit, Refuse, Subscribe, Ask, ReplaceLeader, AskAgain,
         StreamEnds, Interrupt, Read
    <3>2. QED
      BY <2>1, <3>1
  <2>15. QED
    BY <2>3, <2>5, <2>6, <2>7, <2>8, <2>9, <2>10, <2>11, <2>12, <2>13, <2>14 DEF Others
<1>4. QED
  BY <1>2, <1>3

(* A command is taken that is new, and spawned once. *)
LEMMA TakingIsSteady ==
  ASSUME WorkerInv, CodesInv, Accept \/ Spawn
  PROVE  CodesInv' /\ Steady
<1>1. /\ worker \in Workers /\ worker.memory \in Records /\ disk \in Records /\ disk.high \in Nat
      /\ worker.memory.high \in Nat /\ child \in Seq(Process) /\ worker.up /\ Groups = DOMAIN child
  BY WorkerFields DEF Records, WorkerInv, Types, Accept, Spawn, Groups
<1>2. stop # "done" /\ disk.high <= worker.memory.high /\ stop' = stop
  BY <1>1 DEF WorkerInv, WorkerKnows, Accept, Spawn
<1>3. CASE Accept
  <2> DEFINE new == Dispatching(client.id)
  <2>1. client.id \in Nat /\ client.id > worker.memory.high
    <3>1. client.id \in Nat /\ ~(client.id <= worker.memory.high)
      BY <1>3 DEF Accept, IsNew, IsRefused, WorkerInv, Types, Identified
    <3>2. QED
      BY <1>1, <3>1
  <2>2. new.high = client.id /\ new.id = client.id
    BY <2>1 DEF Dispatching
  <2>3. disk' = new /\ child' = child /\ worker' = [worker EXCEPT !.memory = new, !.thread = "stored"]
    BY <1>3 DEF Accept
  <2> HIDE DEF new
  <2>4. worker'.memory = new /\ worker'.thread = "stored"
    BY <1>1, <2>3 DEF Workers
  <2>5. Groups' = Groups
    BY <2>3 DEF Groups
  <2>6. CodesInv'
    BY <2>2, <2>3, <2>4, <2>5 DEF CodesInv
  <2>7. Steady
    <3>1. client.id > disk.high /\ disk.high <= client.id
      BY <1>1, <1>2, <2>1
    <3>2. QED
      BY <1>1, <1>2, <2>1, <2>2, <2>3, <2>4, <2>5, <3>1 DEF Steady
  <2>8. QED
    BY <2>6, <2>7
<1>4. CASE Spawn
  <2> DEFINE new == [id |-> worker.memory.id, state |-> "gated", began |-> FALSE,
                     written |-> 0, taken |-> 0, code |-> "none"]
             next == Append(child, new)
  <2>1. /\ child' = next /\ gate' = gate \ {worker.memory.id} /\ disk' = disk
        /\ worker' = [worker EXCEPT !.thread = "spawned"] /\ worker.thread = "stored"
    BY <1>4 DEF Spawn
  <2>2. new.id = worker.memory.id /\ new.state = "gated" /\ ~new.began /\ new.code = "none"
    OBVIOUS
  <2> HIDE DEF new
  <2>3. /\ Len(next) = Len(child) + 1 /\ next[Len(child) + 1] = new
        /\ DOMAIN next = DOMAIN child \cup {Len(child) + 1}
        /\ \A g \in DOMAIN child : next[g] = child[g]
    BY <1>1
  <2> HIDE DEF next
  <2>4. worker'.memory = worker.memory /\ worker'.thread = "spawned"
    BY <1>1, <2>1 DEF Workers
  <2>5. /\ Groups' = Groups \cup {Len(child) + 1} /\ Mine' = Len(child) + 1
        /\ \A g \in Groups : child'[g] = child[g]
        /\ child'[Len(child) + 1] = new
    BY <1>1, <2>1, <2>3 DEF Groups, Mine
  <2>6. CodesInv'
    <3>1. ASSUME NEW g \in Groups'
          PROVE  child'[g].code # "failed" /\ (child'[g].state # "ended" => child'[g].code = "none")
      <4>1. CASE g \in Groups
        BY <2>5, <4>1 DEF CodesInv
      <4>2. CASE g = Len(child) + 1
        BY <2>2, <2>5, <4>2
      <4>3. QED
        BY <2>5, <4>1, <4>2
    <3>2. ~child'[Len(child) + 1].began /\ worker'.memory.id \notin gate'
      BY <2>1, <2>2, <2>4, <2>5
    <3>3. disk'.id = worker'.memory.id
      BY <2>1, <2>4 DEF CodesInv
    <3>4. QED
      BY <2>5, <3>1, <3>2, <3>3 DEF CodesInv
  <2>7. Steady
    <3>1. \A g \in Groups : g \in Groups' /\ child'[g] = child[g]
      BY <2>5
    <3>2. \A g \in Groups' \ Groups : child'[g].id = worker.memory.id
      BY <2>2, <2>5
    <3>3. {disk.high, disk'.high} \subseteq Nat /\ disk.high <= disk'.high
      BY <1>1, <2>1
    <3>4. QED
      BY <1>2, <2>1, <2>4, <3>1, <3>2, <3>3 DEF Steady
  <2>8. QED
    BY <2>6, <2>7
<1>5. QED
  BY <1>3, <1>4

LEMMA AlwaysSteady ==
  ASSUME WorkerInv, CodesInv, [Next]_vars
  PROVE  CodesInv' /\ Steady /\ Truths \subseteq Truths'
<1>1. Others \/ Accept \/ Spawn
  BY DEF Next, Serve, Dispatch, Fault, Others
<1>2. CodesInv' /\ Steady
  <2>1. CASE Others
    BY <2>1, OthersProceed, OthersKeepThread, ProceedsSteady
  <2>2. CASE Accept \/ Spawn
    BY <2>2, TakingIsSteady
  <2>3. QED
    BY <1>1, <2>1, <2>2
<1>3. QED
  BY <1>2, TruthsStay

(* The command of the worker changes when one is taken or a worker starts. *)
LEMMA WorkerIdentity ==
  ASSUME WorkerInv, [Next]_vars
  PROVE  \/ Accept \/ AcceptFails \/ Start
         \/ worker' = Down
         \/ worker'.up = worker.up /\ worker'.memory.id = worker.memory.id
<1>1. worker \in Workers /\ worker.memory \in Records
  BY WorkerFields
<1> DEFINE more == [worker.memory EXCEPT !.sequence = @ + 1]
           recorded == [worker.memory EXCEPT !.status = "running", !.group = Mine]
           done == Finished(worker.memory)
<1>2. more.id = worker.memory.id /\ recorded.id = worker.memory.id /\ done.id = worker.memory.id
  BY <1>1, RecordCounts DEF Records, Finished
<1>3. CASE Collect
  <2>1. worker' = [worker EXCEPT !.memory = more]
    BY <1>1, <1>3 DEF Collect, Workers
  <2> HIDE DEF more
  <2>2. QED
    BY <1>1, <1>2, <2>1 DEF Workers
<1>4. CASE CollectFails
  <2>1. worker' = [worker EXCEPT !.memory = more, !.thread = "none"]
    BY <1>1, <1>4 DEF CollectFails, Workers
  <2> HIDE DEF more
  <2>2. QED
    BY <1>1, <1>2, <2>1 DEF Workers
<1>5. CASE Record
  <2>1. worker' = [worker EXCEPT !.memory = recorded, !.thread = "recorded"]
    BY <1>5 DEF Record
  <2> HIDE DEF recorded
  <2>2. QED
    BY <1>1, <1>2, <2>1 DEF Workers
<1>6. CASE Monitor \/ MonitorFails \/ SpawnFails \/ DispatchFails
  <2>1. worker' = [worker EXCEPT !.memory = done, !.override = FALSE, !.thread = "none"]
    BY <1>1, <1>6 DEF Monitor, MonitorFails, SpawnFails, DispatchFails, Finish, Workers
  <2> HIDE DEF done
  <2>2. QED
    BY <1>1, <1>2, <2>1 DEF Workers
<1>7. CASE Spawn \/ Release \/ Stop \/ Terminate
           \/ \E request \in interrupts : HandleInterrupt(request) \/ SignalInterrupt(request)
  BY <1>1, <1>7 DEF Spawn, Release, Stop, Terminate, HandleInterrupt, SignalInterrupt, Workers
<1>8. CASE Crash \/ Idle \/ Leave \/ KillWorker \/ CutAccept \/ CutMonitor
  BY <1>8 DEF Crash, Idle, Leave, KillWorker, CutAccept, CutMonitor
<1>9. CASE \/ UNCHANGED vars \/ CleanUp \/ CutStart
           \/ \E g \in Groups : Execute(g) \/ GiveUp(g) \/ Write(g) \/ Exit(g)
           \/ Refuse \/ Subscribe \/ Ask \/ ReplaceLeader \/ AskAgain \/ StreamEnds \/ Interrupt \/ Read
  <2>1. worker' = worker
    BY <1>9 DEF vars, CleanUp, CutStart, Execute, GiveUp, Write, Exit, Refuse, Subscribe, Ask, ReplaceLeader,
       AskAgain, StreamEnds, Interrupt, Read
  <2>2. QED
    BY <2>1
<1>10. QED
  BY <1>3, <1>4, <1>5, <1>6, <1>7, <1>8, <1>9 DEF Next, Serve, Dispatch, Fault

Listening(c) == c.phase = "live" /\ c.open

LEMMA GetsListening ==
  ASSUME NEW c, NEW new, NEW event, Gets(new, c, event), Listening(new)
  PROVE  Listening(c) /\ new.id = c.id
BY DEF Gets, Listening

(* The client begins to listen when it is answered, and stops when the     *)
(* worker is gone.                                                         *)
LEMMA ListeningGoesOn ==
  ASSUME WorkerInv, Transcript, [Next]_vars, Listening(client')
  PROVE  Subscribe \/ Accept \/ (Listening(client) /\ client'.id = client.id /\ (worker.up => worker' # Down))
<1>1. client \in Clients
  BY DEF Transcript, EventTypesOK
<1>2. ASSUME NEW c \in Clients PROVE ~Listening(Closed(c))
  BY ClosedClient DEF Listening
<1>3. CASE Crash \/ Leave \/ KillWorker \/ CutAccept
  BY <1>1, <1>2, <1>3 DEF Crash, Leave, KillWorker, CutAccept
<1>4. CASE Idle
  BY <1>4 DEF Idle, Listening
<1>5. CASE Monitor \/ SpawnFails \/ DispatchFails \/ CutMonitor
  <2> DEFINE code == IF Monitor \/ CutMonitor THEN ExitCode ELSE "failed"
             end == Completion(worker.memory, code)
  <2>1. /\ Works /\ (Monitor \/ CutMonitor => worker.thread = "released")
        /\ worker.up
    BY <1>5 DEF Monitor, CutMonitor, IsDone, SpawnFails, DispatchFails, Works
  <2>2. code \in Codes
    BY <2>1, ExitCodes DEF Codes
  <2>3. CASE CutMonitor
    <3>1. client' = Closed(Notified(client, end))
      BY <2>3 DEF CutMonitor
    <3> HIDE DEF code
    <3>2. Notified(client, end) \in Clients
      BY <2>1, <2>2, EndsTranscript
    <3>3. QED
      BY <1>2, <3>1, <3>2
  <2>4. CASE ~CutMonitor
    <3>1. \E c \in {client, Notified(client, Error)} : client' = Notified(c, end)
      BY <1>5, <2>4 DEF Monitor, SpawnFails, DispatchFails, Finish
    <3>2. worker'.up
      <4> DEFINE done == Finished(worker.memory)
      <4>1. worker' = [worker EXCEPT !.memory = done, !.override = FALSE, !.thread = "none"]
        BY <1>5, <2>4 DEF Monitor, SpawnFails, DispatchFails, Finish
      <4> HIDE DEF done
      <4>2. QED
        BY <2>1, <4>1, WorkerFields DEF Workers
    <3> HIDE DEF code
    <3>3. /\ \A c \in {client, Notified(client, Error)} : Gets(Notified(c, end), c, end)
          /\ Gets(Notified(client, Error), client, Error)
      BY <2>1, <2>2, EndsTranscript
    <3>4. PICK c \in {client, Notified(client, Error)} : client' = Notified(c, end)
      BY <3>1
    <3>5. Listening(c) /\ client'.id = c.id
      BY <3>3, <3>4, GetsListening
    <3>6. Listening(client) /\ client'.id = client.id
      BY <3>3, <3>5, GetsListening
    <3>7. QED
      BY <3>2, <3>6 DEF Down
  <2>5. QED
    BY <2>3, <2>4
<1>6. CASE Collect
  <2>1. worker.memory.sequence + 1 \in Nat /\ client' = Notified(client, Output(worker.memory.sequence + 1))
    BY <1>6, WorkerFields DEF Collect
  <2>2. Output(worker.memory.sequence + 1) \in Events
    BY <2>1 DEF Output, Events
  <2>3. Listening(client) /\ client'.id = client.id
    BY <1>1, <2>1, <2>2, NotifiedGets, GetsListening
  <2>4. worker'.up
    BY <1>6, WorkerFields DEF Collect, Workers
  <2>5. QED
    BY <2>3, <2>4 DEF Down
<1>7. CASE Refuse \/ AcceptFails
  <2>1. ASSUME NEW events PROVE ~Answered(events, FALSE).open
    BY <1>1 DEF Answered, Clients
  <2>2. QED
    BY <1>7, <2>1 DEF Refuse, AcceptFails, Listening
<1>8. CASE Ask \/ ReplaceLeader \/ AskAgain \/ StreamEnds
  <2>1. client'.phase # "live"
    BY <1>1, <1>8 DEF Ask, ReplaceLeader, AskAgain, StreamEnds, NoCommand, Clients
  <2>2. QED
    BY <2>1 DEF Listening
<1>9. CASE Interrupt
  <2>1. client'.phase = client.phase /\ client'.open = client.open /\ client'.id = client.id /\ worker' = worker
    BY <1>1, <1>9 DEF Interrupt, Clients
  <2>2. QED
    BY <2>1 DEF Listening, Down
<1>10. CASE Read
  <2>1. /\ client.phase = "live" /\ worker' = worker
        /\ client'.id = client.id /\ (client'.open => client.open)
    BY <1>1, <1>10 DEF Read, Clients
  <2>2. QED
    BY <2>1 DEF Listening, Down
<1>11. CASE Spawn \/ Record \/ Release \/ CollectFails \/ Stop \/ Terminate \/ Start \/ CleanUp
            \/ \E request \in interrupts : HandleInterrupt(request) \/ SignalInterrupt(request)
  <2>1. client' = client
    BY <1>11 DEF Spawn, Record, Release, CollectFails, Stop, Terminate, HandleInterrupt,
       SignalInterrupt, Start, CleanUp
  <2>2. worker.up => worker' # Down
    <3>1. CASE Stop
      <4>1. worker.up => worker'.up
        BY <3>1, WorkerFields DEF Stop, Workers
      <4>2. QED
        BY <4>1 DEF Down
    <3>2. CASE CleanUp
      BY <3>2 DEF CleanUp, Down
    <3>3. CASE Start
      BY <3>3 DEF Start, Down
    <3>4. CASE Record
      <4> DEFINE recorded == [worker.memory EXCEPT !.status = "running", !.group = Mine]
      <4>1. worker' = [worker EXCEPT !.memory = recorded, !.thread = "recorded"]
        BY <3>4 DEF Record
      <4> HIDE DEF recorded
      <4>2. worker'.up
        BY <3>4, <4>1, WorkerFields DEF Workers, Record
      <4>3. QED
        BY <4>2 DEF Down
    <3>5. CASE CollectFails
      <4> DEFINE more == [worker.memory EXCEPT !.sequence = @ + 1]
      <4>1. worker' = [worker EXCEPT !.memory = more, !.thread = "none"]
        BY <3>5, WorkerFields DEF CollectFails, Workers
      <4> HIDE DEF more
      <4>2. worker'.up
        BY <3>5, <4>1, WorkerFields DEF Workers, CollectFails
      <4>3. QED
        BY <4>2 DEF Down
    <3>6. CASE Spawn \/ Release \/ Terminate
               \/ \E request \in interrupts : HandleInterrupt(request) \/ SignalInterrupt(request)
      <4>1. worker'.up
        BY <3>6, WorkerFields DEF Spawn, Release, Terminate, HandleInterrupt, SignalInterrupt, Workers
      <4>2. QED
        BY <4>1 DEF Down
    <3>7. QED
      BY <1>11, <3>1, <3>2, <3>3, <3>4, <3>5, <3>6
  <2>3. QED
    BY <2>1, <2>2
<1>12. CASE UNCHANGED vars \/ CutStart \/ \E g \in Groups : Execute(g) \/ GiveUp(g) \/ Write(g) \/ Exit(g)
  <2>1. client' = client /\ worker' = worker /\ (CutStart => ~worker.up)
    BY <1>12 DEF vars, CutStart, CanStart, Execute, GiveUp, Write, Exit
  <2>2. QED
    BY <2>1 DEF Down
<1>13. CASE MonitorFails
  <2> DEFINE end == Completion(worker.memory, ExitCode)
             done == Finished(worker.memory)
  <2>1. /\ Works /\ worker.thread = "released" /\ worker.up
        /\ worker' = [worker EXCEPT !.memory = done, !.override = FALSE, !.thread = "none"]
        /\ client' = Notified(client, end) \/ client' = client
    BY <1>13, WorkerFields DEF MonitorFails, IsDone, Works, Workers
  <2>2. Gets(Notified(client, end), client, end)
    BY <2>1, ExitCodes, EndsTranscript
  <2> HIDE DEF end, done
  <2>3. worker'.up
    BY <2>1, WorkerFields DEF Workers
  <2>4. Listening(client) /\ client'.id = client.id
    BY <2>1, <2>2, GetsListening
  <2>5. QED
    BY <2>3, <2>4 DEF Down
<1>14. QED
  BY <1>3, <1>4, <1>5, <1>6, <1>7, <1>8, <1>9, <1>10, <1>11, <1>12, <1>13 DEF Next, Serve, Dispatch, Fault

(* A client listens to the worker that has its command. *)
LEMMA ListensStays ==
  ASSUME WorkerInv, Transcript, Listens, [Next]_vars
  PROVE  Listens'
<1> SUFFICES ASSUME Listening(client') PROVE worker'.up /\ client'.id = worker'.memory.id
  BY DEF Listens, Listening
<1>1. client \in Clients /\ worker \in Workers
  BY WorkerFields DEF Transcript, EventTypesOK
<1>2. CASE Subscribe
  <2>1. client'.id = client.id
    BY <1>1, <1>2 DEF Subscribe, Answered, Clients
  <2>2. QED
    BY <1>2, <2>1 DEF Subscribe, IsKnown
<1>3. CASE Accept
  <2> DEFINE new == Dispatching(client.id)
  <2>1. new.id = client.id /\ client'.id = client.id
    BY <1>1, <1>3 DEF Accept, Answered, Clients, Dispatching
  <2>2. worker' = [worker EXCEPT !.memory = new, !.thread = "stored"] /\ worker.up
    BY <1>3 DEF Accept
  <2> HIDE DEF new
  <2>3. QED
    BY <1>1, <2>1, <2>2 DEF Workers
<1>4. CASE ~Subscribe /\ ~Accept
  <2>1. Listening(client) /\ client'.id = client.id /\ (worker.up => worker' # Down)
    BY <1>4, ListeningGoesOn
  <2>2. worker.up /\ client.id = worker.memory.id
    BY <2>1 DEF Listens, Listening
  <2>3. ~AcceptFails /\ ~Start
    BY <2>1, <2>2 DEF AcceptFails, IsNew, Listening, Start, CanStart
  <2>4. QED
    BY <1>4, <2>1, <2>2, <2>3, WorkerIdentity
<1>5. QED
  BY <1>2, <1>3, <1>4

LEMMA TellsMore ==
  ASSUME NEW events, NEW c, NEW t, NEW u, Tells(events, c, t), t \subseteq u
  PROVE  Tells(events, c, u)
BY DEF Tells

LEMMA TellsNothing ==
  ASSUME NEW c, NEW t
  PROVE  Tells(<<>>, c, t)
BY DEF Tells

LEMMA TellsAppended ==
  ASSUME NEW events \in Seq(Events), NEW event, NEW c, NEW t, Tells(events, c, t),
         event.kind = "completed" => <<c, event.code>> \in t
  PROVE  Tells(Append(events, event), c, t)
<1> DEFINE new == Append(events, event)
<1>1. /\ Len(new) = Len(events) + 1 /\ new[Len(events) + 1] = event /\ Len(events) \in Nat
      /\ \A k \in 1 .. Len(events) : new[k] = events[k]
  OBVIOUS
<1> HIDE DEF new
<1>2. \A k \in 1 .. Len(new) : k \in 1 .. Len(events) \/ k = Len(events) + 1
  BY <1>1
<1>3. ASSUME NEW k \in 1 .. Len(new), new[k].kind = "completed" PROVE <<c, new[k].code>> \in t
  BY <1>1, <1>2, <1>3 DEF Tells
<1>4. Tells(new, c, t)
  BY <1>3 DEF Tells
<1>5. QED
  BY <1>4 DEF new

(* While a thread works, the spool has no end in it. *)
LEMMA OutputTellsNothing ==
  ASSUME NEW events \in Seq(Events), NEW n \in Nat, SpoolHolds(events, Len(events), n), NEW c, NEW t
  PROVE  Tells(events, c, t)
<1>1. Len(events) \in Nat
  OBVIOUS
<1>2. \A k \in 1 .. Len(events) : events[k].kind = "output"
  BY <1>1, SpoolParts
<1>3. QED
  BY <1>2 DEF Tells

(* What a client gets. *)
LEMMA TellsGot ==
  ASSUME NEW c \in Clients, NEW new, NEW event, Gets(new, c, event), NEW t,
         c.phase = "live" => Tells(c.stream, c.id, t),
         Listening(c) /\ event.kind = "completed" => <<c.id, event.code>> \in t
  PROVE  new.phase = "live" => Tells(new.stream, new.id, t)
<1> SUFFICES ASSUME new.phase = "live" PROVE Tells(new.stream, new.id, t)
  OBVIOUS
<1>1. new.phase = c.phase /\ new.id = c.id /\ c.stream \in Seq(Events)
  BY ClientFields DEF Gets
<1>2. CASE new.stream = c.stream
  BY <1>1, <1>2
<1>3. CASE c.open /\ new.stream = Append(c.stream, event)
  <2>1. event.kind = "completed" => <<c.id, event.code>> \in t
    BY <1>1, <1>3 DEF Listening
  <2>2. Tells(Append(c.stream, event), c.id, t)
    BY <1>1, <2>1, TellsAppended
  <2>3. QED
    BY <1>1, <1>3, <2>2
<1>4. QED
  BY <1>2, <1>3 DEF Gets

(* Any code but two may be told of any command. *)
LEMMA PlainTruth ==
  ASSUME NEW c \in Nat, NEW code \in Codes \ {"exited", "failed"}
  PROVE  <<c, code>> \in Truths
BY DEF Truths

(* The code that a command ends with is true. *)
LEMMA EndIsTrue ==
  ASSUME WorkerInv, CodesInv, [Next]_vars
  PROVE  /\ Monitor \/ MonitorFails \/ CutMonitor => <<worker.memory.id, ExitCode>> \in Truths'
         /\ SpawnFails \/ DispatchFails => <<worker.memory.id, "failed">> \in Truths'
<1>1. worker.memory.id \in Nat /\ child \in Seq(Process)
  BY WorkerFields DEF WorkerInv, Types
<1>2. ASSUME Monitor \/ MonitorFails \/ CutMonitor PROVE <<worker.memory.id, ExitCode>> \in Truths'
  <2>1. worker.thread = "released"
    BY <1>2 DEF Monitor, MonitorFails, CutMonitor, IsDone
  <2>2. Mine \in Groups /\ child[Mine].id = worker.memory.id
    BY <2>1 DEF WorkerInv, ThreadKnows
  <2>3. ExitCode \in Codes /\ ExitCode # "failed" /\ (ExitCode = "exited" => child[Mine].code = "exited")
    BY <2>1, <2>2, ExitCodes DEF ExitCode, CodesInv
  <2>4. <<worker.memory.id, ExitCode>> \in Truths
    BY <1>1, <2>2, <2>3 DEF Truths, Exited
  <2>5. QED
    BY <2>4, AlwaysSteady
<1>3. ASSUME SpawnFails \/ DispatchFails PROVE <<worker.memory.id, "failed">> \in Truths'
  <2> DEFINE id == worker.memory.id
  <2>1. worker.up /\ stop # "done" /\ worker.memory \in Records /\ disk \in Records /\ worker \in Workers
    BY <1>3, WorkerFields DEF SpawnFails, DispatchFails, WorkerInv, WorkerKnows
  <2>2. id <= worker.memory.high
    <3>1. id <= disk.high
      <4>1. CASE SpawnFails
        BY <4>1 DEF SpawnFails, WorkerInv, ThreadKnows
      <4>2. CASE DispatchFails
        <5>1. Mine \in Groups /\ child[Mine].id = id
          BY <4>2 DEF DispatchFails, WorkerInv, ThreadKnows
        <5>2. QED
          BY <2>1, <5>1 DEF WorkerInv, SpawnedOnce
      <4>3. QED
        BY <1>3, <4>1, <4>2
    <3>2. disk.high <= worker.memory.high /\ {disk.high, worker.memory.high} \subseteq Nat
      BY <2>1 DEF WorkerInv, WorkerKnows, Records
    <3>3. QED
      BY <1>1, <3>1, <3>2
  <2>3. disk'.high = worker.memory.high /\ worker'.thread = "none"
    <3> DEFINE done == Finished(worker.memory)
    <3>1. disk' = done /\ worker' = [worker EXCEPT !.memory = done, !.override = FALSE, !.thread = "none"]
      BY <1>3 DEF SpawnFails, DispatchFails, Finish
    <3>2. done.high = worker.memory.high
      BY <2>1, FinishedIsRecord
    <3> HIDE DEF done
    <3>3. QED
      BY <2>1, <3>1, <3>2 DEF Workers
  <2>4. ASSUME NEW g \in Groups', child'[g].id = id
        PROVE  child'[g].state = "ended" /\ ~child'[g].began
    <3>1. CASE SpawnFails
      <4>1. child' = child /\ worker.thread = "stored"
        BY <3>1 DEF SpawnFails
      <4>2. \A h \in Groups : child[h].id # id
        BY <4>1 DEF WorkerInv, ThreadKnows
      <4>3. QED
        BY <2>4, <4>1, <4>2 DEF Groups
    <3>2. CASE DispatchFails
      <4>1. child' = Killed(Mine) /\ worker.thread \in {"spawned", "recorded"}
        BY <3>2 DEF DispatchFails
      <4>2. AllProceed
        BY <4>1, KilledProceeds
      <4>3. Mine \in Groups /\ child[Mine].id = id /\ ~child[Mine].began /\ id \notin gate
        BY <4>1 DEF WorkerInv, ThreadKnows, CodesInv
      <4>4. g \in Groups /\ Proceeds(child[g], child'[g])
        BY <4>2 DEF AllProceed
      <4>5. g = Mine
        BY <2>4, <4>3, <4>4 DEF Proceeds, WorkerInv, SpawnedOnce
      <4>6. child'[g].state = "ended"
        BY <4>1, <4>3, <4>5, KilledEnds DEF WorkerInv
      <4>7. QED
        BY <4>3, <4>4, <4>5, <4>6 DEF Proceeds
    <3>3. QED
      BY <1>3, <3>1, <3>2
  <2>5. id \in Nat /\ "failed" \in Codes
    BY <1>1 DEF Codes
  <2> DEFINE pair == <<id, "failed">>
  <2>6. \A g \in Groups' : child'[g].id = id => child'[g].state = "ended" /\ ~child'[g].began
    BY <2>4
  <2>7. id <= disk'.high
    BY <2>2, <2>3
  <2> HIDE DEF id
  <2>8. pair \in Nat \X Codes /\ pair[1] = id /\ pair[2] = "failed"
    BY <2>5
  <2> HIDE DEF pair
  <2>9. pair \in Truths'
    BY <2>3, <2>6, <2>7, <2>8 DEF Truths, NeverBegan
  <2>10. QED
    BY <2>9 DEF pair, id
<1>4. QED
  BY <1>2, <1>3

Told == WorkerInv /\ Transcript /\ CodesInv /\ Listens /\ TruthInv

(* What was told stays true. *)
LEMMA ToldStays ==
  ASSUME Told, [Next]_vars
  PROVE  /\ Tells(spool, disk.id, Truths')
         /\ worker.up => Tells(spool, worker.memory.id, Truths')
         /\ client.phase = "live" => Tells(client.stream, client.id, Truths')
         /\ \A c \in Commands : <<c, outcome[c]>> \in Truths'
<1>1. Truths \subseteq Truths'
  BY AlwaysSteady DEF Told
<1>2. QED
  BY <1>1, TellsMore DEF Told, TruthInv

(* Commands end: the end is written to the spool, and told to the client. *)
LEMMA FinishTells ==
  ASSUME Told, [Next]_vars, Monitor \/ SpawnFails \/ DispatchFails \/ CutMonitor
  PROVE  TruthInv'
<1> DEFINE code == IF Monitor \/ CutMonitor THEN ExitCode ELSE "failed"
           end == Completion(worker.memory, code)
           id == worker.memory.id
           done == Finished(worker.memory)
           truths == Truths'
<1>1. /\ Works /\ worker.up /\ worker \in Workers /\ disk.id = id
      /\ Monitor \/ CutMonitor => worker.thread = "released"
      /\ client \in Clients /\ spool \in Seq(Events)
  <2>1. Works /\ worker.up /\ (Monitor \/ CutMonitor => worker.thread = "released")
    BY DEF Monitor, CutMonitor, IsDone, SpawnFails, DispatchFails, Works
  <2>2. disk.id = id
    BY <2>1 DEF Told, CodesInv, Works
  <2>3. QED
    BY <2>1, <2>2, WorkerFields DEF Told, Transcript, EventTypesOK
<1>2. code \in Codes
  BY <1>1, ExitCodes DEF Codes, Told
<1>3. <<id, code>> \in truths
  <2>1. CASE Monitor \/ CutMonitor
    BY <2>1, EndIsTrue DEF Told
  <2>2. CASE ~(Monitor \/ CutMonitor)
    BY <2>2, EndIsTrue DEF Told
  <2>3. QED
    BY <2>1, <2>2
<1>4. done.id = id
  BY <1>1 DEF Finished, Workers, Records
<1>5. \/ /\ worker' = [worker EXCEPT !.memory = done, !.override = FALSE, !.thread = "none"]
         /\ disk' = done
         /\ \E events \in {spool, Appended(spool, Error)} : spool' = Appended(events, end)
         /\ \E c \in {client, Notified(client, Error)} : client' = Notified(c, end)
      \/ /\ worker' = Down /\ disk' = disk /\ spool' = Append(spool, end)
         /\ client' = Closed(Notified(client, end))
  BY DEF Monitor, SpawnFails, DispatchFails, CutMonitor, Finish
<1>6. outcome' = outcome
  BY DEF Monitor, SpawnFails, DispatchFails, CutMonitor, history
<1> HIDE DEF code
<1>7. /\ end \in Events /\ end.kind = "completed" /\ end.code = code
      /\ \A events \in {spool, Appended(spool, Error)} : Appended(events, end) = Append(events, end)
      /\ \A c \in {client, Notified(client, Error)} :
           /\ c \in Clients /\ Gets(Notified(c, end), c, end) /\ Notified(c, end) \in Clients
      /\ Gets(Notified(client, Error), client, Error)
      /\ Appended(spool, Error) = Append(spool, Error)
  BY <1>1, <1>2, EndsTranscript DEF Told
<1>8. Error \in Events /\ Error.kind = "error"
  BY DEF Error, Events
<1> HIDE DEF end, id, done, truths
<1>9. Tells(spool, id, truths) /\ (client.phase = "live" => Tells(client.stream, client.id, truths))
  BY <1>1, ToldStays DEF id, truths
<1>10. ASSUME NEW events \in {spool, Appended(spool, Error)}
       PROVE  Tells(Append(events, end), id, truths)
  <2>1. Append(spool, Error) \in Seq(Events)
    BY <1>1, <1>8
  <2>2. Tells(Append(spool, Error), id, truths)
    BY <1>1, <1>8, <1>9, TellsAppended
  <2>3. events \in Seq(Events) /\ Tells(events, id, truths)
    BY <1>1, <1>7, <1>9, <2>1, <2>2
  <2>4. QED
    BY <1>3, <1>7, <2>3, TellsAppended
<1>11. Listening(client) => client.id = id
  BY DEF Told, Listens, Listening, id
<1>12. ASSUME NEW c \in {client, Notified(client, Error)}
       PROVE  Notified(c, end).phase = "live" => Tells(Notified(c, end).stream, Notified(c, end).id, truths)
  <2>1. /\ c \in Clients /\ (Listening(c) => c.id = id)
        /\ c.phase = "live" => Tells(c.stream, c.id, truths)
    <3>1. CASE c = client
      BY <1>1, <1>9, <1>11, <3>1
    <3>2. CASE c = Notified(client, Error)
      <4>1. Gets(c, client, Error)
        BY <1>7, <3>2
      <4>2. c.phase = "live" => Tells(c.stream, c.id, truths)
        BY <1>1, <1>8, <1>9, <4>1, TellsGot
      <4>3. Listening(c) => c.id = id
        BY <1>11, <4>1, GetsListening
      <4>4. QED
        BY <1>7, <4>2, <4>3
    <3>3. QED
      BY <3>1, <3>2
  <2>2. Listening(c) /\ end.kind = "completed" => <<c.id, end.code>> \in truths
    BY <1>3, <1>7, <2>1
  <2>3. Gets(Notified(c, end), c, end)
    BY <1>7
  <2>4. QED
    BY <2>1, <2>2, <2>3, TellsGot
<1>13. Tells(spool', id, truths)
  BY <1>5, <1>7, <1>10
<1>14. client'.phase = "live" => Tells(client'.stream, client'.id, truths)
  <2>1. CASE \E c \in {client, Notified(client, Error)} : client' = Notified(c, end)
    BY <1>12, <2>1
  <2>2. CASE client' = Closed(Notified(client, end))
    <3>1. Notified(client, end) \in Clients
      BY <1>7
    <3>2. QED
      BY <1>12, <2>2, <3>1, ClosedClient
  <2>3. QED
    BY <1>5, <2>1, <2>2
<1>15. disk'.id = id /\ (worker'.up => worker'.memory.id = id)
  <2>1. CASE worker' = Down /\ disk' = disk
    BY <1>1, <2>1 DEF Down
  <2>2. CASE disk' = done /\ worker' = [worker EXCEPT !.memory = done, !.override = FALSE, !.thread = "none"]
    BY <1>1, <1>4, <2>2 DEF Workers
  <2>3. QED
    BY <1>5, <2>1, <2>2
<1>16. \A c \in Commands : <<c, outcome'[c]>> \in truths
  BY <1>6, ToldStays DEF truths
<1>17. QED
  BY <1>13, <1>14, <1>15, <1>16 DEF TruthInv, truths

(* An end that cannot be written is told, or is not. *)
LEMMA MonitorFailsTells ==
  ASSUME Told, [Next]_vars, MonitorFails
  PROVE  TruthInv'
<1> DEFINE end == Completion(worker.memory, ExitCode)
           id == worker.memory.id
           done == Finished(worker.memory)
           truths == Truths'
<1>1. /\ Works /\ worker.up /\ worker \in Workers /\ disk' = disk /\ disk.id = id
      /\ worker.thread = "released" /\ outcome' = outcome
      /\ client \in Clients /\ spool \in Seq(Events)
      /\ \/ spool' = Appended(spool, end) /\ client' = Notified(client, end)
         \/ spool' = spool /\ client' = client
  <2>1. /\ Works /\ worker.up /\ worker.thread = "released" /\ disk' = disk /\ outcome' = outcome
        /\ \/ spool' = Appended(spool, end) /\ client' = Notified(client, end)
           \/ spool' = spool /\ client' = client
    BY DEF MonitorFails, IsDone, Works, history
  <2>2. disk.id = id
    BY <2>1 DEF Told, CodesInv, Works
  <2>3. QED
    BY <2>1, <2>2, WorkerFields DEF Told, Transcript, EventTypesOK
<1>2. worker'.memory.id = id
  <2>1. done.id = id
    BY <1>1 DEF Finished, Workers, Records
  <2>2. worker' = [worker EXCEPT !.memory = done, !.override = FALSE, !.thread = "none"]
    BY <1>1 DEF MonitorFails, Workers
  <2> HIDE DEF done, id
  <2>3. QED
    BY <1>1, <2>1, <2>2 DEF Workers
<1>3. /\ end \in Events /\ end.kind = "completed" /\ end.code = ExitCode
      /\ Appended(spool, end) = Append(spool, end) /\ Gets(Notified(client, end), client, end)
  BY <1>1, ExitCodes, EndsTranscript DEF Told
<1>4. <<id, ExitCode>> \in truths
  BY EndIsTrue DEF Told
<1>5. Listening(client) => client.id = id
  BY DEF Told, Listens, Listening
<1> HIDE DEF end, id, done, truths
<1>6. Tells(spool, id, truths) /\ (client.phase = "live" => Tells(client.stream, client.id, truths))
  BY <1>1, ToldStays DEF id, truths
<1>7. Tells(spool', id, truths)
  <2>1. Tells(Append(spool, end), id, truths)
    BY <1>1, <1>3, <1>4, <1>6, TellsAppended
  <2>2. QED
    BY <1>1, <1>3, <1>6, <2>1
<1>8. client'.phase = "live" => Tells(client'.stream, client'.id, truths)
  <2>1. Listening(client) /\ end.kind = "completed" => <<client.id, end.code>> \in truths
    BY <1>3, <1>4, <1>5
  <2>2. LET new == Notified(client, end) IN
        new.phase = "live" => Tells(new.stream, new.id, truths)
    BY <1>1, <1>3, <1>6, <2>1, TellsGot
  <2>3. QED
    BY <1>1, <1>6, <2>2
<1>9. \A c \in Commands : <<c, outcome'[c]>> \in truths
  BY <1>1, ToldStays DEF truths
<1>10. QED
  BY <1>1, <1>2, <1>7, <1>8, <1>9 DEF TruthInv, truths

(* Output is told. *)
LEMMA CollectTells ==
  ASSUME Told, [Next]_vars, Collect
  PROVE  TruthInv'
<1> DEFINE n == worker.memory.sequence + 1
           truths == Truths'
<1>1. WorkerInv' /\ Transcript'
  BY NextTranscript DEF Told, Transcript, TranscriptInv
<1>2. Works'
  BY WorkerFields DEF Told, Collect, Works, Workers
<1>3. SpoolHolds(spool', Len(spool'), worker'.memory.sequence) /\ spool' \in Seq(Events)
      /\ worker'.memory.sequence \in Nat
  <2>1. SpoolHolds(spool', Len(spool'), worker'.memory.sequence) /\ spool' \in Seq(Events)
    BY <1>1, <1>2 DEF Transcript, SpoolInv, EventTypesOK
  <2>2. worker'.memory.sequence \in Nat
    BY <1>1 DEF WorkerInv, Types, Workers, Records
  <2>3. QED
    BY <2>1, <2>2
<1>4. \A c : Tells(spool', c, truths)
  <2> HIDE DEF truths
  <2>1. QED
    BY <1>3, OutputTellsNothing
<1>5. n \in Nat /\ client \in Clients /\ client' = Notified(client, Output(n)) /\ outcome' = outcome
  BY WorkerFields DEF Told, Transcript, EventTypesOK, Collect, history
<1>6. client'.phase = "live" => Tells(client'.stream, client'.id, truths)
  <2>1. Output(n) \in Events /\ Output(n).kind = "output"
    BY <1>5 DEF Output, Events
  <2>2. Gets(client', client, Output(n))
    BY <1>5, <2>1, NotifiedGets
  <2>3. client.phase = "live" => Tells(client.stream, client.id, truths)
    BY ToldStays
  <2> HIDE DEF truths, n
  <2>4. QED
    BY <1>5, <2>1, <2>2, <2>3, TellsGot
<1>7. \A c \in Commands : <<c, outcome'[c]>> \in truths
  BY <1>5, ToldStays
<1>8. QED
  BY <1>4, <1>6, <1>7 DEF TruthInv

(* A worker starts: how the command it finds ended is unknown. *)
LEMMA StartTells ==
  ASSUME Told, [Next]_vars, Start
  PROVE  TruthInv'
<1> DEFINE truths == Truths'
           end == Completion(disk, "unknown")
<1>1. /\ disk \in Records /\ disk.id \in Nat /\ spool \in Seq(Events) /\ disk.sequence \in Nat
  BY WorkerFields DEF Told, Records, Transcript, EventTypesOK
<1>2. /\ disk' = Recovered(disk) /\ worker'.memory = Recovered(disk) /\ Recovered(disk).id = disk.id
      /\ client' = client /\ outcome' = outcome
  <2> DEFINE memory == Recovered(disk)
  <2>1. memory.id = disk.id
    BY <1>1 DEF Recovered, Finished, Records
  <2>2. disk' = memory /\ worker' = [Down EXCEPT !.up = TRUE, !.memory = memory]
        /\ client' = client /\ outcome' = outcome
    BY DEF Start, history
  <2> HIDE DEF memory
  <2>3. worker'.memory = memory
    BY <2>2 DEF Down
  <2>4. QED
    BY <2>1, <2>2, <2>3 DEF memory
<1>3. Tells(spool, disk.id, truths)
  BY ToldStays
<1>4. Tells(spool', disk.id, truths)
  <2>1. CASE spool' = spool
    BY <1>3, <2>1
  <2>2. CASE spool' = spool \o <<Error, end>>
    <3>1. Error \in Events /\ Error.kind = "error" /\ end \in Events /\ end.code = "unknown"
      <4>1. disk.sequence + 1 \in Nat /\ "unknown" \in Codes
        BY <1>1 DEF Codes
      <4>2. QED
        BY <4>1, EventTypes DEF Completion
    <3>2. <<disk.id, "unknown">> \in truths
      <4>1. "unknown" \in Codes \ {"exited", "failed"}
        BY DEF Codes
      <4>2. <<disk.id, "unknown">> \in Truths
        BY <1>1, <4>1, PlainTruth
      <4>3. QED
        BY <4>2, AlwaysSteady DEF Told
    <3> HIDE DEF end, truths
    <3>3. spool' = Append(Append(spool, Error), end)
      <4>1. Len(spool) \in Nat
        BY <1>1
      <4>2. QED
        BY <1>1, <2>2, <3>1, AppendedTwo
    <3>4. Append(spool, Error) \in Seq(Events) /\ Tells(Append(spool, Error), disk.id, truths)
      <4>1. Append(spool, Error) \in Seq(Events)
        BY <1>1, <3>1
      <4>2. QED
        BY <1>1, <1>3, <3>1, <4>1, TellsAppended
    <3>5. QED
      BY <3>1, <3>2, <3>3, <3>4, TellsAppended
  <2>3. QED
    BY <2>1, <2>2 DEF Start
<1>5. QED
  BY <1>2, <1>4, ToldStays DEF TruthInv

(* A worker that dies while it recovers tells no more than that. *)
LEMMA CutStartTells ==
  ASSUME Told, [Next]_vars, CutStart
  PROVE  TruthInv'
<1> DEFINE truths == Truths'
           end == Completion(disk, "unknown")
<1>1. /\ disk \in Records /\ disk.id \in Nat /\ spool \in Seq(Events) /\ disk.sequence \in Nat
  BY WorkerFields DEF Told, Records, Transcript, EventTypesOK
<1>2. /\ ~worker.up /\ UNCHANGED <<disk, worker, client, outcome>>
      /\ spool' \in {spool, Append(spool, Error), spool \o <<Error, end>>}
  BY DEF CutStart, CanStart, history
<1>3. Tells(spool, disk.id, truths)
  BY ToldStays
<1>4. /\ Error \in Events /\ Error.kind = "error" /\ end \in Events /\ end.code = "unknown"
  <2>1. disk.sequence + 1 \in Nat /\ "unknown" \in Codes
    BY <1>1 DEF Codes
  <2>2. QED
    BY <2>1, EventTypes DEF Completion
<1>5. <<disk.id, "unknown">> \in truths
  <2>1. "unknown" \in Codes \ {"exited", "failed"}
    BY DEF Codes
  <2>2. <<disk.id, "unknown">> \in Truths
    BY <1>1, <2>1, PlainTruth
  <2>3. QED
    BY <2>2, AlwaysSteady DEF Told
<1> HIDE DEF end, truths
<1>6. Append(spool, Error) \in Seq(Events) /\ Tells(Append(spool, Error), disk.id, truths)
  <2>1. Append(spool, Error) \in Seq(Events)
    BY <1>1, <1>4
  <2>2. QED
    BY <1>1, <1>3, <1>4, <2>1, TellsAppended
<1>7. Tells(spool \o <<Error, end>>, disk.id, truths)
  <2>1. spool \o <<Error, end>> = Append(Append(spool, Error), end)
    BY <1>1, <1>4, AppendedTwo
  <2>2. Tells(Append(Append(spool, Error), end), disk.id, truths)
    BY <1>4, <1>5, <1>6, TellsAppended
  <2>3. QED
    BY <2>1, <2>2
<1>8. Tells(spool', disk.id, truths)
  BY <1>2, <1>3, <1>6, <1>7
<1>9. QED
  BY <1>2, <1>8, ToldStays DEF TruthInv, truths

LEMMA SpoolStillTells ==
  ASSUME Told, [Next]_vars, spool' = spool, ~Accept, ~AcceptFails, ~Start,
         disk'.id = disk.id \/ (worker.up /\ disk'.id = worker.memory.id)
  PROVE  /\ Tells(spool', disk'.id, Truths')
         /\ worker'.up => Tells(spool', worker'.memory.id, Truths')
<1>1. /\ Tells(spool, disk.id, Truths')
      /\ worker.up => Tells(spool, worker.memory.id, Truths')
  BY ToldStays
<1>2. Tells(spool', disk'.id, Truths')
  BY <1>1
<1>3. worker'.up => worker.up /\ worker'.memory.id = worker.memory.id
  <2>1. WorkerInv
    BY DEF Told
  <2>2. worker' = Down \/ (worker'.up = worker.up /\ worker'.memory.id = worker.memory.id)
    BY <2>1, WorkerIdentity
  <2>3. ~Down.up
    BY DEF Down
  <2>4. QED
    BY <2>2, <2>3
<1>4. QED
  BY <1>1, <1>2, <1>3

LEMMA StreamStillTells ==
  ASSUME Told, [Next]_vars, outcome' = outcome,
         client'.phase = "live" =>
           client'.stream = <<>> \/ (client.phase = "live" /\ client'.stream = client.stream /\ client'.id = client.id)
  PROVE  /\ client'.phase = "live" => Tells(client'.stream, client'.id, Truths')
         /\ \A c \in Commands : <<c, outcome'[c]>> \in Truths'
<1>1. /\ client.phase = "live" => Tells(client.stream, client.id, Truths')
      /\ \A c \in Commands : <<c, outcome[c]>> \in Truths'
  BY ToldStays
<1>2. QED
  BY <1>1, TellsNothing

(* The spool is cleared. *)
LEMMA ClearsTells ==
  ASSUME Told, [Next]_vars, CleanUp \/ CutAccept \/ Accept \/ AcceptFails
  PROVE  TruthInv'
<1>1. client \in Clients
  BY DEF Told, Transcript, EventTypesOK
<1>2. spool' = <<>> /\ outcome' = outcome
  BY DEF CleanUp, CutAccept, Accept, AcceptFails, history
<1>3. client'.phase = "live" =>
        client'.stream = <<>> \/ (client.phase = "live" /\ client'.stream = client.stream /\ client'.id = client.id)
  <2>1. CASE CleanUp
    BY <2>1 DEF CleanUp
  <2>2. CASE CutAccept
    BY <1>1, <2>2, ClosedClient DEF CutAccept
  <2>3. CASE Accept \/ AcceptFails
    BY <1>1, <2>3 DEF Accept, AcceptFails, Answered, Clients
  <2>4. QED
    BY <2>1, <2>2, <2>3
<1>4. \A c : Tells(spool', c, Truths')
  BY <1>2, TellsNothing
<1>5. QED
  BY <1>2, <1>3, <1>4, StreamStillTells DEF TruthInv

(* Steps that tell nothing. *)
LEMMA RestTells ==
  ASSUME Told, [Next]_vars,
         \/ UNCHANGED vars
         \/ \E g \in Groups : Execute(g) \/ GiveUp(g) \/ Write(g) \/ Exit(g)
         \/ Crash \/ Idle \/ Leave \/ KillWorker
         \/ Spawn \/ Record \/ Release \/ CollectFails \/ Stop \/ Terminate
         \/ \E request \in interrupts : HandleInterrupt(request) \/ SignalInterrupt(request)
         \/ Ask \/ ReplaceLeader \/ AskAgain \/ Interrupt
  PROVE  TruthInv'
<1>1. client \in Clients
  BY DEF Told, Transcript, EventTypesOK
<1>2. spool' = spool /\ outcome' = outcome
  BY DEF vars, Execute, GiveUp, Write, Exit, Crash, Idle, Leave, KillWorker, Spawn, Record, Release,
     CollectFails, Stop, Terminate, HandleInterrupt, SignalInterrupt, Ask, ReplaceLeader, AskAgain,
     Interrupt, history
<1>3. disk'.id = disk.id \/ (worker.up /\ disk'.id = worker.memory.id)
  <2>1. CASE Record
    <3> DEFINE recorded == [worker.memory EXCEPT !.status = "running", !.group = Mine]
    <3>1. recorded.id = worker.memory.id
      BY WorkerFields DEF Told, Records
    <3>2. disk' = recorded /\ worker.up
      BY <2>1 DEF Record
    <3>3. QED
      BY <3>1, <3>2
  <2>2. CASE ~Record
    <3>1. disk' = disk
      BY <2>2 DEF vars, Execute, GiveUp, Write, Exit, Crash, Idle, Leave, KillWorker, Spawn, Release,
         CollectFails, Stop, Terminate, HandleInterrupt, SignalInterrupt, Ask, ReplaceLeader, AskAgain,
         Interrupt
    <3>2. QED
      BY <3>1
  <2>3. QED
    BY <2>1, <2>2
<1>4. client'.phase = "live" =>
        client'.stream = <<>> \/ (client.phase = "live" /\ client'.stream = client.stream /\ client'.id = client.id)
  <2>1. CASE Ask \/ ReplaceLeader \/ AskAgain
    BY <1>1, <2>1 DEF Ask, ReplaceLeader, AskAgain, NoCommand, Clients
  <2>2. CASE Interrupt
    BY <1>1, <2>2 DEF Interrupt, Clients
  <2>3. CASE client' = Closed(client)
    BY <1>1, <2>3, ClosedClient
  <2>4. CASE client' = client
    BY <2>4
  <2>5. QED
    BY <2>1, <2>2, <2>3, <2>4 DEF vars, Execute, GiveUp, Write, Exit, Crash, Idle, Leave, KillWorker,
       Spawn, Record, Release, CollectFails, Stop, Terminate, HandleInterrupt, SignalInterrupt
<1>5. ~Start /\ ((~Accept /\ ~AcceptFails) \/ spool' = <<>>)
  <2>1. ASSUME Start PROVE FALSE
    <3>1. ~worker.up /\ worker'.up
      BY <2>1 DEF Start, CanStart, Down
    <3>2. QED
      BY <3>1, WorkerFields DEF Told, vars, Execute, GiveUp, Write, Exit, Crash, Idle, Leave, KillWorker,
         Spawn, Record, Release, CollectFails, Stop, Terminate, HandleInterrupt, SignalInterrupt,
         Ask, ReplaceLeader, AskAgain, Interrupt, Workers, Down
  <2>2. Accept \/ AcceptFails => spool' = <<>>
    BY DEF Accept, AcceptFails
  <2>3. QED
    BY <2>1, <2>2
<1>6. /\ Tells(spool', disk'.id, Truths')
      /\ worker'.up => Tells(spool', worker'.memory.id, Truths')
  <2>1. CASE spool' = <<>>
    BY <2>1, TellsNothing
  <2>2. CASE spool' # <<>>
    BY <1>2, <1>3, <1>5, <2>2, SpoolStillTells
  <2>3. QED
    BY <2>1, <2>2
<1>7. QED
  BY <1>2, <1>4, <1>6, StreamStillTells DEF TruthInv

\* Steps of the leader leave the worker and its spool alone.
LeaderOnly == UNCHANGED <<disk, worker, spool, child>>

LEMMA LeaderSpool ==
  ASSUME Told, [Next]_vars, LeaderOnly
  PROVE  /\ Tells(spool', disk'.id, Truths')
         /\ worker'.up => Tells(spool', worker'.memory.id, Truths')
<1>1. /\ Tells(spool, disk.id, Truths')
      /\ worker.up => Tells(spool, worker.memory.id, Truths')
  BY ToldStays
<1>2. spool' = spool /\ disk' = disk /\ worker' = worker
  BY DEF LeaderOnly
<1>3. QED
  BY <1>1, <1>2

(* A request is answered with what the spool tells. *)
LEMMA AnswersTell ==
  ASSUME Told, [Next]_vars, Refuse \/ Subscribe
  PROVE  TruthInv'
<1> DEFINE truths == Truths'
<1>1. /\ client \in Clients /\ client.id \in Nat /\ client.cursor \in Nat /\ spool \in Seq(Events)
      /\ LeaderOnly /\ outcome' = outcome
  BY ClientFields DEF Told, Transcript, EventTypesOK, LeaderOnly, Refuse, Subscribe, history
<1>2. ASSUME NEW events \in Seq(Events), NEW open \in BOOLEAN, client' = Answered(events, open),
             Tells(events, client.id, truths)
      PROVE  client'.phase = "live" => Tells(client'.stream, client'.id, truths)
  <2>1. client'.stream = events /\ client'.id = client.id
    BY <1>1, <1>2, AnsweredClient
  <2>2. QED
    BY <1>2, <2>1
<1>3. client'.phase = "live" => Tells(client'.stream, client'.id, truths)
  <2>1. CASE Refuse
    <3> DEFINE end == Completed(0, "unknown")
               events == <<Error, end>>
    <3>1. Error \in Events /\ Error.kind = "error" /\ end \in Events /\ end.code = "unknown"
      <4>1. 0 \in Nat /\ "unknown" \in Codes
        BY DEF Codes
      <4>2. QED
        BY <4>1, EventTypes
    <3>2. <<client.id, "unknown">> \in truths
      <4>1. "unknown" \in Codes \ {"exited", "failed"}
        BY DEF Codes
      <4>2. <<client.id, "unknown">> \in Truths
        BY <1>1, <4>1, PlainTruth
      <4>3. QED
        BY <4>2, AlwaysSteady DEF Told
    <3>3. client' = Answered(events, FALSE)
      BY <2>1 DEF Refuse
    <3> HIDE DEF end, truths
    <3>4. events \in Seq(Events) /\ Len(events) = 2 /\ events[1] = Error /\ events[2] = end
      BY <3>1
    <3> HIDE DEF events
    <3>5. Tells(events, client.id, truths)
      <4>1. \A k \in 1 .. Len(events) : k = 1 \/ k = 2
        BY <3>4
      <4>2. QED
        BY <3>1, <3>2, <3>4, <4>1 DEF Tells
    <3>6. FALSE \in BOOLEAN
      OBVIOUS
    <3>7. QED
      BY <1>2, <3>3, <3>4, <3>5, <3>6
  <2>2. CASE Subscribe
    <3> DEFINE events == Replay(spool, client.cursor)
               open == worker.memory.status # "completed"
    <3>1. client' = Answered(events, open) /\ open \in BOOLEAN
      BY <2>2 DEF Subscribe
    <3>2. Tells(spool, client.id, truths)
      BY <2>2, ToldStays DEF Subscribe, IsKnown
    <3>3. PICK m, n \in Nat : SpoolHolds(spool, m, n)
      BY DEF Told, Transcript, SpoolInv
    <3>4. /\ events \in Seq(Events)
          /\ \A i \in 1 .. Len(events) : events[i].kind = "completed" =>
               \E k \in 1 .. Len(spool) : events[i] = spool[k]
      BY <1>1, <3>3, ReplayUnbroken
    <3> HIDE DEF events, open, truths
    <3>5. Tells(events, client.id, truths)
      BY <3>2, <3>4 DEF Tells
    <3>6. QED
      BY <1>2, <3>1, <3>4, <3>5
  <2>3. QED
    BY <2>1, <2>2
<1>4. \A c \in Commands : <<c, outcome'[c]>> \in truths
  BY <1>1, ToldStays
<1>5. QED
  BY <1>1, <1>3, <1>4, LeaderSpool DEF TruthInv

(* The surface takes a command to have ended as it is told. *)
LEMMA EndedTells ==
  ASSUME Told, [Next]_vars, Read \/ StreamEnds
  PROVE  TruthInv'
<1> DEFINE truths == Truths'
           event == client.stream[1]
<1>1. /\ client \in Clients /\ client.id \in Nat /\ client.stream \in Seq(Events)
      /\ outcome \in [Commands -> Codes] /\ LeaderOnly
  BY ClientFields DEF Told, Transcript, EventTypesOK, LeaderOnly, Read, StreamEnds
<1>2. \A c \in Commands : <<c, outcome[c]>> \in truths
  BY ToldStays
<1>3. ASSUME NEW code, outcome' = [outcome EXCEPT ![client.id] = code], <<client.id, code>> \in truths
      PROVE  \A c \in Commands : <<c, outcome'[c]>> \in truths
  <2> HIDE DEF truths
  <2>1. QED
    BY <1>1, <1>2, <1>3
<1>4. CASE StreamEnds
  <2>1. <<client.id, "unknown">> \in truths
    <3>1. "unknown" \in Codes \ {"exited", "failed"}
      BY DEF Codes
    <3>2. <<client.id, "unknown">> \in Truths
      BY <1>1, <3>1, PlainTruth
    <3>3. QED
      BY <3>2, AlwaysSteady DEF Told
  <2>2. outcome' = [outcome EXCEPT ![client.id] = "unknown"]
    BY <1>4 DEF StreamEnds, Ended
  <2>3. client'.phase # "live"
    BY <1>1, <1>4 DEF StreamEnds, Clients
  <2> HIDE DEF truths
  <2>4. \A c \in Commands : <<c, outcome'[c]>> \in truths
    BY <1>3, <2>1, <2>2
  <2>5. QED
    BY <1>1, <2>3, <2>4, LeaderSpool DEF TruthInv, truths
<1>5. CASE Read
  <2>1. client.phase = "live" /\ client.stream # <<>> /\ Tells(client.stream, client.id, truths)
    BY <1>5, ToldStays DEF Read
  <2>2. Head(client.stream) = event /\ 1 \in 1 .. Len(client.stream)
    BY <1>1, <2>1
  <2>3. event.kind = "completed" => <<client.id, event.code>> \in truths
    BY <2>1, <2>2 DEF Tells
  <2>4. client'.phase = "live" => client'.stream = Tail(client.stream) /\ client'.id = client.id
    BY <1>1, <1>5 DEF Read, Clients
  <2>5. Tells(Tail(client.stream), client.id, truths)
    <3> DEFINE rest == Tail(client.stream)
    <3>1. Len(rest) + 1 = Len(client.stream) /\ \A k \in 1 .. Len(rest) : rest[k] = client.stream[k + 1]
      BY <1>1, <2>1
    <3>2. Len(rest) \in Nat
      BY <1>1, <2>1
    <3> HIDE DEF rest
    <3>3. \A k \in 1 .. Len(rest) : k + 1 \in 1 .. Len(client.stream)
      BY <3>1, <3>2
    <3> HIDE DEF truths
    <3>4. Tells(rest, client.id, truths)
      BY <2>1, <3>1, <3>3 DEF Tells
    <3>5. QED
      BY <3>4 DEF rest
  <2>6. outcome' = outcome \/ (event.kind = "completed" /\ outcome' = [outcome EXCEPT ![client.id] = event.code])
    <3> HIDE DEF event, truths
    <3>1. QED
      BY <1>5, <2>2 DEF Read, Ended
  <2> HIDE DEF truths, event
  <2>7. \A c \in Commands : <<c, outcome'[c]>> \in truths
    BY <1>2, <1>3, <2>3, <2>6
  <2>8. client'.phase = "live" => Tells(client'.stream, client'.id, truths)
    BY <2>4, <2>5
  <2>9. QED
    BY <1>1, <2>7, <2>8, LeaderSpool DEF TruthInv, truths
<1>6. QED
  BY <1>4, <1>5

-----------------------------------------------------------------------------

EndsInv == TranscriptInv /\ CodesInv /\ Listens /\ TruthInv

LEMMA InitEnds == Init => EndsInv
<1> SUFFICES ASSUME Init PROVE CodesInv /\ Listens /\ TruthInv
  BY InitTranscript DEF EndsInv
<1>1. CodesInv
  <2>1. Groups = {} /\ worker.thread = "none"
    BY DEF Init, Groups, Down
  <2>2. QED
    BY <2>1 DEF CodesInv
<1>2. Listens
  BY DEF Init, Listens, NoCommand
<1>3. TruthInv
  <2>1. \A c \in Commands : <<c, outcome[c]>> \in Truths
    <3> SUFFICES ASSUME NEW c \in Commands PROVE <<c, "none">> \in Truths
      BY DEF Init
    <3>1. c \in Nat
      BY DEF Commands
    <3>2. "none" \in Codes \ {"exited", "failed"}
      BY DEF Codes
    <3>3. QED
      BY <3>1, <3>2, PlainTruth
  <2>2. spool = <<>> /\ client.phase # "live"
    BY DEF Init, NoCommand
  <2>3. QED
    BY <2>1, <2>2, TellsNothing DEF TruthInv
<1>4. QED
  BY <1>1, <1>2, <1>3

LEMMA NextEnds == EndsInv /\ [Next]_vars => EndsInv'
<1> SUFFICES ASSUME EndsInv, [Next]_vars PROVE EndsInv'
  OBVIOUS
<1>1. Told
  BY DEF EndsInv, Told, TranscriptInv, Transcript
<1>2. TranscriptInv' /\ CodesInv' /\ Listens'
  BY <1>1, NextTranscript, AlwaysSteady, ListensStays DEF EndsInv, Told
<1>3. TruthInv'
  <2>1. CASE \/ UNCHANGED vars
             \/ \E g \in Groups : Execute(g) \/ GiveUp(g) \/ Write(g) \/ Exit(g)
             \/ Crash \/ Idle \/ Leave \/ KillWorker
             \/ Spawn \/ Record \/ Release \/ CollectFails \/ Stop \/ Terminate
             \/ \E request \in interrupts : HandleInterrupt(request) \/ SignalInterrupt(request)
             \/ Ask \/ ReplaceLeader \/ AskAgain \/ Interrupt
    BY <1>1, <2>1, RestTells
  <2>2. CASE CleanUp \/ CutAccept \/ Accept \/ AcceptFails
    BY <1>1, <2>2, ClearsTells
  <2>3. CASE Start \/ CutStart
    BY <1>1, <2>3, StartTells, CutStartTells
  <2>4. CASE Collect
    BY <1>1, <2>4, CollectTells
  <2>5. CASE Monitor \/ SpawnFails \/ DispatchFails \/ MonitorFails \/ CutMonitor
    BY <1>1, <2>5, FinishTells, MonitorFailsTells
  <2>6. CASE Refuse \/ Subscribe
    BY <1>1, <2>6, AnswersTell
  <2>7. CASE Read \/ StreamEnds
    BY <1>1, <2>7, EndedTells
  <2>8. QED
    BY <2>1, <2>2, <2>3, <2>4, <2>5, <2>6, <2>7 DEF Next, Serve, Dispatch, Fault
<1>4. QED
  BY <1>2, <1>3 DEF EndsInv

(* What the surface is told of the end of a command is true: one that is   *)
(* said to have exited has a process that exited by itself, and one that   *)
(* is said not to have started has no process that began.                  *)
THEOREM EndsAreTrue == Spec => []OutcomesAreTrue
<1>1. Spec => []EndsInv
  BY InitEnds, NextEnds, PTL DEF Spec
<1>2. EndsInv => OutcomesAreTrue
  <2> SUFFICES ASSUME EndsInv, NEW c \in Commands
               PROVE  /\ outcome[c] = "exited" => Exited(c)
                      /\ outcome[c] = "failed" => \A g \in Groups : child[g].id = c => ~child[g].began
    BY DEF OutcomesAreTrue, Exited
  <2>1. <<c, outcome[c]>> \in Truths
    BY DEF EndsInv, TruthInv
  <2>2. (outcome[c] = "exited" => Exited(c)) /\ (outcome[c] = "failed" => NeverBegan(c))
    BY <2>1 DEF Truths
  <2>3. QED
    BY <2>2 DEF NeverBegan
<1>3. QED
  BY <1>1, <1>2, PTL

=============================================================================
