---------------------------- MODULE ShellSession ----------------------------
(***************************************************************************)
(* A shell session (cli/src/command.rs, cli/src/app.rs): commands are      *)
(* submitted to a FIFO queue, and launched one after the other by effects  *)
(* that ask the session's worker (cli/src/worker.rs) to run them.  The     *)
(* worker outlives the leader: a command that runs when a leader dies is   *)
(* asked for again under the same identity, and the worker must not run it *)
(* twice.                                                                  *)
(*                                                                         *)
(* A command is known by its ticket, its place among the submissions; the  *)
(* code has only its text, and compares texts.  The state of the surface   *)
(* and the effects are journaled with each transition (HostLog,            *)
(* HostEffects), so a new leader has them and only loses the stream and    *)
(* what executes.  Output, history and completion are left out.            *)
(***************************************************************************)
EXTENDS Integers, Sequences, SequencesExt, FiniteSets

CONSTANTS Lines,      \* texts of commands
          Builtins,   \* those the surface runs itself
          NoStream,   \* no running command
          MaxSubmit,  \* bound of the model: submissions
          MaxFaults   \* bound of the model: leaders replaced, launches that fail, streams that break

ASSUME ShellAssumption ==
  /\ Builtins \subseteq Lines
  /\ MaxSubmit \in Nat
  /\ MaxFaults \in Nat

VARIABLES
  submitted,   \* the lines submitted: a ticket is an index of it
  surface,     \* CommandSurface
  effects,     \* the effects that wait or execute (HostedSession.pending_effects)
  launching,   \* the result of the first effect, on its way to the actor
  orphans,     \* requests to the worker whose stream nobody reads
  worker,      \* StoredState of the worker
  faults,      \* history: faults so far
  cancelled,   \* history: tickets cancelled in the queue
  reported,    \* history: tickets the transcript reports as failed to start
  executed     \* history: the tickets the worker has started, in order

vars == <<submitted, surface, effects, launching, orphans, worker, faults, cancelled, reported, executed>>

Tickets == 1 .. MaxSubmit

\* A request to run a command: env stands for the environment, the commands
\* and the directory that are sent with the text.
Request == [id : Nat, ticket : Nat, env : Nat]

\* A connection to the worker: its request was sent, is served, has had its
\* last event, or was answered by an error; or it could not be made.
Phases == {"sent", "live", "ended", "refused", "failed"}
Stream == [req : Request, phase : Phases]

ASSUME NoStreamAssumption == NoStream \notin Request \cup Stream

Surface ==
  [pending : Seq(Tickets),           \* pending
   started : 0 .. MaxSubmit,         \* started_command (0: none)
   startedId : 0 .. MaxSubmit,       \* started_command_id (0: none)
   nextId : 1 .. MaxSubmit + 1,      \* next_command_id
   running : Stream \cup {NoStream}, \* running
   reconnecting : BOOLEAN,           \* reconnect_scheduled
   recoverable : BOOLEAN,            \* worker_recoverable
   env : 0 .. MaxSubmit]             \* builtins run so far

Worker == [high : 0 .. MaxSubmit,    \* high_watermark
           req : Request \cup {NoStream},
           busy : BOOLEAN]           \* status Dispatching or Running

ShellTypeOK ==
  /\ submitted \in Seq(Lines) /\ Len(submitted) <= MaxSubmit
  /\ surface \in Surface
  /\ effects \in Seq(Request)
  /\ launching \in Stream \cup {NoStream}
  /\ orphans \in SUBSET Request
  /\ worker \in Worker
  /\ faults \in 0 .. MaxFaults
  /\ cancelled \in SUBSET Tickets
  /\ reported \in SUBSET Tickets
  /\ executed \in Seq(Tickets)

Init ==
  /\ submitted = <<>>
  /\ surface = [pending |-> <<>>, started |-> 0, startedId |-> 0, nextId |-> 1,
                running |-> NoStream, reconnecting |-> FALSE, recoverable |-> FALSE, env |-> 0]
  /\ effects = <<>>
  /\ launching = NoStream
  /\ orphans = {}
  /\ worker = [high |-> 0, req |-> NoStream, busy |-> FALSE]
  /\ faults = 0
  /\ cancelled = {}
  /\ reported = {}
  /\ executed = <<>>

-----------------------------------------------------------------------------
(* The surface: its methods take and give a surface u *)

SameText(t, v) == submitted[t] = submitted[v]

\* The first k entries of the queue are the builtins in front of it.
AreLeading(k, queue, lines) ==
  /\ \A i \in 1 .. k : lines[queue[i]] \in Builtins
  /\ k < Len(queue) => lines[queue[k + 1]] \notin Builtins

\* The front of the queue leaves it if it has the text of the started command.
WithoutStarted(u) ==
  IF u.started # 0 /\ u.pending # <<>> /\ SameText(Head(u.pending), u.started)
    THEN Tail(u.pending) ELSE u.pending

CommandLaunched(u, stream) ==
  [u EXCEPT !.pending = WithoutStarted(u), !.running = stream, !.reconnecting = FALSE]

\* Mutant: the identity of a launch that failed is given to the next command.
CommandNotLaunched(u) ==
  [u EXCEPT !.pending = WithoutStarted(u), !.started = 0, !.startedId = 0, !.nextId = u.startedId,
            !.recoverable = FALSE, !.reconnecting = FALSE]

CommandLaunchFailed(u) ==
  [u EXCEPT !.pending = WithoutStarted(u), !.started = 0, !.startedId = 0,
            !.recoverable = FALSE, !.reconnecting = FALSE]

HasEnded(u) == u.running # NoStream /\ u.running.phase \in {"ended", "refused"}

\* Mutant: a command whose stream has ended stays started.
PollStream(u) ==
  IF HasEnded(u)
    THEN [u EXCEPT !.running = NoStream, !.recoverable = FALSE, !.reconnecting = FALSE] ELSE u

\* poll_command_deferred: a command whose stream has ended is over.
PollCommand(u) ==
  IF HasEnded(u)
    THEN [u EXCEPT !.running = NoStream, !.started = 0, !.startedId = 0,
                   !.recoverable = FALSE, !.reconnecting = FALSE]
    ELSE u

CanReconnect(u) ==
  u.running = NoStream /\ u.recoverable /\ ~u.reconnecting /\ u.started # 0

IsIdle(u) == u.running = NoStream /\ u.started = 0

\* The request for the started command.
StartedRequest(u) == [id |-> u.startedId, ticket |-> u.started, env |-> u.env]

\* The k builtins in front have run.
BuiltinsRun(u, k) ==
  [u EXCEPT !.pending = SubSeq(@, k + 1, Len(@)), !.nextId = @ + k, !.env = @ + k,
            !.recoverable = @ /\ u.pending = <<>>]

\* The front command is started.
FrontStarted(u) ==
  [u EXCEPT !.started = Head(u.pending), !.startedId = u.nextId, !.nextId = @ + 1,
            !.recoverable = TRUE]

\* start_next_external: what the surface u, with k builtins in front, becomes.
StartNext(u, k) ==
  IF CanReconnect(u) THEN [u EXCEPT !.reconnecting = TRUE]
  ELSE IF ~IsIdle(u) THEN u
  ELSE IF k = Len(u.pending) THEN BuiltinsRun(u, k)
  ELSE FrontStarted(BuiltinsRun(u, k))

\* resident_effects: to ask for the started command, if it is started now or
\* has to be asked for again.
ResidentEffects(u, k) ==
  IF CanReconnect(u) \/ (IsIdle(u) /\ k < Len(u.pending))
    THEN <<StartedRequest(StartNext(u, k))>> ELSE <<>>

\* The transition that leaves u, with queue the effects that remain.
Apply(u, lines, queue) ==
  \E k \in 0 .. Len(u.pending) :
    /\ AreLeading(k, u.pending, lines)
    /\ surface' = StartNext(u, k)
    /\ effects' = queue \o ResidentEffects(u, k)

-----------------------------------------------------------------------------
(* Commands of the client *)

Submit(line) ==
  /\ Len(submitted) < MaxSubmit
  /\ submitted' = Append(submitted, line)
  /\ Apply([surface EXCEPT !.pending = Append(@, Len(submitted) + 1)], submitted', effects)
  /\ UNCHANGED <<launching, orphans, worker, faults, cancelled, reported, executed>>

\* :cancel of the k-th entry.
CancelQueued(k) ==
  /\ k \in DOMAIN surface.pending
  /\ surface' = [surface EXCEPT !.pending = RemoveAt(@, k)]
  /\ cancelled' = cancelled \cup {surface.pending[k]}
  /\ UNCHANGED <<submitted, effects, launching, orphans, worker, faults, reported, executed>>

CancelAll ==
  /\ surface' = [surface EXCEPT !.pending = <<>>]
  /\ cancelled' = cancelled \cup Range(surface.pending)
  /\ UNCHANGED <<submitted, effects, launching, orphans, worker, faults, reported, executed>>

-----------------------------------------------------------------------------
(* The leader *)

\* A command that the worker refused is over, with an error in its stream.
Refusals(u) == IF HasEnded(u) /\ u.running.phase = "refused" THEN {u.running.req.ticket} ELSE {}

\* A tick or a wake.
Poll ==
  /\ Apply(PollCommand(surface), submitted, effects)
  /\ reported' = reported \cup Refusals(surface)
  /\ UNCHANGED <<submitted, launching, orphans, worker, faults, cancelled, executed>>

\* The first effect executes: connect, spawning the worker if there is none,
\* and write the request.
Execute ==
  /\ effects # <<>> /\ launching = NoStream
  /\ launching' = [req |-> Head(effects), phase |-> "sent"]
  /\ UNCHANGED <<submitted, surface, effects, orphans, worker, faults, cancelled, reported, executed>>

\* It fails, before the request is written or on the second connection.
ExecuteFails(written) ==
  /\ effects # <<>> /\ launching = NoStream
  /\ faults < MaxFaults
  /\ faults' = faults + 1
  /\ launching' = [req |-> Head(effects), phase |-> "failed"]
  /\ orphans' = IF written THEN orphans \cup {Head(effects)} ELSE orphans
  /\ UNCHANGED <<submitted, surface, effects, worker, cancelled, reported, executed>>

\* Streams that are dropped before the worker has read their request.
Dropped(S) == {s.req : s \in {v \in S \ {NoStream} : v.phase = "sent"}}

\* effect_completed: what the surface becomes.
Completed(u) ==
  IF launching.phase = "failed" THEN CommandLaunchFailed(u) ELSE CommandLaunched(u, launching)

\* The result of an effect, and the poll that follows.
EffectCompleted ==
  /\ launching # NoStream
  /\ \E k \in 0 .. Len(Completed(surface).pending) :
       LET next == StartNext(Completed(surface), k) IN
       /\ AreLeading(k, Completed(surface).pending, submitted)
       /\ Apply(PollCommand(next), submitted,
                Tail(effects) \o ResidentEffects(Completed(surface), k))
       /\ reported' = reported \cup Refusals(next)
            \cup {t \in {surface.started} \ {0} : launching.phase = "failed"}
  /\ launching' = NoStream
  /\ orphans' = orphans \cup {r \in Dropped({surface.running}) : launching.phase # "failed"}
  /\ UNCHANGED <<submitted, worker, faults, cancelled, executed>>

\* The leader dies and another one loads the session.
ReplaceLeader ==
  /\ faults < MaxFaults
  /\ faults' = faults + 1
  /\ surface' = [surface EXCEPT !.running = NoStream, !.reconnecting = FALSE]
  /\ launching' = NoStream
  /\ orphans' = orphans \cup Dropped({surface.running, launching})
  /\ UNCHANGED <<submitted, effects, worker, cancelled, reported, executed>>

-----------------------------------------------------------------------------
(* The worker *)

\* The command the worker has is asked for.
IsKnown(req) == worker.req # NoStream /\ worker.req.id = req.id

\* Mutant: an identity is not retired by later ones.
IsBusy(req) == worker.busy

\* Another command is running, or this one was before the last.
IsRetired(req) == worker.busy \/ req.id <= worker.high

\* serve_run refuses to run a command.
IsRefused(req) == IF IsKnown(req) THEN worker.req # req ELSE IsRetired(req)

\* serve_run: refuse, subscribe, or run.
Serve(req) ==
  IF IsRefused(req) \/ IsKnown(req)
    THEN UNCHANGED <<worker, executed>>
    ELSE /\ worker' = [high |-> IF req.id > worker.high THEN req.id ELSE worker.high,
                       req |-> req, busy |-> TRUE]
         /\ executed' = Append(executed, req.ticket)

Served(stream) == [stream EXCEPT !.phase = IF IsRefused(stream.req) THEN "refused" ELSE "live"]

ServeRunning ==
  /\ surface.running # NoStream /\ surface.running.phase = "sent"
  /\ Serve(surface.running.req)
  /\ surface' = [surface EXCEPT !.running = Served(@)]
  /\ UNCHANGED <<submitted, effects, launching, orphans, faults, cancelled, reported>>

ServeLaunching ==
  /\ launching # NoStream /\ launching.phase = "sent"
  /\ Serve(launching.req)
  /\ launching' = Served(launching)
  /\ UNCHANGED <<submitted, surface, effects, orphans, faults, cancelled, reported>>

ServeOrphan(req) ==
  /\ req \in orphans
  /\ Serve(req)
  /\ orphans' = orphans \ {req}
  /\ UNCHANGED <<submitted, surface, effects, launching, faults, cancelled, reported>>

\* The command ends, by itself or by an interrupt, or the worker dies and
\* recovers it as of unknown outcome.
CommandEnds ==
  /\ worker.busy
  /\ worker' = [worker EXCEPT !.busy = FALSE]
  /\ UNCHANGED <<submitted, surface, effects, launching, orphans, faults, cancelled, reported, executed>>

IsOver(stream) == stream.phase = "live" /\ (worker.req.id # stream.req.id \/ ~worker.busy)

\* The last event of a stream arrives.
StreamEnds ==
  /\ surface.running # NoStream
  /\ IsOver(surface.running)
  /\ surface' = [surface EXCEPT !.running.phase = "ended"]
  /\ UNCHANGED <<submitted, effects, launching, orphans, worker, faults, cancelled, reported, executed>>

\* A subscriber that lags is dropped, and its stream ends with an error.
StreamBreaks ==
  /\ surface.running # NoStream /\ surface.running.phase = "live"
  /\ faults < MaxFaults
  /\ faults' = faults + 1
  /\ surface' = [surface EXCEPT !.running.phase = "ended"]
  /\ UNCHANGED <<submitted, effects, launching, orphans, worker, cancelled, reported, executed>>

-----------------------------------------------------------------------------

Next ==
  \/ \E line \in Lines : Submit(line)
  \/ \E k \in DOMAIN surface.pending : CancelQueued(k)
  \/ CancelAll
  \/ Poll
  \/ Execute
  \/ \E written \in BOOLEAN : ExecuteFails(written)
  \/ EffectCompleted
  \/ ReplaceLeader
  \/ ServeRunning
  \/ ServeLaunching
  \/ \E req \in orphans : ServeOrphan(req)
  \/ CommandEnds
  \/ StreamEnds
  \/ StreamBreaks

Spec == Init /\ [][Next]_vars

\* The actor ticks and handles its mailbox, an effect executes, the worker
\* serves its connections, and commands end.
Fairness ==
  /\ WF_vars(Poll)
  /\ WF_vars(Execute)
  /\ WF_vars(EffectCompleted)
  /\ WF_vars(ServeRunning)
  /\ WF_vars(CommandEnds)
  /\ WF_vars(StreamEnds)

FairSpec == Spec /\ Fairness

-----------------------------------------------------------------------------
(* Properties *)

(***************************************************************************)
(* A command is started once, whatever leaders die, launches fail, streams *)
(* break or requests are repeated, and in the order of the submissions.    *)
(***************************************************************************)
CommandsRunInOrder ==
  \A j, k \in DOMAIN executed : j < k => executed[j] < executed[k]

(***************************************************************************)
(* A command that is asked for again is asked for with the text, the       *)
(* environment and the directory of the first time, which the worker       *)
(* demands: none is refused as "reused with a different payload".          *)
(***************************************************************************)
RequestsAgree ==
  LET asked == Range(effects) \cup orphans \cup Dropped({surface.running, launching})
                 \cup ({worker.req} \ {NoStream}) IN
  \A q, r \in asked : q.id = r.id => q = r

(***************************************************************************)
(* The queue drains: each entry leaves it, as commands end.                *)
(***************************************************************************)
QueueDrains ==
  \A t \in Tickets : t \in Range(surface.pending) ~> t \notin Range(surface.pending)

(***************************************************************************)
(* "Commands submitted while another command runs enter a FIFO queue"      *)
(* (cli/README.md): where none is cancelled, a command that has left the   *)
(* queue is asked for, was run, or is reported as not started.             *)
(***************************************************************************)
NothingDropped ==
  cancelled = {} => \A t \in DOMAIN submitted :
    \/ submitted[t] \in Builtins
    \/ t \in Range(surface.pending) \cup Range(executed) \cup cancelled \cup reported
    \/ \E r \in Range(effects) \cup orphans \cup Dropped({surface.running, launching}) : r.ticket = t
    \/ surface.running # NoStream /\ surface.running.req.ticket = t

(***************************************************************************)
(* The queue is one "you can inspect and cancel" (README.md): a command    *)
(* that was cancelled in the queue is not started.                         *)
(***************************************************************************)
CancelledNeverRuns == cancelled \cap Range(executed) = {}

=============================================================================
