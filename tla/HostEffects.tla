---------------------------- MODULE HostEffects -----------------------------
(***************************************************************************)
(* The effects of the resident host (src/resident/host.rs): a transition   *)
(* of a session may request effects, which the host journals, starts one   *)
(* at a time per session and at most Limit at a time, times out, and       *)
(* starts again, or reports as of unknown outcome, when a leader dies.     *)
(*                                                                         *)
(* The disk is kept as what the next leader would replay from it: replay   *)
(* is a left fold, so a record is replayed when it is appended.  HostLog   *)
(* checks that checkpoints leave out no record and repeat none.            *)
(* A handler is one action.  The death of the leader between two of its    *)
(* records is the Cut action beside it.                                    *)
(***************************************************************************)
EXTENDS Integers, FiniteSets, Sequences, SequencesExt

CONSTANTS Sessions,    \* sessions that have been created
          Effects,     \* effect identities (EffectId::new)
          SessionOf,   \* SessionOf[e]: the session whose transition requests e
          AtMostOnce,  \* effects that EffectRequest::at_most_once builds
          Timed,       \* effects with a deadline
          Limit,       \* max_concurrent_effects
          NoEffect,    \* an idle session
          MaxBatch,    \* bound of the model: effects of one transition
          MaxFaults    \* bound of the model: leaders that die, appends and stops that fail

ASSUME EffectsAssumption ==
  /\ IsFiniteSet(Sessions)
  /\ SessionOf \in [Effects -> Sessions]
  /\ AtMostOnce \subseteq Effects
  /\ Timed \subseteq Effects
  /\ Limit \in Nat \ {0}       \* max_concurrent_effects.max(1)
  /\ NoEffect \notin Effects
  /\ MaxBatch \in Nat
  /\ MaxFaults \in Nat

VARIABLES
  up,               \* a leader serves
  faults,           \* history: leaders that died, appends and stops that failed
  hosted,           \* the keys of HostState.sessions
  pending,          \* HostedSession.pending_effects
  attempts,         \* PendingEffect.attempts
  active,           \* HostedSession.active_effect
  ready,            \* ready_effects; ready_effect_set is its range
  running,          \* effects whose execute future has not returned
  cancelled,        \* effects whose EffectCancellation is set
  timers,           \* deadlines that sleep or wait in the mailbox
  completions,      \* EffectCompleted messages
  durablePending,   \* pending_effects as load would replay them
  durableAttempts,  \* attempts as load would replay them
  requested,        \* history: the effects each session has requested, in order
  started,          \* history: the times each effect was started
  outcomes,         \* history: the outcomes reduced for each effect
  refused           \* history: sessions whose last attempt could not be journaled

queueVars == <<pending, attempts, active, ready>>
taskVars == <<running, cancelled, timers, completions>>
durableVars == <<durablePending, durableAttempts>>
historyVars == <<faults, requested, started, outcomes, refused>>
vars == <<up, hosted, queueVars, taskVars, durableVars, historyVars>>

Outputs == {"returned", "timed_out", "unknown"}
Completion == [effect : Effects, output : {"returned", "unknown"}]

EffectsTypeOK ==
  /\ up \in BOOLEAN
  /\ faults \in 0 .. MaxFaults
  /\ hosted \in SUBSET Sessions
  /\ pending \in [Sessions -> Seq(Effects)]
  /\ attempts \in [Effects -> Nat]
  /\ active \in [Sessions -> Effects \cup {NoEffect}]
  /\ ready \in Seq(hosted)
  /\ running \in SUBSET Effects
  /\ cancelled \in SUBSET Effects
  /\ timers \in SUBSET Timed
  /\ completions \in SUBSET Completion
  /\ durablePending \in [Sessions -> Seq(Effects)]
  /\ durableAttempts \in [Effects -> Nat]
  /\ requested \in [Sessions -> Seq(Effects)]
  /\ started \in [Effects -> Nat]
  /\ outcomes \in [Effects -> Seq(Outputs)]
  /\ refused \in SUBSET Sessions

Init ==
  /\ up = TRUE
  /\ faults = 0
  /\ hosted = Sessions
  /\ pending = [s \in Sessions |-> <<>>]
  /\ attempts = [e \in Effects |-> 0]
  /\ active = [s \in Sessions |-> NoEffect]
  /\ ready = <<>>
  /\ running = {}
  /\ cancelled = {}
  /\ timers = {}
  /\ completions = {}
  /\ durablePending = [s \in Sessions |-> <<>>]
  /\ durableAttempts = [e \in Effects |-> 0]
  /\ requested = [s \in Sessions |-> <<>>]
  /\ started = [e \in Effects |-> 0]
  /\ outcomes = [e \in Effects |-> <<>>]
  /\ refused = {}

-----------------------------------------------------------------------------
(* What a transition does to the queue of its session *)

Requested(s) == Range(requested[s])

\* The effects one transition of s may request: each has a new identity.
Batches(s) ==
  {batch \in UNION {[1 .. n -> {e \in Effects : SessionOf[e] = s} \ Requested(s)] : n \in 0 .. MaxBatch} :
     IsInjective(batch)}

\* queue.retain(|y| y != x), for an x that occurs at most once.
Without(queue, x) ==
  IF x \in Range(queue)
    THEN LET k == CHOOSE i \in DOMAIN queue : queue[i] = x IN
         SubSeq(queue, 1, k - 1) \o SubSeq(queue, k + 1, Len(queue))
    ELSE queue

\* The completed effect, if any, leaves the queue and the new ones join it.
Replaced(queue, done, batch) == Without(queue, done) \o batch

\* The same record as load replays it.
Replayed(queue, done, batch) == Without(queue, done) \o batch

\* Mutant: only the first effect of a queue makes its session ready.
ScheduledFirst(s, queues, slots, waiting) ==
  IF slots[s] = NoEffect /\ Len(queues[s]) = 1 /\ s \notin Range(waiting)
    THEN Append(waiting, s)
    ELSE waiting

\* schedule_effect: s becomes ready when it is idle and has effects to run.
Scheduled(s, queues, slots, waiting) ==
  IF slots[s] = NoEffect /\ queues[s] # <<>> /\ s \notin Range(waiting)
    THEN Append(waiting, s)
    ELSE waiting

\* How many waiting sessions get a slot.
Free(slots) == Limit - Cardinality({s \in Sessions : slots[s] # NoEffect})
Slots(slots, waiting) == IF Free(slots) < Len(waiting) THEN Free(slots) ELSE Len(waiting)

Fronts(queues, S) == {Head(queues[s]) : s \in S}

\* Mutant: every effect is started again after a crash.
NeverRan(e, tries) == FALSE

\* An attempt that the leader has no answer of.
MayHaveRun(e, tries) == e \in AtMostOnce /\ tries[e] > 0

\* The effects that are started, rather than reported, for the sessions in S.
Executed(queues, tries, S) == {e \in Fronts(queues, S) : ~MayHaveRun(e, tries)}

\* Each attempt is journaled before it starts.
Attempted(E, tries) ==
  /\ durableAttempts' = [e \in Effects |-> IF e \in E THEN tries[e] + 1 ELSE durableAttempts[e]]
  /\ started' = [e \in Effects |-> IF e \in E THEN started[e] + 1 ELSE started[e]]

\* Mutant: an attempt after the first has no deadline.
DeadlinesOfFirst(E, tries) == {e \in E \cap Timed : tries[e] = 0}

\* The deadlines of the effects that start.
Deadlines(E, tries) == E \cap Timed

\* dispatch_effects: the first n waiting sessions are dispatched, except those
\* in failing, whose attempt the disk refused.
Dispatch(queues, slots, waiting, tries, n, failing, inbox, alarms) ==
  LET starting == {waiting[k] : k \in 1 .. n} \ failing
      executed == Executed(queues, tries, starting) IN
  /\ pending' = queues
  /\ active' = [s \in Sessions |-> IF s \in starting THEN Head(queues[s]) ELSE slots[s]]
  /\ ready' = SubSeq(waiting, n + 1, Len(waiting))
  /\ attempts' = [e \in Effects |-> IF e \in executed \cup Fronts(queues, failing)
                                      THEN tries[e] + 1 ELSE tries[e]]
  /\ Attempted(executed, tries)
  /\ running' = running \cup executed
  /\ timers' = alarms \cup Deadlines(executed, tries)
  /\ completions' = inbox \cup {[effect |-> e, output |-> "unknown"] :
                                  e \in Fronts(queues, starting) \ executed}
  /\ refused' = (refused \ Range(waiting)) \cup failing

\* The leader dies with all its memory and tasks.
LoseMemory ==
  /\ up' = FALSE
  /\ faults < MaxFaults
  /\ faults' = faults + 1
  /\ pending' = [s \in Sessions |-> <<>>]
  /\ attempts' = [e \in Effects |-> 0]
  /\ active' = [s \in Sessions |-> NoEffect]
  /\ ready' = <<>>
  /\ running' = {}
  /\ cancelled' = {}
  /\ timers' = {}
  /\ completions' = {}
  /\ refused' = {}

-----------------------------------------------------------------------------
(* Transitions: apply_transition, with the effects the application returns *)

\* The record of a transition of s that completes done and requests batch.
Journaled(s, done, batch) ==
  /\ durablePending' = [durablePending EXCEPT ![s] = Replayed(@, done, batch)]
  /\ requested' = [requested EXCEPT ![s] = @ \o batch]

NextQueues(s, done, batch) == [pending EXCEPT ![s] = Replaced(@, done, batch)]
NextSlots(s, done) == IF done = NoEffect THEN active ELSE [active EXCEPT ![s] = NoEffect]
NextWaiting(s, done, batch) ==
  Scheduled(s, NextQueues(s, done, batch), NextSlots(s, done), ready)

\* Memory after the transition: n sessions were dispatched.
Applied(s, done, batch, n, failing, inbox, alarms) ==
  /\ Journaled(s, done, batch)
  /\ Dispatch(NextQueues(s, done, batch), NextSlots(s, done), NextWaiting(s, done, batch),
              attempts, n, failing, inbox, alarms)

\* As many as there are slots.
Width(s, done, batch) == Slots(NextSlots(s, done), NextWaiting(s, done, batch))

\* The leader dies after n sessions were dispatched.
CutShort(s, done, batch, n) ==
  /\ Journaled(s, done, batch)
  /\ Attempted(Executed(NextQueues(s, done, batch), attempts,
                        {NextWaiting(s, done, batch)[k] : k \in 1 .. n}), attempts)
  /\ LoseMemory
  /\ UNCHANGED hosted

\* A command or a poll of s.
Transition(s, batch) ==
  /\ up /\ s \in hosted
  /\ Applied(s, NoEffect, batch, Width(s, NoEffect, batch), {}, completions, timers)
  /\ UNCHANGED <<up, faults, hosted, cancelled, outcomes>>

CutTransition(s, batch, n) ==
  /\ up /\ s \in hosted
  /\ CutShort(s, NoEffect, batch, n)
  /\ UNCHANGED outcomes

\* The disk refuses the attempt record of the n-th session: the client of the
\* command gets the error and the leader goes on.  (When a poll, a completion
\* or a deadline meets the error, run ends: CutTransition and CutResolve.)
RefusedTransition(s, batch, n) ==
  LET t == NextWaiting(s, NoEffect, batch)[n] IN
  /\ up /\ s \in hosted
  /\ faults < MaxFaults
  /\ faults' = faults + 1
  /\ ~MayHaveRun(Head(NextQueues(s, NoEffect, batch)[t]), attempts)
  /\ Applied(s, NoEffect, batch, n, {t}, completions, timers)
  /\ UNCHANGED <<up, hosted, cancelled, outcomes>>

-----------------------------------------------------------------------------
(* Execution, completion and deadline *)

\* The future of the application returns, cancelled or not.
Finish(e) ==
  /\ e \in running
  /\ running' = running \ {e}
  /\ completions' = completions \cup {[effect |-> e, output |-> "returned"]}
  /\ UNCHANGED <<up, hosted, queueVars, cancelled, timers, durableVars, historyVars>>

\* Mutant: every answer counts.
Answered(e) == started[e] > 0

\* e holds the slot of its session.
Current(e) ==
  /\ active[SessionOf[e]] = e
  /\ pending[SessionOf[e]] # <<>>
  /\ Head(pending[SessionOf[e]]) = e

\* Mutant: nothing is cancelled.
CancelNone(S) == UNCHANGED cancelled

Cancel(S) == cancelled' = cancelled \cup S

\* complete_effect reduces the output and applies the transition; the poll
\* that follows may request more effects, which join those of batch.
Resolve(e, output, batch, inbox, alarms) ==
  /\ Current(e)
  /\ Applied(SessionOf[e], e, batch, Width(SessionOf[e], e, batch), {}, inbox, alarms)
  /\ outcomes' = [outcomes EXCEPT ![e] = Append(@, output)]
  /\ UNCHANGED <<up, faults, hosted>>

CutResolve(e, output, batch, n) ==
  /\ Current(e)
  /\ CutShort(SessionOf[e], e, batch, n)
  /\ outcomes' = [outcomes EXCEPT ![e] = Append(@, output)]

EffectCompleted(m, batch) ==
  /\ up /\ m \in completions
  /\ Resolve(m.effect, m.output, batch, completions \ {m}, timers)
  /\ UNCHANGED cancelled

CutCompleted(m, batch, n) ==
  /\ up /\ m \in completions
  /\ CutResolve(m.effect, m.output, batch, n)

\* A completion that comes after the deadline or the end of its session.
IgnoreCompletion(m) ==
  /\ up /\ m \in completions
  /\ ~Current(m.effect)
  /\ completions' = completions \ {m}
  /\ UNCHANGED <<up, hosted, queueVars, running, cancelled, timers, durableVars, historyVars>>

EffectTimedOut(e, batch) ==
  /\ up /\ e \in timers
  /\ Resolve(e, "timed_out", batch, completions, timers \ {e})
  /\ Cancel({e})

CutTimedOut(e, batch, n) ==
  /\ up /\ e \in timers
  /\ CutResolve(e, "timed_out", batch, n)

IgnoreTimeout(e) ==
  /\ up /\ e \in timers
  /\ ~Current(e)
  /\ timers' = timers \ {e}
  /\ UNCHANGED <<up, hosted, queueVars, running, cancelled, completions, durableVars, historyVars>>

-----------------------------------------------------------------------------
(* Sessions and leaders end *)

Unready(s) == Without(ready, s)

\* stop_session cancels the active effect.  It dispatches nothing.
StopSession(s) ==
  /\ up /\ s \in hosted
  /\ hosted' = hosted \ {s}
  /\ Cancel({active[s]} \ {NoEffect})
  /\ pending' = [pending EXCEPT ![s] = <<>>]
  /\ active' = [active EXCEPT ![s] = NoEffect]
  /\ ready' = Unready(s)
  /\ durablePending' = [durablePending EXCEPT ![s] = <<>>]
  /\ refused' = refused \ {s}
  /\ UNCHANGED <<up, faults, attempts, running, timers, completions, durableAttempts,
                 requested, started, outcomes>>

\* The directory cannot be removed: the client gets the error and the session
\* goes on, but its active effect has been cancelled.
StopFails(s) ==
  /\ up /\ s \in hosted /\ active[s] # NoEffect
  /\ faults < MaxFaults
  /\ faults' = faults + 1
  /\ Cancel({active[s]})
  /\ UNCHANGED <<up, hosted, queueVars, running, timers, completions, durableVars,
                 requested, started, outcomes, refused>>

\* persist_checkpoint of the sessions in S.
Checkpoint(S) ==
  /\ durablePending' = [s \in Sessions |-> IF s \in S THEN pending[s] ELSE durablePending[s]]
  /\ durableAttempts' = [e \in Effects |->
       IF SessionOf[e] \in S /\ e \in Range(pending[SessionOf[e]])
         THEN attempts[e] ELSE durableAttempts[e]]

\* A rename writes the checkpoint of s.
RenameSession(s) ==
  /\ up /\ s \in hosted
  /\ Checkpoint({s})
  /\ UNCHANGED <<up, hosted, queueVars, taskVars, historyVars>>

\* The leader dies, or stops and checkpoints first the sessions in saved.
Die(saved) ==
  /\ up /\ saved \subseteq hosted
  /\ Checkpoint(saved)
  /\ LoseMemory
  /\ UNCHANGED <<hosted, requested, started, outcomes>>

Idle == [s \in Sessions |-> NoEffect]
Recovered == {s \in hosted : durablePending[s] # <<>>}

\* dispatch_recovered_effects visits the sessions in any order.
Restart(order) ==
  /\ ~up
  /\ order \in SetToSeqs(Recovered)
  /\ up' = TRUE
  /\ Dispatch(durablePending, Idle, order, durableAttempts, Slots(Idle, order), {}, {}, {})
  /\ UNCHANGED <<hosted, cancelled, durablePending, faults, requested, outcomes>>

CutRestart(order, n) ==
  /\ ~up
  /\ order \in SetToSeqs(Recovered)
  /\ Attempted(Executed(durablePending, durableAttempts, {order[k] : k \in 1 .. n}), durableAttempts)
  /\ LoseMemory
  /\ UNCHANGED <<hosted, durablePending, requested, outcomes>>

-----------------------------------------------------------------------------

Next ==
  \/ \E s \in Sessions : \E batch \in Batches(s) :
       \/ Transition(s, batch)
       \/ \E n \in 0 .. Width(s, NoEffect, batch) : CutTransition(s, batch, n)
       \/ \E n \in 1 .. Width(s, NoEffect, batch) : RefusedTransition(s, batch, n)
  \/ \E e \in Effects : Finish(e)
  \/ \E m \in completions :
       \/ \E batch \in Batches(SessionOf[m.effect]) :
            \/ EffectCompleted(m, batch)
            \/ \E n \in 0 .. Width(SessionOf[m.effect], m.effect, batch) : CutCompleted(m, batch, n)
       \/ IgnoreCompletion(m)
  \/ \E e \in timers :
       \/ \E batch \in Batches(SessionOf[e]) :
            \/ EffectTimedOut(e, batch)
            \/ \E n \in 0 .. Width(SessionOf[e], e, batch) : CutTimedOut(e, batch, n)
       \/ IgnoreTimeout(e)
  \/ \E s \in Sessions : StopSession(s) \/ StopFails(s)
  \/ \E s \in Sessions : RenameSession(s)
  \/ \E saved \in SUBSET Sessions : Die(saved)
  \/ \E order \in SetToSeqs(Recovered) :
       \/ Restart(order)
       \/ \E n \in 0 .. Slots(Idle, order) : CutRestart(order, n)

Spec == Init /\ [][Next]_vars

Handled(m) == IgnoreCompletion(m) \/ \E batch \in Batches(SessionOf[m.effect]) : EffectCompleted(m, batch)
Expired(e) == IgnoreTimeout(e) \/ \E batch \in Batches(SessionOf[e]) : EffectTimedOut(e, batch)

\* The mailbox delivers every message, a deadline passes, an effect without
\* deadline returns, and a client starts a leader when there is none.
Fairness ==
  /\ WF_vars(\E m \in completions : Handled(m))
  /\ WF_vars(\E e \in timers : Expired(e))
  /\ WF_vars(\E e \in Effects \ Timed : Finish(e))
  /\ WF_vars(\E order \in SetToSeqs(Recovered) : Restart(order))

QuietSpec == Spec /\ Fairness

\* The leader is in use: now and then some session has a command, or a poll
\* with output, that asks for no effect.
BusySpec == QuietSpec /\ WF_vars(\E s \in Sessions : Transition(s, <<>>))

-----------------------------------------------------------------------------
(* Properties *)

(***************************************************************************)
(* An at-most-once effect is started at most once, by whichever leader,    *)
(* wherever earlier leaders died and whatever the disk refused.            *)
(***************************************************************************)
RunsAtMostOnce == \A e \in AtMostOnce : started[e] <= 1

(***************************************************************************)
(* An effect has one outcome: a completion that races the deadline or      *)
(* comes from another leader is not reduced again.  It returned or timed   *)
(* out only if it was started, and only an at-most-once effect is reported *)
(* as unknown.                                                             *)
(***************************************************************************)
OutcomesAreHonest ==
  \A e \in Effects :
    /\ Len(outcomes[e]) <= 1
    /\ \A k \in DOMAIN outcomes[e] :
         IF outcomes[e][k] = "unknown" THEN e \in AtMostOnce ELSE started[e] > 0

(***************************************************************************)
(* Effects run sequentially within a session: an effect is started only    *)
(* when every effect its session requested before has its outcome, and not *)
(* again once it has its own.                                              *)
(***************************************************************************)
StartsInOrder ==
  [][\A s \in Sessions : \A k \in DOMAIN requested'[s] :
       started'[requested'[s][k]] # started[requested'[s][k]] =>
         /\ outcomes[requested'[s][k]] = <<>>
         /\ \A j \in 1 .. k - 1 : outcomes'[requested'[s][j]] # <<>>]_vars

(***************************************************************************)
(* No more sessions than the limit hold a slot, also when a leader         *)
(* recovers many sessions at once.                                         *)
(***************************************************************************)
WithinLimit == Cardinality({s \in Sessions : active[s] # NoEffect}) <= Limit

(***************************************************************************)
(* A session with effects to run holds a slot or waits for one, unless the *)
(* disk refused its attempt; a session that waits has effects to run.      *)
(***************************************************************************)
NothingStranded ==
  up => \A s \in hosted :
    (active[s] = NoEffect /\ pending[s] # <<>>) <=> (s \in Range(ready) \cup refused)

(***************************************************************************)
(* An effect that runs without the slot of its session has been cancelled. *)
(***************************************************************************)
OrphansAreCancelled ==
  \A e \in running : active[SessionOf[e]] = e \/ e \in cancelled

(***************************************************************************)
(* Write-ahead: the next leader would load the effects that wait, and at   *)
(* least as many attempts of each as have been started.                    *)
(***************************************************************************)
EffectsAreDurable ==
  up => \A s \in hosted :
    /\ durablePending[s] = pending[s]
    /\ \A e \in Range(pending[s]) :
         started[e] <= durableAttempts[e] /\ durableAttempts[e] <= attempts[e]

(***************************************************************************)
(* What is started is accounted for: on disk before it runs, and with at   *)
(* most one outcome, which is true.                                        *)
(***************************************************************************)
EffectsAccountedFor == EffectsAreDurable /\ OutcomesAreHonest

(***************************************************************************)
(* Slots are used, and not too many: no session is stranded, and the limit *)
(* is kept.                                                                *)
(***************************************************************************)
SlotsAgree == NothingStranded /\ WithinLimit

(***************************************************************************)
(* A requested effect is "redriven until it completes" (application.rs):   *)
(* it comes to an outcome unless its session stops or the disk refused an  *)
(* attempt of it.                                                          *)
(***************************************************************************)
RedrivenUntilComplete ==
  \A e \in Effects :
    e \in Requested(SessionOf[e]) ~>
      \/ outcomes[e] # <<>>
      \/ SessionOf[e] \notin hosted \ refused

(***************************************************************************)
(* "Effects run sequentially within a session" (src/README.md).            *)
(***************************************************************************)
RunSequentially ==
  \A e, f \in running : SessionOf[e] = SessionOf[f] => e = f

=============================================================================
