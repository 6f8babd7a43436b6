----------------------------- MODULE EffectWake -----------------------------
(***************************************************************************)
(* One attempt of an effect that runs a command: how its threads make the  *)
(* actor of the host poll the session (EffectWake, application.rs and      *)
(* session_wake, host.rs), and how the actor tells it that it is cancelled *)
(* (EffectCancellation).                                                   *)
(*                                                                         *)
(* A wake passes from the thread that sets the flag to a channel of one,   *)
(* from there to the forwarder and to the mailbox of the actor, which      *)
(* clears the flag before it polls.  Meanwhile no thread sends another.    *)
(* The code of a command is set before its last Sender is dropped, as for  *)
(* a command of the worker.                                                *)
(* Each step is an access to one atomic, one channel or one locked slot.   *)
(***************************************************************************)
EXTENDS Naturals, Sequences

CONSTANTS Readers,   \* the threads that read the output of the command
          Waiters,   \* the futures that wait for the cancellation
          Capacity,  \* of the mailbox of the actor
          MaxLines   \* bound of the model: lines of output

VARIABLES
  reader,     \* each thread: how far it is, whether it reads on, whether its Sender is dropped
  unread,     \* lines in the channel of the output
  lines,      \* lines sent so far, for the bound
  queued,     \* EffectWakeState::queued
  channel,    \* whether the channel of one holds the wake
  forwarder,  \* the task of session_wake
  mailbox,    \* Incoming messages
  awaited,    \* Incoming messages that come at most once, and are still to come
  actor,      \* what HostState::run is about
  active,     \* whether the attempt is the active effect of its session
  running,    \* where the RunningCommand is: with the effect, the session, or dropped
  cancelled,  \* CancellationState::cancelled
  waker,      \* CancellationState::waker: the future to wake, if there is one
  waiter,     \* each future: how far it is, and whether it was woken
  displaced   \* history: the futures whose waker another one's has replaced

output == <<reader, unread, lines>>
wake == <<queued, channel, forwarder>>
host == <<mailbox, awaited, actor, active, running>>
cancellation == <<cancelled, waker, waiter, displaced>>
vars == <<output, wake, host, cancellation>>

Init ==
  /\ reader = [r \in Readers |-> [at |-> "reading", last |-> FALSE, closed |-> FALSE]]
  /\ unread = 0 /\ lines = 0
  /\ queued = FALSE /\ channel = FALSE /\ forwarder = "receiving"
  /\ mailbox = <<>>
  /\ awaited = {"completed", "timedOut", "stop"}
  /\ actor = "idle"
  /\ active = TRUE
  /\ running = "effect"
  /\ cancelled = FALSE
  /\ waker = {}
  /\ waiter = [w \in Waiters |-> [at |-> "away", woken |-> FALSE]]
  /\ displaced = {}

-----------------------------------------------------------------------------
(* The threads that read *)

Reads(r) == reader[r].at = "reading" /\ ~reader[r].last

Becomes(r, x) == reader' = [reader EXCEPT ![r] = x]

\* A frame arrives: a line, or one without text (Ready).
Line(r) ==
  /\ Reads(r) /\ running # "dropped" /\ lines < MaxLines
  /\ unread' \in {unread, unread + 1}
  /\ lines' = lines + 1
  /\ Becomes(r, [reader[r] EXCEPT !.at = "notifying"])
  /\ UNCHANGED <<wake, host, cancellation>>

\* Completed: the Sender is dropped, and then the actor is notified.
Complete(r) ==
  /\ Reads(r)
  /\ Becomes(r, [at |-> "notifying", last |-> TRUE, closed |-> TRUE])
  /\ UNCHANGED <<unread, lines, wake, host, cancellation>>

\* The stream breaks, which is a line of its own, or ends, or nobody receives:
\* the actor is notified, and then the Sender is dropped with the thread.
Break(r) ==
  /\ Reads(r)
  /\ unread' \in {unread, unread + 1}
  /\ Becomes(r, [at |-> "notifying", last |-> TRUE, closed |-> FALSE])
  /\ UNCHANGED <<lines, wake, host, cancellation>>

Drop(r) ==
  /\ reader[r].at = "reading" /\ reader[r].last /\ ~reader[r].closed
  /\ Becomes(r, [reader[r] EXCEPT !.closed = TRUE])
  /\ UNCHANGED <<unread, lines, wake, host, cancellation>>

\* notify: who sets the flag sends the wake.
Notify(r) ==
  /\ reader[r].at = "notifying"
  /\ queued' = TRUE
  /\ Becomes(r, [reader[r] EXCEPT !.at = IF queued THEN "reading" ELSE "sending"])
  /\ UNCHANGED <<unread, lines, channel, forwarder, host, cancellation>>

\* try_send; the flag is cleared if the channel is full or closed.
TrySend(r) ==
  LET sends == ~channel /\ forwarder # "gone" IN
  /\ reader[r].at = "sending"
  /\ channel' = (channel \/ sends)
  /\ queued' = (queued /\ sends)
  /\ Becomes(r, [reader[r] EXCEPT !.at = "reading"])
  /\ UNCHANGED <<unread, lines, forwarder, host, cancellation>>

-----------------------------------------------------------------------------
(* The forwarder, and what else comes to the mailbox *)

HasRoom == actor # "down" /\ Len(mailbox) < Capacity

Forward ==
  /\ forwarder = "receiving" /\ channel
  /\ channel' = FALSE
  /\ forwarder' = "sending"
  /\ UNCHANGED <<output, queued, host, cancellation>>

Deliver ==
  /\ forwarder = "sending" /\ HasRoom
  /\ forwarder' = "receiving"
  /\ mailbox' = Append(mailbox, "ready")
  /\ UNCHANGED <<output, queued, channel, awaited, actor, active, running, cancellation>>

\* The mailbox is closed.
DeliverFails ==
  /\ forwarder = "sending" /\ actor = "down"
  /\ forwarder' = "gone"
  /\ queued' = FALSE
  /\ UNCHANGED <<output, channel, host, cancellation>>

\* The effect returns, its deadline passes, or a client stops the session.
Post(message) ==
  /\ message \in awaited /\ HasRoom
  /\ awaited' = awaited \ {message}
  /\ mailbox' = Append(mailbox, message)
  /\ UNCHANGED <<output, wake, actor, active, running, cancellation>>

Tick ==
  /\ HasRoom
  /\ mailbox' = Append(mailbox, "tick")
  /\ UNCHANGED <<output, wake, awaited, actor, active, running, cancellation>>

-----------------------------------------------------------------------------
(* The actor *)

Receives(message) ==
  /\ actor = "idle" /\ mailbox # <<>> /\ Head(mailbox) = message
  /\ mailbox' = Tail(mailbox)

\* SessionReady: acknowledged, and then polled.
HandleReady ==
  /\ Receives("ready")
  /\ queued' = FALSE
  /\ actor' = "polling"
  /\ UNCHANGED <<output, channel, forwarder, awaited, active, running, cancellation>>

HandleTick ==
  /\ Receives("tick")
  /\ actor' = "polling"
  /\ UNCHANGED <<output, wake, awaited, active, running, cancellation>>

\* complete_effect: what comes too late is dropped.
HandleCompleted ==
  /\ Receives("completed")
  /\ active' = FALSE
  /\ IF active THEN running' = "session" /\ actor' = "polling"
               ELSE running' = "dropped" /\ UNCHANGED actor
  /\ UNCHANGED <<output, wake, awaited, cancellation>>

\* cancel, its first half.
Cancels == cancelled' = TRUE /\ actor' = "cancelling"

HandleTimedOut ==
  /\ Receives("timedOut")
  /\ IF active THEN Cancels ELSE UNCHANGED <<cancelled, actor>>
  /\ active' = FALSE
  /\ UNCHANGED <<output, wake, awaited, running, waker, waiter, displaced>>

\* The command that the session has is dropped with it.
HandleStop ==
  /\ Receives("stop")
  /\ IF active THEN Cancels ELSE UNCHANGED <<cancelled, actor>>
  /\ active' = FALSE
  /\ running' = IF running = "session" THEN "dropped" ELSE running
  /\ UNCHANGED <<output, wake, awaited, waker, waiter, displaced>>

\* cancel, its second half: the waker that is in the slot is woken.
WakeWaiter ==
  /\ actor = "cancelling"
  /\ waker' = {}
  /\ waiter' = [w \in Waiters |->
                  IF w \in waker THEN [waiter[w] EXCEPT !.woken = TRUE] ELSE waiter[w]]
  /\ actor' = "polling"
  /\ UNCHANGED <<output, wake, mailbox, awaited, active, running, cancelled, displaced>>

\* poll_command: one try_recv of its loop.
TakeLine ==
  /\ actor = "polling" /\ running = "session" /\ unread # 0
  /\ unread' = unread - 1
  /\ UNCHANGED <<reader, lines, wake, host, cancellation>>

AllClosed == \A r \in Readers : reader[r].closed

\* The last one: nothing is there, or no Sender is left and the command is over.
EndPoll ==
  /\ actor = "polling" /\ (running = "session" => unread = 0)
  /\ actor' = "idle"
  /\ running' = IF running = "session" /\ AllClosed THEN "dropped" ELSE running
  /\ UNCHANGED <<output, wake, mailbox, awaited, active, cancellation>>

\* run returns: messages that were not handled are dropped with the mailbox.
Shutdown ==
  /\ actor = "idle"
  /\ actor' = "down"
  /\ mailbox' = <<>>
  /\ UNCHANGED <<output, wake, awaited, active, running, cancellation>>

-----------------------------------------------------------------------------
(* Cancelled::poll *)

Advances(w, at) == waiter' = [waiter EXCEPT ![w] = [at |-> at, woken |-> FALSE]]

\* It is polled first, when it was woken, or for another reason.
PollCancelled(w) ==
  /\ waiter[w].at \in {"away", "waiting"}
  /\ Advances(w, IF cancelled THEN "resolved" ELSE "checked")
  /\ UNCHANGED <<output, wake, host, cancelled, waker, displaced>>

\* Under the lock.
Register(w) ==
  /\ waiter[w].at = "checked"
  /\ Advances(w, IF cancelled THEN "resolved" ELSE "waiting")
  /\ waker' = IF cancelled THEN waker ELSE {w}
  /\ displaced' = IF cancelled THEN displaced ELSE (displaced \cup waker) \ {w}
  /\ UNCHANGED <<output, wake, host, cancelled>>

-----------------------------------------------------------------------------

ReaderStep(r) == Line(r) \/ Complete(r) \/ Drop(r) \/ Notify(r) \/ TrySend(r)
ForwarderStep == Forward \/ Deliver \/ DeliverFails
Handle == HandleReady \/ HandleTick \/ HandleCompleted \/ HandleTimedOut \/ HandleStop
Arrival == Tick \/ \E message \in awaited : Post(message)

\* Every stream ends with Completed.
CleanNext ==
  \/ \E r \in Readers : ReaderStep(r)
  \/ ForwarderStep \/ Arrival
  \/ Handle \/ WakeWaiter \/ TakeLine \/ EndPoll \/ Shutdown
  \/ \E w \in Waiters : PollCancelled(w) \/ Register(w)

Next == CleanNext \/ \E r \in Readers : Break(r)

Spec == Init /\ [][Next]_vars
CleanSpec == Init /\ [][CleanNext]_vars

-----------------------------------------------------------------------------
(* Properties *)

InMailbox == \E i \in DOMAIN mailbox : mailbox[i] = "ready"

\* A wake is on its way to the actor, or will be.
IsUnderWay ==
  \/ \E r \in Readers : reader[r].at \in {"notifying", "sending"}
  \/ channel \/ forwarder = "sending" \/ InMailbox

WakeTypeOK ==
  /\ reader \in [Readers -> [at : {"reading", "notifying", "sending"}, last : BOOLEAN, closed : BOOLEAN]]
  /\ {queued, channel, active, cancelled} \subseteq BOOLEAN
  /\ forwarder \in {"receiving", "sending", "gone"}
  /\ mailbox \in Seq({"ready", "tick", "completed", "timedOut", "stop"})
  /\ awaited \subseteq {"completed", "timedOut", "stop"}
  /\ actor \in {"idle", "cancelling", "polling", "down"}
  /\ running \in {"effect", "session", "dropped"}
  /\ waker \subseteq Waiters /\ displaced \subseteq Waiters
  /\ waiter \in [Waiters -> [at : {"away", "checked", "waiting", "resolved"}, woken : BOOLEAN]]

(***************************************************************************)
(* A wake is never lost: when the actor has nothing to do although the     *)
(* session's command has output, a wake is under way ("an early coalesced  *)
(* wake cannot be lost behind the periodic fallback tick", host.rs:976):   *)
(* one that came before the effect completed, one that is coalesced while  *)
(* the actor clears the flag, one that finds the mailbox full.             *)
(***************************************************************************)
NoWakeLost == actor = "idle" /\ running = "session" /\ unread # 0 => IsUnderWay

(***************************************************************************)
(* Nor is the wake for the end of the command, so that the next one in the *)
(* queue starts without waiting for a tick.                                *)
(***************************************************************************)
NoEndLost == actor = "idle" /\ running = "session" /\ AllClosed => IsUnderWay

(***************************************************************************)
(* "Full is unreachable while EffectWake's own queued bit is set"          *)
(* (host.rs:1409): at most one wake is anywhere between the flag and the   *)
(* acknowledgement.                                                        *)
(***************************************************************************)
FullIsUnreachable == \A r \in Readers : reader[r].at = "sending" => ~channel

(***************************************************************************)
(* A future that waits for the cancellation is woken by it ("Resolves when *)
(* cancellation is requested", application.rs:133), also when it registers *)
(* while the actor cancels.                                                *)
(***************************************************************************)
CancellationIsTold ==
  cancelled /\ actor # "cancelling" =>
    \A w \in Waiters : waiter[w].at = "waiting" => waiter[w].woken

(***************************************************************************)
(* What the slot of one waker is good for, however many futures wait: only *)
(* the registration of another one can keep the cancellation from a future *)
(* that waits, and not that it registers while the actor cancels, or was   *)
(* polled before for another reason; and one of them is always in time.    *)
(***************************************************************************)
LastIsTold ==
  /\ cancelled /\ actor # "cancelling" =>
       \A w \in Waiters \ displaced : waiter[w].at = "waiting" => waiter[w].woken
  /\ displaced # {} => \E w \in Waiters \ displaced : waiter[w].at # "away"

(***************************************************************************)
(* The flag is never left set without a wake ("A closed forwarder must not *)
(* leave a retained wake handle permanently coalesced", host.rs:1408).     *)
(***************************************************************************)
NeverStuckCoalesced == queued => IsUnderWay
=============================================================================
