-------------------------------- MODULE Remote --------------------------------
(***************************************************************************)
(* The screen of one session (RemoteSurface, src/cli/src/remote.rs): the   *)
(* role of the terminal, which drives the session or views it, and the     *)
(* transcript with its scrollback.  The screen talks to the resident       *)
(* through the pump of its connection (src/cli/src/async_client.rs), which *)
(* attaches again when the connection is lost.                             *)
(*                                                                         *)
(* What the leader sends reaches the screen in its order; how it is queued *)
(* and replayed is the subject of Delivery.  The prompt is left out.       *)
(***************************************************************************)
EXTENDS Integers, Sequences, SequencesExt, FiniteSetsExt

CONSTANTS Texts,              \* lines that commands print
          MaxTranscript,      \* MAX_TRANSCRIPT_LINES
          Heights,            \* of the part of the terminal that shows the transcript
          OperationCapacity,
          ReconnectAttempts,
          MaxNotes,           \* bound of the model: of the screen's own lines it shows
          MaxEvents,          \* bound of the model: the leader acts while fewer wait
          MaxInputs           \* bound of the model: keys, losses, acts of others

ASSUME RemoteAssumption ==
  /\ {MaxTranscript, OperationCapacity, ReconnectAttempts, MaxNotes, MaxEvents, MaxInputs}
       \subseteq Nat \ {0}
  /\ Heights # {} /\ Heights \subseteq Nat \ {0}
  /\ Texts # {} /\ Texts \cap {"list", "acquire", "release", "detach", "clear", "interrupt"} = {}

VARIABLES
  session,  \* of the leader: whether it exists, its driver with the epoch, its lines
  link,     \* the attachment: whether it is up, its mode, force, and the times
            \* that the operation under way was tried again
  pump,     \* "runs" or "stopped"
  missed,   \* what the session published while the link was down
  queue,    \* operations that wait for the pump
  events,   \* what waits for the screen
  screen,   \* RemoteSurface
  state,    \* "open", "closed" (the surface) or "left" (the shell)
  inputs

vars == <<session, link, pump, missed, queue, events, screen, state, inputs>>

Drivers == {"none", "us", "other"}
Note == "note"   \* a line that the screen adds itself

NewScreen(lease, lines, height) ==
  [lease |-> lease,        \* epoch of its own lease, or 0: it views the session
   asked |-> FALSE,        \* take_confirmation
   shown |-> lines,        \* snapshot.transcript
   fromBottom |-> 0,       \* scrollback.lines_from_bottom
   height |-> height,      \* scrollback.viewport_height
   error |-> "none"]       \* connection_error

Drives(s) == s.lease # 0

-----------------------------------------------------------------------------
(* Events of the transcript (src/cli/src/app.rs) *)

Latest(lines) ==
  IF Len(lines) <= MaxTranscript THEN lines
  ELSE SubSeq(lines, Len(lines) - MaxTranscript + 1, Len(lines))

\* ShellEvent::between
Between(previous, current) ==
  IF IsPrefix(previous, current)
    THEN [kind |-> "appended", lines |-> SubSeq(current, Len(previous) + 1, Len(current))]
    ELSE [kind |-> "reset", lines |-> current]

\* ShellEvent::apply
AppliedTo(event, shown) ==
  IF event.kind = "appended" THEN Latest(shown \o event.lines) ELSE event.lines

\* transcript_append_count: the longest end of the one that the other starts with
AppendCount(previous, current) ==
  Len(current) - Max({0} \cup {n \in 1 .. Len(previous) :
    IsPrefix(SubSeq(previous, Len(previous) - n + 1, Len(previous)), current)})

AppendedCount(event, shown) ==
  IF event.kind = "appended" THEN Len(event.lines) ELSE AppendCount(shown, event.lines)

-----------------------------------------------------------------------------
(* The scrollback (src/cli/src/command.rs) *)

Smaller(x, y) == IF x <= y THEN x ELSE y
Above(total, height) == IF total <= height THEN 0 ELSE total - height

\* Mutant: new lines move the window.
Follows(s, count) == s

\* Scrollback::appended
Appended(s, count) ==
  IF s.fromBottom = 0 THEN s
  ELSE [s EXCEPT !.fromBottom = Smaller(@ + count, Above(Len(s.shown), s.height))]

ScrolledUp(s, amount) ==
  [s EXCEPT !.fromBottom = Smaller(@ + amount, Above(Len(s.shown), s.height))]

ScrolledDown(s, amount) == [s EXCEPT !.fromBottom = Above(@, amount)]

PageSize(s) == IF s.height <= 2 THEN 1 ELSE s.height - 1

\* Scrollback::window, which a frame of that height is drawn from
Drawn(s, height) ==
  [s EXCEPT !.height = height, !.fromBottom = Smaller(@, Above(Len(s.shown), height))]

Window(s) ==
  LET end == Above(Len(s.shown), s.fromBottom) IN
  SubSeq(s.shown, Above(end, s.height) + 1, end)

-----------------------------------------------------------------------------
(* The leader: each operator gives the session, and what it publishes.     *)

Lease(x) == [driver |-> x.driver, epoch |-> x.epoch]
DriverChanged(x) == [kind |-> "driver", lease |-> Lease(x)]
Published(event) == [kind |-> "event", event |-> event]
Snapshot(x) == [kind |-> "snapshot", lines |-> x.lines]
Completed(reply) == [kind |-> "completed", reply |-> reply]
Failed == [kind |-> "failed"]
Reconnected == [kind |-> "reconnected"]
ShuttingDown == [kind |-> "shutting"]
ShutDown == [kind |-> "shutdown"]

Same == [session |-> session, messages |-> <<>>]

Granted(driver) ==
  LET next == [session EXCEPT !.driver = driver,
                              !.epoch = IF driver = "none" THEN @ ELSE @ + 1] IN
  IF driver = session.driver THEN Same
  ELSE [session |-> next, messages |-> <<DriverChanged(next)>>]

Written(lines) ==
  [session |-> [session EXCEPT !.lines = lines],
   messages |-> IF lines = session.lines THEN <<>>
                ELSE <<Published(Between(session.lines, lines))>>]

Printed(text) == Written(Latest(Append(session.lines, text)))
Cleared == Written(<<>>)

\* The client keeps its attachment as the leader's messages have it.
Observed(l, x) ==
  IF x.messages # <<>> /\ Head(x.messages).kind = "driver"
    THEN [l EXCEPT !.mode = IF x.session.driver = "us" THEN "drive" ELSE "view"]
    ELSE l

\* What is published is replayed to a client that was away.
IsEvent(messages) == messages # <<>> /\ Head(messages).kind = "event"

\* The leader acts on its own or for another client.
Acts(x) ==
  /\ Len(events) < MaxEvents
  /\ session' = x.session
  /\ IF link.up
       THEN /\ events' = events \o x.messages
            /\ link' = Observed(link, x)
            /\ UNCHANGED missed
       ELSE /\ missed' = missed \o (IF IsEvent(x.messages) THEN x.messages ELSE <<>>)
            /\ UNCHANGED <<events, link>>
  /\ UNCHANGED <<pump, queue, screen, state>>

Counted == inputs < MaxInputs /\ inputs' = inputs + 1

OthersAct ==
  /\ session.there /\ Counted
  /\ \/ \E driver \in {"none", "other"} :
          driver # session.driver /\ (driver = "none" => session.driver = "other") /\ Acts(Granted(driver))
     \/ \E text \in Texts : Acts(Printed(text))
     \/ Acts(Cleared)
     \/ Acts([session |-> [session EXCEPT !.there = FALSE, !.driver = "none"], messages |-> <<>>])

-----------------------------------------------------------------------------
(* The pump *)

\* The operation op is carried out: the session, its messages, and the reply.
Carried(op) ==
  CASE op.kind = "list" -> <<Same, [kind |-> "sessions", there |-> session.there, lease |-> Lease(session)]>>
    [] op.kind = "acquire" /\ session.there ->
         <<Granted("us"), [kind |-> "driver", lease |-> Lease(Granted("us").session)]>>
    [] op.kind \in {"release", "detach"} /\ session.driver = "us" ->
         <<Granted("none"), [kind |-> "driver", lease |-> Lease(Granted("none").session)]>>
    [] op.kind = "clear" /\ session.driver = "us" /\ session.epoch = op.epoch ->
         <<Cleared, [kind |-> "accepted"]>>
    [] op.kind = "interrupt" /\ session.driver = "us" /\ session.epoch = op.epoch ->
         <<Same, [kind |-> "accepted"]>>
    [] op.kind \in Texts /\ session.driver = "us" /\ session.epoch = op.epoch ->
         <<Printed(op.kind), [kind |-> "accepted"]>>
    [] OTHER -> <<Same, Failed>>

\* Only an operation that has changed something, or cannot be repeated, ends
\* with the first answer: what is refused is tried again after a reconnection.
IsRepeated(op) == op.kind \in {"clear", "interrupt"} \cup Texts /\ Carried(op)[2] = Failed

Serve ==
  /\ pump = "runs" /\ link.up /\ queue # <<>> /\ Len(events) < MaxEvents
  /\ ~IsRepeated(Head(queue))
  /\ LET x == Carried(Head(queue))[1]
         reply == Carried(Head(queue))[2] IN
     /\ session' = x.session
     /\ events' = events \o x.messages \o <<Completed(reply)>>
     /\ link' = [Observed(link, x) EXCEPT
                   !.force = IF Head(queue).kind = "acquire" /\ reply # Failed THEN TRUE ELSE @,
                   !.tries = 0]
  /\ queue' = Tail(queue)
  /\ UNCHANGED <<pump, missed, screen, state, inputs>>

Released == IF session.driver = "us" THEN [session EXCEPT !.driver = "none"] ELSE session

\* A refused command is tried again on a new connection.
TryAgain ==
  /\ pump = "runs" /\ link.up /\ queue # <<>> /\ IsRepeated(Head(queue))
  /\ link.tries < ReconnectAttempts
  /\ session' = Released
  /\ link' = [link EXCEPT !.up = FALSE, !.tries = @ + 1]
  /\ UNCHANGED <<pump, missed, queue, events, screen, state, inputs>>

GiveUp ==
  /\ pump = "runs" /\ link.up /\ queue # <<>> /\ IsRepeated(Head(queue))
  /\ link.tries = ReconnectAttempts /\ Len(events) < MaxEvents
  /\ link' = [link EXCEPT !.tries = 0]
  /\ events' = Append(events, Completed(Failed))
  /\ queue' = Tail(queue)
  /\ UNCHANGED <<session, pump, missed, screen, state, inputs>>

\* The connection is lost, and with it the lease.  The outcome of the
\* operation under way is unknown unless it is repeated.
Lose ==
  /\ Counted /\ pump = "runs" /\ link.up
  /\ session' = Released
  /\ link' = [link EXCEPT !.up = FALSE]
  /\ \/ UNCHANGED <<queue, events>>
     \/ /\ queue # <<>> /\ Head(queue).kind \in {"acquire", "release", "detach"}
        /\ queue' = Tail(queue)
        /\ events' = Append(events, Completed(Failed))
  /\ UNCHANGED <<pump, missed, screen, state>>

IsRefused == ~session.there \/ (link.mode = "drive" /\ session.driver = "other" /\ ~link.force)

\* reconnect: the client attaches as it was, and is sent what it has missed.
Rejoin ==
  /\ pump = "runs" /\ ~link.up /\ ~IsRefused
  /\ LET x == IF link.mode = "drive" THEN Granted("us") ELSE Same IN
     /\ session' = x.session
     /\ \E replayed \in {missed, <<Snapshot(session)>>} :
          events' = events \o x.messages \o replayed \o <<Reconnected>>
  /\ link' = [link EXCEPT !.up = TRUE]
  /\ missed' = <<>>
  /\ UNCHANGED <<pump, queue, screen, state, inputs>>

\* It is refused, or there is no leader: the pump stops.
StopPump ==
  /\ pump = "runs" /\ ~link.up
  /\ \/ IsRefused /\ UNCHANGED inputs
     \/ Counted
  /\ pump' = "stopped"
  /\ events' = events \o [i \in 1 .. Len(queue) + 1 |-> Completed(Failed)]
  /\ queue' = <<>>
  /\ UNCHANGED <<session, link, missed, screen, state>>

\* The leader announces that it stops, and stops: for an upgrade it is replaced.
LeaderStops ==
  /\ Counted /\ link.up /\ pump = "runs" /\ Len(events) < MaxEvents
  /\ session' = Released
  /\ \E last \in {<<>>, <<ShutDown>>} : events' = events \o <<ShuttingDown>> \o last
  /\ link' = [link EXCEPT !.up = FALSE]
  /\ UNCHANGED <<pump, missed, queue, screen, state>>

-----------------------------------------------------------------------------
(* The screen: operators take it and give it *)

WithNote(s) ==
  IF Cardinality({i \in DOMAIN s.shown : s.shown[i] = Note}) = MaxNotes THEN s
  ELSE [s EXCEPT !.shown = Append(@, Note)]

\* fail
Noted(s, error) == IF s.error = error THEN s ELSE [WithNote(s) EXCEPT !.error = error]

\* Mutant: the question outlives the role that it was asked in.
WithRole(s, lease) == [s EXCEPT !.lease = IF lease.driver = "us" THEN lease.epoch ELSE 0]

\* Mutant: only a change between driving and viewing counts, not a new lease.
WithMode(s, lease) ==
  IF Drives(s) = (lease.driver = "us") THEN s ELSE [WithRole(s, lease) EXCEPT !.asked = FALSE]

\* apply_driver
ApplyDriver(s, lease) ==
  LET owned == IF lease.driver = "us" THEN lease.epoch ELSE 0 IN
  IF s.lease = owned THEN s ELSE [s EXCEPT !.lease = owned, !.asked = FALSE]

Ui == [s |-> screen, queue |-> queue, state |-> state]
With(s) == [Ui EXCEPT !.s = s]

\* enqueue
Enqueued(x, op) ==
  IF pump # "runs" THEN [x EXCEPT !.s = Noted(@, "closed")]
  ELSE IF Len(x.queue) = OperationCapacity THEN [x EXCEPT !.s = Noted(@, "full")]
  ELSE [x EXCEPT !.queue = Append(@, op)]

Operation(kind) == [kind |-> kind, epoch |-> screen.lease]

\* command
Command(kind) ==
  IF ~Drives(screen) THEN With(Noted(screen, "viewing"))
  ELSE LET x == Enqueued(Ui, Operation(kind)) IN
       IF x.queue = queue THEN x ELSE [x EXCEPT !.s.error = "none"]

Becomes(x) == screen' = x.s /\ queue' = x.queue /\ state' = x.state

Handles(x) ==
  /\ state = "open"
  /\ Becomes(x)
  /\ UNCHANGED <<session, link, pump, missed, events>>

\* The leader keys of the shell and the wheel scroll whatever is asked.
Pages == {ScrolledUp(screen, PageSize(screen)), ScrolledDown(screen, PageSize(screen))}

ScrollKeys ==
  {[screen EXCEPT !.fromBottom = Above(Len(screen.shown), screen.height)],
   [screen EXCEPT !.fromBottom = 0]}

\* take_driver
TakeDriver == IF Drives(screen) THEN Ui ELSE With([screen EXCEPT !.asked = TRUE])

\* A question is answered before any other key is looked at.
Answers ==
  {Enqueued(With([screen EXCEPT !.asked = FALSE]), Operation("acquire")),
   With([screen EXCEPT !.asked = FALSE])}

ReleaseControl == Enqueued(Ui, Operation("release"))

\* submit: a line that is entered runs, or is ":detach", which leaves whether or
\* not the operation was queued.
Submit ==
  IF ~Drives(screen) THEN {Ui}
  ELSE {Command(text) : text \in Texts} \cup {[Enqueued(Ui, Operation("detach")) EXCEPT !.state = "left"]}

Keys ==
  IF screen.asked THEN Answers
  ELSE {TakeDriver, ReleaseControl, Command("clear"), Command("interrupt"), [Ui EXCEPT !.state = "left"]}
       \cup Submit \cup {With(s) : s \in ScrollKeys}

\* The palette runs the commands of the role, while a question is asked too.
ExecuteCommand ==
  IF Drives(screen) THEN {Command("clear"), Command("interrupt"), ReleaseControl} ELSE {TakeDriver}

Key == Counted /\ \E x \in Keys \cup ExecuteCommand \cup {With(s) : s \in Pages} : Handles(x)

\* A frame, of the terminal as it is or with another size
Draw == UNCHANGED inputs /\ Handles(With(Drawn(screen, screen.height)))
Resize == Counted /\ \E height \in Heights : Handles(With(Drawn(screen, height)))

\* refresh_metadata, every two seconds
Tick == Handles(Enqueued(Ui, Operation("list"))) /\ UNCHANGED inputs

\* apply_result
ApplyResult(reply) ==
  CASE reply.kind = "accepted" -> With([screen EXCEPT !.error = "none"])
    [] reply.kind = "driver" -> With(ApplyDriver(screen, reply.lease))
    [] reply.kind = "sessions" /\ ~reply.there -> [Ui EXCEPT !.state = "closed"]
    [] reply.kind = "sessions" /\ reply.there -> With(ApplyDriver(screen, reply.lease))
    [] reply = Failed -> With(Noted(screen, "failed"))

Scrolled(event) ==
  Appended([screen EXCEPT !.shown = AppliedTo(event, screen.shown)],
           AppendedCount(event, screen.shown))

\* apply_messages
ApplyMessage(message) ==
  CASE message.kind = "driver" -> With(ApplyDriver(screen, message.lease))
    [] message.kind = "event" -> With(Scrolled(message.event))
    [] message.kind = "snapshot" -> With(Scrolled([kind |-> "reset", lines |-> message.lines]))
    [] message.kind = "shutting" -> With(WithNote(screen))
    [] message.kind = "shutdown" -> [Ui EXCEPT !.state = "left"]

\* apply_client_event
Applied(event) ==
  CASE event.kind = "completed" -> ApplyResult(event.reply)
    [] event.kind = "reconnected" -> With([screen EXCEPT !.error = "none"])
    [] OTHER -> ApplyMessage(event)

\* poll_background
Poll ==
  /\ state = "open"
  /\ \/ /\ events # <<>>
        /\ Becomes(Applied(Head(events)))
        /\ events' = Tail(events)
     \/ /\ events = <<>> /\ pump = "stopped"
        /\ Becomes(With(Noted(screen, "stopped")))
        /\ UNCHANGED events
  /\ UNCHANGED <<session, link, pump, missed, inputs>>

-----------------------------------------------------------------------------
Init ==
  /\ \E driver \in {"none", "us", "other"}, height \in Heights :
       LET lines == [i \in 1 .. MaxTranscript - 1 |-> CHOOSE text \in Texts : TRUE] IN
       /\ session = [there |-> TRUE, driver |-> driver, epoch |-> 1, lines |-> lines]
       /\ screen = NewScreen(IF driver = "us" THEN 1 ELSE 0, lines, height)
       /\ \E force \in {FALSE, driver = "us"} :
            link = [up |-> TRUE, mode |-> IF driver = "us" THEN "drive" ELSE "view",
                    force |-> force, tries |-> 0]
  /\ pump = "runs" /\ missed = <<>> /\ queue = <<>> /\ events = <<>>
  /\ state = "open" /\ inputs = 0

Next ==
  \/ OthersAct \/ Serve \/ TryAgain \/ GiveUp \/ Lose \/ Rejoin \/ StopPump \/ LeaderStops
  \/ Key \/ Draw \/ Resize \/ Tick \/ Poll

Spec == Init /\ [][Next]_vars

(***************************************************************************)
(* The shell ticks its surfaces and polls them in turn; the pump serves    *)
(* what waits, and tries again a bounded number of times.                  *)
(***************************************************************************)
FairSpec ==
  Spec /\ WF_vars(Serve) /\ WF_vars(TryAgain) /\ WF_vars(GiveUp) /\ WF_vars(Tick) /\ WF_vars(Poll)
       /\ WF_vars(Rejoin) /\ WF_vars(StopPump)

-----------------------------------------------------------------------------
(* Properties *)

RemoteTypeOK ==
  /\ session.driver \in Drivers /\ session.epoch \in Nat
  /\ Len(session.lines) <= MaxTranscript
  /\ screen.lease \in 0 .. session.epoch
  /\ screen.fromBottom \in Nat /\ screen.height \in Heights
  /\ Len(queue) <= OperationCapacity

(***************************************************************************)
(* The question whether to take control stands on a screen that views the  *)
(* session only, whatever the role became while it stood.                  *)
(***************************************************************************)
QuestionIsOpen == screen.asked => ~Drives(screen)

(***************************************************************************)
(* What the session prints does not move a screen that reads its history:  *)
(* it shows the same lines, or the oldest ones that are left.              *)
(***************************************************************************)
PlaceKept ==
  [][screen.fromBottom > 0 /\ events # <<>> /\ events' = Tail(events)
       /\ Head(events).kind \in {"event", "snapshot"} =>
       \/ Window(screen') = Window(screen)
       \/ screen'.fromBottom = Above(Len(screen'.shown), screen'.height)]_vars

(***************************************************************************)
(* The screen catches up with its session as long as there is a pump: with *)
(* who drives it, and with its end.                                        *)
(***************************************************************************)
IsOver == state # "open" \/ pump # "runs"

RoleCatchesUp ==
  <>[](IsOver \/ screen.lease = IF session.driver = "us" THEN session.epoch ELSE 0)

ClosesWithSession == ~session.there ~> IsOver

ScreenCatchesUp == RoleCatchesUp /\ ClosesWithSession
=============================================================================
