------------------------------ MODULE Dashboard ------------------------------
(***************************************************************************)
(* The overview of the resident's sessions (src/cli/src/overview.rs):      *)
(* a surface of the shell that lists the sessions, opens a screen for one  *)
(* (a RemoteSurface, src/cli/src/remote.rs, which has a connection of its  *)
(* own), and creates, renames and deletes sessions through the pump of its *)
(* connection (src/cli/src/async_client.rs).                               *)
(*                                                                         *)
(* Replies, the screens that tasks have attached, and the shell's keys     *)
(* reach the dashboard in any order.  The resident is what LeaderCore      *)
(* makes of it; other clients change it at any time.                       *)
(***************************************************************************)
EXTENDS Integers, Sequences, SequencesExt, FiniteSets, Functions

NoName == 0

CONSTANTS Sessions,           \* identities of sessions
          Names,              \* numbers, in their order
          OperationCapacity,  \* requests that wait for the pump
          EventCapacity,      \* what waits for the dashboard
          MaxInputs           \* bound of the model: commands, failures, acts of other clients

ASSUME DashboardAssumption ==
  /\ {OperationCapacity, EventCapacity, MaxInputs} \subseteq Nat
  /\ Names \subseteq Nat \ {NoName}
  /\ Sessions # {} /\ Names # {}

VARIABLES
  leader,    \* sessions of the resident in the order of their names: id, name and driver
  unborn,    \* identities that no session has had
  queue,     \* requests that the pump has not sent
  events,    \* what the pump has for the dashboard
  pump,      \* "runs" or "stopped"
  inputs,
  tasks,     \* attachments that are under way
  opened,    \* results of attachments
  registry,  \* open_sessions: sessions that have a screen
  screens,   \* sessions of the screens in the shell
  dash,      \* SessionDashboard
  app        \* "runs", "closed" (the dashboard), or "left" (the shell)

clientVars == <<tasks, opened, registry, screens>>
vars == <<leader, unborn, queue, events, pump, inputs, clientVars, dash, app>>

Drivers == {"none", "us", "other"}
NoSession == [kind |-> "none"]

Browse == [kind |-> "browse"]
Search == [kind |-> "search"]
Create == [kind |-> "create"]
Rename(id) == [kind |-> "rename", id |-> id]
ConfirmTake(id) == [kind |-> "take", id |-> id]
ConfirmDelete(id) == [kind |-> "delete", id |-> id]
ConfirmStopLeader == [kind |-> "stop"]

Refresh == [kind |-> "refresh"]

IsTyped(d) == d.mode.kind \in {"search", "create", "rename"}
IsAsked(d) == d.mode.kind \in {"take", "delete", "stop"}

NewDash(listed) ==
  [listed |-> listed, selected |-> 0, query |-> NoName, mode |-> Browse,
   pending |-> <<>>, opening |-> {}]

-----------------------------------------------------------------------------
(* The resident *)

PositionOf(list, id) == SelectInSeq(list, LAMBDA session : session.id = id)
IsThere(id) == PositionOf(leader, id) # 0
IsTaken(name, id) == \E i \in DOMAIN leader : leader[i].name = name /\ leader[i].id # id

\* A list is in the order of names, which are distinct.
Placed(list, session) ==
  InsertAt(list, 1 + Cardinality({i \in DOMAIN list : list[i].name < session.name}), session)
Driven(id, driver) == [leader EXCEPT ![PositionOf(leader, id)].driver = driver]

\* The resident carries out a request: its sessions, and the reply.
Failed == [kind |-> "failed"]

Carried(op) ==
  CASE op.kind = "refresh" -> [list |-> leader, reply |-> [kind |-> "sessions", sessions |-> leader]]
    [] op.kind = "create" /\ ~IsTaken(op.name, {}) /\ unborn # {} ->
         LET session == [id |-> CHOOSE id \in unborn : TRUE, name |-> op.name, driver |-> "none"] IN
         [list |-> Placed(leader, session), reply |-> [kind |-> "created", session |-> session]]
    [] op.kind = "rename" /\ IsThere(op.id) /\ ~IsTaken(op.name, op.id) ->
         LET position == PositionOf(leader, op.id) IN
         [list |-> Placed(RemoveAt(leader, position), [leader[position] EXCEPT !.name = op.name]),
          reply |-> [kind |-> "renamed"]]
    [] op.kind = "delete" /\ IsThere(op.id) ->
         [list |-> RemoveAt(leader, PositionOf(leader, op.id)), reply |-> [kind |-> "stopping"]]
    [] op.kind = "stop" -> [list |-> leader, reply |-> [kind |-> "stopping"]]
    [] OTHER -> [list |-> leader, reply |-> Failed]

Changed(list) ==
  /\ leader' = list
  /\ unborn' = unborn \ {list[i].id : i \in DOMAIN list}

-----------------------------------------------------------------------------
(* The pump takes one request after the other; what was read may be read   *)
(* again after a reconnection, of anything else the outcome is unknown.    *)

Completion(request, reply) == [kind |-> "completed", id |-> request.id, reply |-> reply]
Reconnected == [kind |-> "reconnected"]
ShutDown == [kind |-> "shutdown"]

CanPush == pump = "runs" /\ Len(events) < EventCapacity

Serve ==
  /\ CanPush /\ queue # <<>>
  /\ LET request == Head(queue) IN
     /\ Changed(Carried(request.op).list)
     /\ events' = Append(events, Completion(request, Carried(request.op).reply))
  /\ queue' = Tail(queue)
  /\ UNCHANGED <<pump, inputs, clientVars, dash, app>>

\* The connection is lost in the course of a request that is not repeated.
LoseReply ==
  /\ CanPush /\ inputs < MaxInputs /\ queue # <<>> /\ Head(queue).op # Refresh
  /\ \/ Changed(Carried(Head(queue).op).list)
     \/ UNCHANGED <<leader, unborn>>
  /\ events' = Append(events, Completion(Head(queue), Failed))
  /\ queue' = Tail(queue)
  /\ inputs' = inputs + 1
  /\ UNCHANGED <<pump, clientVars, dash, app>>

Reconnect ==
  /\ CanPush /\ inputs < MaxInputs
  /\ events' = Append(events, Reconnected)
  /\ inputs' = inputs + 1
  /\ UNCHANGED <<leader, unborn, queue, pump, clientVars, dash, app>>

\* No leader can be reached, or the surface has dropped its handle: requests
\* that wait are answered.
StopPump ==
  /\ pump = "runs" /\ inputs < MaxInputs
  /\ pump' = "stopped"
  /\ events' = events \o [i \in DOMAIN queue |-> Completion(queue[i], Failed)]
  /\ queue' = <<>>
  /\ inputs' = inputs + 1
  /\ UNCHANGED <<leader, unborn, clientVars, dash, app>>

\* The leader stops for good, on behalf of another client.
LeaderShutsDown ==
  /\ CanPush /\ inputs < MaxInputs
  /\ events' = Append(events, ShutDown)
  /\ inputs' = inputs + 1
  /\ UNCHANGED <<leader, unborn, queue, pump, clientVars, dash, app>>

-----------------------------------------------------------------------------
(* The dashboard as a function of its state *)

\* A query is found in the name that is equal to it: names are distinct.
Filtered(d) ==
  LET named == SelectInSeq(d.listed, LAMBDA session : session.name = d.query) IN
  IF d.query = NoName THEN d.listed ELSE IF named = 0 THEN <<>> ELSE <<d.listed[named]>>

SelectedSession(d) ==
  IF d.selected < Len(Filtered(d)) THEN Filtered(d)[d.selected + 1] ELSE NoSession

AtMost(x, y) == IF x <= y THEN x ELSE y
LastOf(list) == IF list = <<>> THEN 0 ELSE Len(list) - 1

MoveSelection(d, delta) ==
  LET last == LastOf(Filtered(d)) IN
  [d EXCEPT !.selected =
     IF Filtered(d) = <<>> THEN 0
     ELSE IF delta < 0 THEN (IF @ + delta < 0 THEN 0 ELSE @ + delta)
     ELSE AtMost(@ + delta, last)]

ReplaceSessions(d, list) ==
  LET next == [d EXCEPT !.listed = list] IN
  [next EXCEPT !.selected = AtMost(@, LastOf(Filtered(next)))]

FreshId(d) == CHOOSE id \in 1 .. Cardinality(DOMAIN d.pending) + 1 : id \notin DOMAIN d.pending

\* What a handler of the dashboard changes: the dashboard itself, what it
\* asks the pump for, the attachments it starts, and the shell.
Ui == [d |-> dash, queue |-> queue, tasks |-> tasks, app |-> app]

With(d) == [Ui EXCEPT !.d = d]
InMode(x, mode) == [x EXCEPT !.d.mode = mode]
Cleared(x) == [x EXCEPT !.d.query = NoName]
Left(x) == [x EXCEPT !.app = "left"]

Becomes(x) ==
  /\ dash' = x.d
  /\ queue' = x.queue
  /\ tasks' = x.tasks
  /\ app' = x.app

\* request: it fails when the queue is full or the pump has stopped.
Requested(x, op) ==
  IF pump # "runs" \/ Len(x.queue) = OperationCapacity THEN x
  ELSE LET fresh == FreshId(x.d) IN
       [x EXCEPT !.d.pending = [id \in DOMAIN @ \cup {fresh} |-> IF id = fresh THEN op ELSE @[id]],
                 !.queue = Append(@, [id |-> fresh, op |-> op])]

\* A task attaches to a session; asked is the session that the question was
\* about, where there was one.
Attachment(id, view, force, asked) == [id |-> id, view |-> view, force |-> force, asked |-> asked]

\* Mutant: it opens a session that it is opening.
OpenedAgain(x, attachment) ==
  [x EXCEPT !.d.opening = @ \cup {attachment.id}, !.tasks = @ \cup {attachment}]

\* open_session
Opened(x, attachment) ==
  IF attachment.id \in x.d.opening THEN x
  ELSE [x EXCEPT !.d.opening = @ \cup {attachment.id}, !.tasks = @ \cup {attachment}]

\* open_selected: the screen that is open gets the focus instead.
OpenSelected(x, view, force, asked) ==
  LET session == SelectedSession(x.d) IN
  IF session = NoSession \/ session.id \in registry THEN x
  ELSE Opened(x, Attachment(session.id, view, force, asked))

-----------------------------------------------------------------------------
(* Keys and clicks *)

Handles(x) ==
  /\ app = "runs"
  /\ Becomes(x)
  /\ UNCHANGED <<leader, unborn, events, pump, opened, registry, screens>>

\* One column or two.
Moves == {-2, -1, 1, 2}

\* The commands of the dashboard, by their keys or from the palette.
Commands(session) ==
  {Cleared(InMode(Ui, Search)), Cleared(InMode(Ui, Create)), InMode(Ui, ConfirmStopLeader),
   OpenSelected(Ui, session # NoSession /\ session.driver # "none", FALSE, NoSession),
   OpenSelected(Ui, TRUE, FALSE, NoSession)}
  \cup
  IF session = NoSession THEN {}
  ELSE {IF session.driver = "none" THEN OpenSelected(Ui, FALSE, FALSE, NoSession)
        ELSE InMode(Ui, ConfirmTake(session.id)),
        InMode(With([dash EXCEPT !.query = session.name]), Rename(session.id)),
        InMode(Ui, ConfirmDelete(session.id))}

BrowseKey ==
  /\ dash.mode = Browse
  /\ \/ \E delta \in Moves : Handles(With(MoveSelection(dash, delta))) /\ UNCHANGED inputs
     \/ /\ \E x \in Commands(SelectedSession(dash)) : Handles(x)
        /\ inputs < MaxInputs /\ inputs' = inputs + 1

\* submit_text
Submitted(op) ==
  IF dash.query = NoName THEN Ui ELSE Requested(InMode(Ui, Browse), op)

TextKeys ==
  {With([dash EXCEPT !.query = query, !.selected = 0]) : query \in Names \cup {NoName}}
  \cup {Cleared(InMode(Ui, Browse))}
  \cup
  CASE dash.mode = Search -> {InMode(Ui, Browse)}
    [] dash.mode = Create -> {Submitted([kind |-> "create", name |-> dash.query])}
    [] OTHER -> {Submitted([kind |-> "rename", id |-> dash.mode.id, name |-> dash.query])}

TextKey == IsTyped(dash) /\ (\E x \in TextKeys : Handles(x)) /\ UNCHANGED inputs

\* Mutant: what is selected now is taken.
TakenUnchecked(x) == OpenSelected(InMode(x, Browse), FALSE, TRUE, x.d.mode.id)

\* The answer yes to the question whether to take a session over.
Taken(x) ==
  LET session == SelectedSession(x.d) IN
  IF session # NoSession /\ session.id = x.d.mode.id
    THEN OpenSelected(InMode(x, Browse), FALSE, TRUE, x.d.mode.id)
    ELSE InMode(x, Browse)

\* The questions of deleting and of stopping stand until there is a reply.
ConfirmKey ==
  /\ IsAsked(dash)
  /\ \/ /\ \/ Handles(InMode(Ui, Browse))
           \/ dash.mode.kind = "take" /\ Handles(Taken(Ui))
        /\ UNCHANGED inputs
     \/ /\ \/ dash.mode.kind = "delete" /\ Handles(Requested(Ui, [kind |-> "delete", id |-> dash.mode.id]))
           \/ dash.mode.kind = "stop" /\ Handles(Requested(Ui, [kind |-> "stop"]))
        /\ inputs < MaxInputs /\ inputs' = inputs + 1

\* A click on a tile that the last frame showed.
Click ==
  /\ UNCHANGED inputs
  /\ \E position \in 0 .. Len(Filtered(dash)) - 1 : Handles(With([dash EXCEPT !.selected = position]))

\* The sessions without those drivers of ours that have no screen.
Unscreened ==
  [i \in DOMAIN leader |->
     IF leader[i].driver = "us" /\ leader[i].id \notin screens
       THEN [leader[i] EXCEPT !.driver = "none"] ELSE leader[i]]

\* The dashboard is closed; the results of its attachments are dropped, and
\* their connections and leases with them.
Close ==
  /\ app = "runs" /\ dash.mode = Browse
  /\ leader' = Unscreened
  /\ app' = IF screens = {} THEN "left" ELSE "closed"
  /\ registry' = screens
  /\ opened' = <<>>
  /\ dash' = NewDash(<<>>)
  /\ queue' = <<>> /\ events' = <<>> /\ pump' = "stopped"
  /\ UNCHANGED <<unborn, inputs, tasks, screens>>

-----------------------------------------------------------------------------
(* Ticks: every two seconds the list is refreshed.  (The configuration     *)
(* file, which is looked at too, is left to Settings.)                     *)

TickRefresh ==
  Handles(Requested(Ui, Refresh)) /\ UNCHANGED inputs

-----------------------------------------------------------------------------
(* Attachments *)

\* The resident lets a viewer in, and a driver where none of another client
\* is or by force.
Admits(task) ==
  /\ IsThere(task.id)
  /\ task.view \/ task.force \/ leader[PositionOf(leader, task.id)].driver # "other"

\* A task ends: it has a result for the dashboard, unless that is closed.
Ends(task, ok) ==
  /\ task \in tasks
  /\ tasks' = tasks \ {task}
  /\ IF app = "runs"
       THEN /\ opened' = Append(opened, [id |-> task.id, ok |-> ok])
            /\ registry' = IF ok THEN registry \cup {task.id} ELSE registry
       ELSE UNCHANGED <<opened, registry>>
  /\ UNCHANGED <<unborn, queue, events, pump, screens, dash, app>>

\* A session that has a screen is not attached again.
Attach(task) ==
  /\ Ends(task, Admits(task) /\ task.id \notin registry)
  /\ leader' = IF ~Admits(task) \/ task.view THEN leader
               ELSE Driven(task.id, IF task.id \in registry \/ app # "runs" THEN "none" ELSE "us")
  /\ UNCHANGED inputs

\* No connection, or no answer in time.
AttachFails(task) ==
  /\ inputs < MaxInputs
  /\ Ends(task, FALSE)
  /\ inputs' = inputs + 1
  /\ UNCHANGED leader

\* Mutant: a screen that could not be attached is expected for ever.
StillOpening(d, result) == IF result.ok THEN d.opening \ {result.id} ELSE d.opening

NotOpening(d, result) == d.opening \ {result.id}

\* poll_background: attachments come first.  The shell shows the screen,
\* unless it has one with its key: then the new one is dropped, and leaves
\* the registry.
ScreenOpened ==
  /\ app = "runs" /\ opened # <<>>
  /\ LET result == Head(opened) IN
     /\ dash' = [dash EXCEPT !.opening = NotOpening(dash, result)]
     /\ screens' = IF result.ok THEN screens \cup {result.id} ELSE screens
     /\ registry' = IF result.ok /\ result.id \in screens THEN registry \ {result.id} ELSE registry
  /\ opened' = Tail(opened)
  /\ UNCHANGED <<leader, unborn, queue, events, pump, inputs, tasks, app>>

\* A screen closes, since its session is gone or the user closes it; its
\* connection with it.
CloseScreen(id) ==
  /\ app # "left" /\ id \in screens
  /\ screens' = screens \ {id}
  /\ registry' = registry \ {id}
  /\ leader' = IF IsThere(id) /\ leader[PositionOf(leader, id)].driver = "us"
                 THEN Driven(id, "none") ELSE leader
  /\ app' = IF app = "closed" /\ screens' = {} THEN "left" ELSE app
  /\ UNCHANGED <<unborn, queue, events, pump, inputs, tasks, opened, dash>>

-----------------------------------------------------------------------------
(* What the pump has for the dashboard *)

\* complete_operation, of the request that was op
Completed(x, op, reply) ==
  CASE reply.kind = "sessions" -> [x EXCEPT !.d = ReplaceSessions(@, reply.sessions)]
    [] reply.kind = "created" ->
         Opened(Requested(Cleared(x), Refresh), Attachment(reply.session.id, FALSE, FALSE, NoSession))
    [] reply.kind = "renamed" -> Requested(Cleared(x), Refresh)
    [] reply.kind = "stopping" /\ op.kind = "delete" -> Requested(InMode(x, Browse), Refresh)
    [] reply.kind = "stopping" /\ op.kind = "stop" -> Left(x)
    [] OTHER -> x

Answered(d, event) == Restrict(d.pending, DOMAIN d.pending \ {event.id})

\* apply_client_event
Applied(event) ==
  CASE event = Reconnected -> Requested(Ui, Refresh)
    [] event = ShutDown -> Left(Ui)
    [] OTHER -> IF event.id \notin DOMAIN dash.pending THEN Ui
                ELSE Completed(With([dash EXCEPT !.pending = Answered(dash, event)]),
                               dash.pending[event.id], event.reply)

ClientEvent ==
  /\ app = "runs" /\ opened = <<>> /\ events # <<>>
  /\ Becomes(Applied(Head(events)))
  /\ events' = Tail(events)
  /\ UNCHANGED <<leader, unborn, pump, inputs, opened, registry, screens>>

-----------------------------------------------------------------------------
(* Other clients *)

OthersAct ==
  /\ inputs < MaxInputs /\ inputs' = inputs + 1
  /\ \/ \E name \in Names : Changed(Carried([kind |-> "create", name |-> name]).list)
     \/ \E i \in DOMAIN leader :
          \/ Changed(RemoveAt(leader, i))
          \/ \E name \in Names :
               Changed(Carried([kind |-> "rename", id |-> leader[i].id, name |-> name]).list)
          \/ /\ \E driver \in {"none", "other"} : leader' = [leader EXCEPT ![i].driver = driver]
             /\ UNCHANGED unborn
  /\ UNCHANGED <<queue, events, pump, clientVars, dash, app>>

-----------------------------------------------------------------------------
(* build_shell: the dashboard starts with a list.                          *)

Init ==
  /\ leader = <<[id |-> CHOOSE id \in Sessions : TRUE, name |-> CHOOSE name \in Names : TRUE,
                 driver |-> "none"]>>
  /\ unborn = Sessions \ {leader[1].id}
  /\ queue = <<>> /\ events = <<>> /\ pump = "runs" /\ inputs = 0
  /\ tasks = {} /\ opened = <<>> /\ registry = {} /\ screens = {}
  /\ dash = NewDash(leader)
  /\ app = "runs"

Next ==
  \/ Serve \/ LoseReply \/ Reconnect \/ StopPump \/ LeaderShutsDown \/ OthersAct
  \/ BrowseKey \/ TextKey \/ ConfirmKey \/ Click \/ Close
  \/ TickRefresh \/ ScreenOpened \/ ClientEvent
  \/ \E task \in tasks : Attach(task) \/ AttachFails(task)
  \/ \E id \in Sessions : CloseScreen(id)

Spec == Init /\ [][Next]_vars

(***************************************************************************)
(* The shell ticks and polls its surfaces in turn, connections have time   *)
(* limits, and the runtime runs tasks that can run.                        *)
(***************************************************************************)
Fairness ==
  /\ WF_vars(Serve) /\ WF_vars(TickRefresh)
  /\ WF_vars(ScreenOpened) /\ WF_vars(ClientEvent)
  /\ WF_vars(\E task \in tasks : Attach(task))

FairSpec == Spec /\ Fairness

-----------------------------------------------------------------------------
(* Properties *)

Attached == {opened[i].id : i \in {j \in DOMAIN opened : opened[j].ok}}

DashboardTypeOK ==
  /\ \A list \in {leader, dash.listed} :
       /\ \A i \in DOMAIN list : list[i] \in [id : Sessions, name : Names, driver : Drivers]
       /\ IsInjective([i \in DOMAIN list |-> list[i].id])
  /\ Len(queue) <= OperationCapacity
  /\ dash.query \in Names \cup {NoName} /\ dash.selected \in Nat
  /\ dash.opening \subseteq Sessions
  /\ {registry, screens} \subseteq SUBSET Sessions

(***************************************************************************)
(* A session has one screen at most: those that are registered are the     *)
(* screens of the shell and those on their way to it, and a task attaches  *)
(* to none of them.  And what is pending is on its way, once: no reply is  *)
(* expected in vain, and none finds its operation gone.                    *)
(***************************************************************************)
ScreensAgree ==
  /\ registry = screens \cup Attached /\ screens \cap Attached = {}
  /\ \A task \in tasks : task.id \notin registry

PendingIsOnItsWay ==
  LET requests == [i \in DOMAIN queue |-> queue[i].id]
      replies == [i \in {j \in DOMAIN events : events[j].kind = "completed"} |-> events[i].id]
  IN /\ IsInjective(requests) /\ IsInjective(replies)
     /\ Range(requests) \cap Range(replies) = {}
     /\ Range(requests) \cup Range(replies) = DOMAIN dash.pending

OneOfEach == app = "runs" => ScreensAgree /\ PendingIsOnItsWay

(***************************************************************************)
(* A session is taken over from another client only if the question was    *)
(* about it, whatever list came while the question stood.                  *)
(***************************************************************************)
TakesWhatWasAsked == \A task \in tasks : task.force => task.asked = task.id

(***************************************************************************)
(* Every attachment comes to an end for the dashboard, so that the session *)
(* can be opened again; the list catches up with a resident that changes   *)
(* no more, and there is a selection again and again, as long as the pump  *)
(* runs.                                                                   *)
(***************************************************************************)
OpeningEnds ==
  \A id \in Sessions : id \in dash.opening ~> (id \notin dash.opening \/ app # "runs")

ListCatchesUp ==
  <>[][FALSE]_leader => <>[](dash.listed = leader \/ pump # "runs" \/ app # "runs")

SelectionRecovers ==
  []<>(dash.selected < Len(Filtered(dash)) \/ Filtered(dash) = <<>> \/ pump # "runs" \/ app # "runs")

DashboardSettles == OpeningEnds /\ ListCatchesUp /\ SelectionRecovers
=============================================================================
