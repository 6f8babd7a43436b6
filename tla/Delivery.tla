----------------------------- MODULE Delivery -------------------------------
(***************************************************************************)
(* The way of a session's events from the leader to its clients, and of    *)
(* the clients' requests to the leader (host.rs, client.rs, blocking.rs,   *)
(* cli/src/async_client.rs): bounded outbound queues, disconnection of a   *)
(* client that lags, replay from a cursor or a snapshot, connections that  *)
(* break, requests that time out and are sent again.                       *)
(*                                                                         *)
(* One session.  The leader handles one message at a time; a connection    *)
(* carries the requests of its client in order, then its end.  A message   *)
(* that the leader queued is read by the client, or lost when the          *)
(* connection breaks: the socket is part of the queue.                     *)
(***************************************************************************)
EXTENDS Integers, Sequences, SequencesExt, FiniteSets

CONSTANTS Pumps,            \* clients that run the pump of async_client.rs
          Blocking,         \* clients of blocking.rs
          NoClient,
          Capacity,         \* outbound_capacity
          History,          \* event_history
          PendingCapacity,  \* MAX_PENDING_MESSAGES
          Attempts,         \* RECONNECT_ATTEMPTS
          Joins,            \* how each client attaches: mode and force
          EventCounts,      \* how many events a command or a poll may emit
          MaxConnections,   \* bound of the model
          MaxWork           \* bound of the model: operations, polls with events,
                            \* breaks, timeouts and new leaders

Clients == Pumps \cup Blocking
Connections == 1 .. MaxConnections
Modes == {"view", "drive"}

ASSUME DeliveryAssumption ==
  /\ Pumps \cap Blocking = {}
  /\ NoClient \notin Clients
  /\ Capacity \in Nat \ {0}      \* outbound_capacity.max(1)
  /\ History \in Nat
  /\ PendingCapacity \in Nat
  /\ Attempts \in Nat \ {0}
  /\ Joins \in [Clients -> SUBSET (Modes \X BOOLEAN)]
  /\ EventCounts \subseteq Nat
  /\ {MaxConnections, MaxWork} \subseteq Nat

VARIABLES
  host,      \* what the leader knows of the session and its connections
  inbox,     \* requests on their way to the leader
  cut,       \* connections that broke
  client,    \* the clients
  view,      \* what the consumer of each client shows
  opened,    \* connections opened so far
  work,      \* operations, events and faults so far
  applied,   \* history: commands applied, in order
  refused,   \* history: commands the leader refused, as the client reported
  fenced     \* history: commands of pumps that were under way when another client
             \* took the lease over

vars == <<host, inbox, cut, client, view, opened, work, applied, refused, fenced>>

-----------------------------------------------------------------------------
(* Messages *)

NoLease == [owner |-> NoClient, epoch |-> 0]

Event(n) == [kind |-> "event", at |-> n]
Snapshot(n) == [kind |-> "snapshot", at |-> n]
DriverChanged(lease) == [kind |-> "driver", lease |-> lease]

\* Responses: the request they answer, and what it says.
Attached(n, epoch) == [kind |-> "attached", id |-> 0, at |-> n, epoch |-> epoch]
Driver(id, lease) == [kind |-> "driven", id |-> id, lease |-> lease]
Accepted(id) == [kind |-> "accepted", id |-> id]
Rejected(id) == [kind |-> "rejected", id |-> id]

IsPush(m) == m.kind \in {"event", "snapshot", "driver"}

\* Requests: identity 0 is for attachments, of which a connection carries one.
NoCursor == -1
Attach(mode, force, after) ==
  [kind |-> "attach", id |-> 0, mode |-> mode, force |-> force, after |-> after]
Operation(kind, id, force, epoch) ==
  [kind |-> kind, id |-> id, force |-> force, epoch |-> epoch]
NoRequest == [kind |-> "none"]
Closed == [kind |-> "closed"]

-----------------------------------------------------------------------------
(* The leader: methods of HostState take and give a host h.  A set of      *)
(* subscribers is gone through in an arbitrary order.                      *)

IsOpen(h, c) == h.owner[c] # NoClient

\* Closing c releases the lease: it is the last attached one of the driver.
Releases(h, c) ==
  /\ c \in h.subscribers
  /\ h.driver.owner = h.owner[c]
  /\ \A other \in h.subscribers \ {c} : h.owner[other] # h.owner[c]

Forget(h, c) ==
  [h EXCEPT !.owner[c] = NoClient, !.subscribers = @ \ {c},
            !.driver = IF Releases(h, c) THEN NoLease ELSE @]

Push(h, c, m) == [h EXCEPT !.outbound[c] = Append(@, m)]

HasRoom(h, c) == Len(h.outbound[c]) < Capacity

\* broadcast, when no lease can be released by it: who has no room is closed.
Notify(h, m) ==
  LET told == {c \in h.subscribers : HasRoom(h, c)} IN
  [h EXCEPT !.owner = [c \in Connections |-> IF c \in h.subscribers \ told THEN NoClient ELSE @[c]],
            !.subscribers = told,
            !.outbound = [c \in Connections |-> IF c \in told THEN Append(@[c], m) ELSE @[c]]]

Disconnect(h, c) ==
  IF IsOpen(h, c) /\ Releases(h, c) THEN Notify(Forget(h, c), DriverChanged(NoLease)) ELSE Forget(h, c)

\* Mutant: the message of a client whose queue is full is dropped.
SendOrDrop(h, c, m) == IF IsOpen(h, c) /\ HasRoom(h, c) THEN Push(h, c, m) ELSE h

\* A client whose queue is full is disconnected.
Send(h, c, m) ==
  IF ~IsOpen(h, c) THEN h ELSE IF HasRoom(h, c) THEN Push(h, c, m) ELSE Disconnect(h, c)

\* send of one message after the other
SendAll(h, c, messages) ==
  LET room == Capacity - Len(h.outbound[c])
      sent(n) == [h EXCEPT !.outbound[c] = @ \o SubSeq(messages, 1, n)]
  IN
  IF ~IsOpen(h, c) THEN h
  ELSE IF Len(messages) <= room THEN sent(Len(messages)) ELSE Disconnect(sent(room), c)

Broadcast(h, m, order) ==
  LET sent[k \in 0 .. Len(order)] ==
        IF k = 0 THEN h
        ELSE IF order[k] \in h.subscribers THEN Send(sent[k - 1], order[k], m)
        ELSE sent[k - 1]
  IN sent[Len(order)]

\* The position in list, which is in order, of the last that is not above n.
UpTo(list, n) == Max({0} \cup {k \in DOMAIN list : list[k] <= n})

EventsAfter(list, n) ==
  LET newer == SubSeq(list, UpTo(list, n) + 1, Len(list)) IN [k \in DOMAIN newer |-> Event(newer[k])]

\* HostedSession.events
Retained(h) == IF Len(h.log) <= History THEN h.log
               ELSE SubSeq(h.log, Len(h.log) - History + 1, Len(h.log))

\* Mutant: the oldest retained event is taken to be the next one.
ReplayRetained(h, after) ==
  IF after = NoCursor THEN <<Snapshot(h.sequence)>> ELSE EventsAfter(Retained(h), after)

\* replay_or_snapshot
ReplayOrSnapshot(h, after) ==
  IF after # NoCursor /\ Retained(h) # <<>> /\ after + 1 >= Head(Retained(h))
    THEN EventsAfter(Retained(h), after) ELSE <<Snapshot(h.sequence)>>

\* core.attach: c is attached, with the lease if that is asked for and free,
\* its own, or taken by force.
IsBusy(h, c, force) == h.driver.owner \notin {NoClient, h.owner[c]} /\ ~force

Granted(h, c, mode) ==
  IF mode = "view" \/ h.driver.owner = h.owner[c] THEN h
  ELSE [h EXCEPT !.epoch = @ + 1, !.driver = [owner |-> h.owner[c], epoch |-> h.epoch + 1]]

Join(h, c, mode, order) ==
  LET joined == Granted([h EXCEPT !.subscribers = @ \cup {c}], c, mode)
  IN IF joined.driver = h.driver THEN joined
     ELSE Broadcast(joined, DriverChanged(joined.driver), order)

HandleAttach(h, c, request, order) ==
  LET epoch == Granted(h, c, request.mode).driver.epoch IN
  IF ~IsOpen(h, c) THEN h
  ELSE IF request.mode = "drive" /\ IsBusy(h, c, request.force)
    THEN Send(h, c, Rejected(0))
    ELSE SendAll(Join(h, c, request.mode, order), c,
                 Append(ReplayOrSnapshot(h, request.after),
                        Attached(h.sequence, IF request.mode = "drive" THEN epoch ELSE 0)))

HandleAcquire(h, c, request, order) ==
  IF ~IsOpen(h, c) THEN h
  ELSE IF IsBusy(h, c, request.force)
    THEN Send(h, c, Rejected(request.id))
    ELSE Send(Join(h, c, "drive", order), c,
              Driver(request.id, Granted(h, c, "drive").driver))

HandleRelease(h, c, request, order) ==
  IF ~IsOpen(h, c) THEN h
  ELSE IF c \notin h.subscribers \/ h.driver.owner # h.owner[c]
    THEN Send(h, c, Rejected(request.id))
    ELSE Send(Broadcast([h EXCEPT !.driver = NoLease], DriverChanged(NoLease), order), c,
              Driver(request.id, NoLease))

\* apply_transition: n events, or one number for a request without events.
Advanced(h, n, isRequest) ==
  [h EXCEPT !.sequence = @ + (IF n = 0 /\ isRequest THEN 1 ELSE n),
            !.log = @ \o [k \in 1 .. n |-> h.sequence + k]]

\* record_and_broadcast, for each event.
Published(h, n, isRequest, order) ==
  LET told[k \in 0 .. n] ==
        IF k = 0 THEN Advanced(h, n, isRequest)
        ELSE Broadcast(told[k - 1], Event(h.sequence + k), order)
  IN told[n]

\* Mutant: a command that is sent again is applied again.
IsNeverDuplicate(h, request) == FALSE

IsDuplicate(h, request) == request.id \in h.committed

Authorized(h, c, request) ==
  h.driver = [owner |-> h.owner[c], epoch |-> request.epoch]

Applies(h, c, request) ==
  IsOpen(h, c) /\ c \in h.subscribers /\ ~IsDuplicate(h, request) /\ Authorized(h, c, request)

HandleCommand(h, c, request, n, order) ==
  IF ~IsOpen(h, c) THEN h
  ELSE IF Applies(h, c, request)
    THEN Send(Published([h EXCEPT !.committed = @ \cup {request.id}], n, TRUE, order), c,
              Accepted(request.id))
    ELSE Send(h, c, IF c \in h.subscribers /\ IsDuplicate(h, request)
                    THEN Accepted(request.id) ELSE Rejected(request.id))

HandleRequest(h, c, request, n, order) ==
  CASE request.kind = "attach" -> HandleAttach(h, c, request, order)
    [] request.kind = "acquire" -> HandleAcquire(h, c, request, order)
    [] request.kind = "release" -> HandleRelease(h, c, request, order)
    [] request.kind = "command" -> HandleCommand(h, c, request, n, order)
    [] request.kind = "closed" ->
         [Disconnect(h, c) EXCEPT !.outbound[c] = <<>>]

-----------------------------------------------------------------------------
(* The client: operators take and give the state r of a client *)

\* phase: joining (first attachment), ready, waiting (for an answer), broken
\* (must reconnect), rejoining (attachment after a reconnection), failed.
NewClient ==
  [phase |-> "new", conn |-> 0, mode |-> "view", force |-> FALSE, lease |-> 0,
   cursor |-> NoCursor,    \* Attachment
   op |-> NoRequest,       \* the operation under way
   inflight |-> {},        \* requests sent and not given up
   attempt |-> 0,          \* times op was resent
   tries |-> 0,            \* failed attachments of this reconnection
   pending |-> <<>>,       \* blocking: pushes read and not yet consumed
   buffered |-> <<>>]      \* blocking: pushes read while it rejoins

Max2(m, n) == IF m > n THEN m ELSE n

\* observe_driver
ObserveDriver(r, i, lease) ==
  [r EXCEPT !.lease = IF lease.owner = i THEN lease.epoch ELSE 0,
            !.mode = IF lease.owner = i THEN "drive" ELSE "view"]

\* acknowledge
Acknowledge(r, i, m) ==
  CASE m.kind \in {"event", "snapshot"} -> [r EXCEPT !.cursor = Max2(@, m.at)]
    [] m.kind = "driver" -> ObserveDriver(r, i, m.lease)
    [] OTHER -> r

\* What a consumer shows after message m.
Shown(shown, m) ==
  CASE m.kind = "event" -> Append(shown, m.at)
    [] m.kind = "snapshot" -> SubSeq(host.log, 1, UpTo(host.log, m.at))
    [] OTHER -> shown

\* The operation under way is over.
Finished(r) == [r EXCEPT !.op = NoRequest, !.inflight = {}, !.attempt = 0, !.tries = 0]

\* Only commands are resent by the pump; the blocking client resends all.
CanRetry(r, i) ==
  r.attempt < Attempts /\ r.op # NoRequest /\ (i \in Blocking \/ r.op.kind = "command")

\* The operation failed for lack of a connection, or a pump's was rejected.
Retry(r, i) ==
  IF CanRetry(r, i) THEN [r EXCEPT !.phase = "broken", !.attempt = @ + 1, !.tries = 0]
  ELSE [Finished(r) EXCEPT !.phase = "ready"]

\* An attachment after a reconnection failed.
RejoinFailed(r, i) ==
  IF i \in Pumps /\ r.tries + 1 < Attempts THEN [r EXCEPT !.phase = "broken", !.tries = @ + 1]
  ELSE [Finished(r) EXCEPT !.phase = IF i \in Pumps /\ r.op = NoRequest THEN "failed" ELSE "ready",
                           !.buffered = <<>>]

\* observe_result of an attachment
Attach0(r, m) ==
  [r EXCEPT !.cursor = m.at, !.lease = m.epoch, !.inflight = {}]

\* observe_result of a change of the driver: who takes over keeps its force.
ObserveResult(r, i, op, m) ==
  IF m.kind # "driven" THEN r
  ELSE [ObserveDriver(r, i, m.lease) EXCEPT
          !.force = IF op.kind = "acquire" /\ m.lease.owner = i THEN op.force ELSE @]

\* A blocking client moves what it read to where it is consumed.
Unbuffered(r) ==
  LET all == r.pending \o r.buffered IN
  [r EXCEPT !.buffered = <<>>,
            !.pending = IF Len(all) > PendingCapacity THEN SubSeq(all, 1, PendingCapacity) ELSE all]

Overflows(r) == Len(r.pending \o r.buffered) > PendingCapacity

\* A blocking client gives a command the lease it has now.
Refreshed(r, i) ==
  IF i \in Blocking /\ r.op # NoRequest /\ r.op.kind = "command"
    THEN [r EXCEPT !.op.epoch = r.lease] ELSE r

-----------------------------------------------------------------------------

Init ==
  /\ host = [owner |-> [c \in Connections |-> NoClient], subscribers |-> {},
             driver |-> NoLease, epoch |-> 0, saved |-> 0, sequence |-> 0,
             log |-> <<>>, committed |-> {}, outbound |-> [c \in Connections |-> <<>>],
             forgot |-> FALSE]   \* history: epochs that were granted may be granted again
  /\ inbox = [c \in Connections |-> <<>>]
  /\ cut = {}
  /\ client = [i \in Clients |-> NewClient]
  /\ view = [i \in Clients |-> <<>>]
  /\ opened = 0
  /\ work = 0
  /\ applied = <<>>
  /\ refused = {} /\ fenced = {}

history == <<applied, refused, fenced>>

Works == work < MaxWork /\ work' = work + 1

\* Client i has connection c from now on, and gives up the one it had.  The
\* leader registers c before it reads a request of it.
Open(i, c, request) ==
  LET old == client[i].conn IN
  /\ c = opened + 1 /\ c \in Connections
  /\ opened' = c
  /\ host' = [host EXCEPT !.owner[c] = i, !.outbound =
                 [k \in Connections |-> IF k = old THEN <<>> ELSE @[k]]]
  /\ inbox' = [k \in Connections |->
       CASE k = c -> request
         [] k = old -> IF old \in cut \/ ~IsOpen(host, old) THEN inbox[k] ELSE Append(inbox[k], Closed)
         [] OTHER -> inbox[k]]

\* connect_and_attach; Client::connect and attach
Connect(i, mode, force) ==
  /\ client[i].phase = "new"
  /\ Open(i, opened + 1, <<Attach(mode, force, NoCursor)>>)
  /\ client' = [client EXCEPT ![i] = [@ EXCEPT !.phase = "joining", !.conn = opened + 1,
                                              !.mode = mode, !.force = force, !.inflight = {0}]]
  /\ UNCHANGED <<cut, view, work, history>>

\* reconnect_streaming.  A blocking client whose request timed out still has
\* it in flight, and cannot ask for an attachment.
Reconnect(i) ==
  LET r == client[i] IN
  /\ r.phase = "broken"
  /\ IF r.inflight = {}
       THEN /\ Open(i, opened + 1, <<Attach(r.mode, r.force, r.cursor)>>)
            /\ client' = [client EXCEPT ![i] =
                 [@ EXCEPT !.phase = "rejoining", !.conn = opened + 1, !.inflight = {0}]]
       ELSE /\ Open(i, opened + 1, <<>>)
            /\ client' = [client EXCEPT ![i] =
                 [@ EXCEPT !.phase = "ready", !.conn = opened + 1, !.op = NoRequest, !.attempt = 0]]
  /\ UNCHANGED <<cut, view, work, history>>

\* A surface asks for an operation.
Ask(i, kind, force) ==
  LET r == client[i]
      op == Operation(kind, work + 1, force, r.lease)
  IN
  /\ r.phase = "ready" /\ r.inflight = {}
  /\ kind \in {"command", "release"} => r.lease # 0 /\ ~force
  /\ kind = "acquire" => r.lease = 0
  /\ Works
  /\ client' = [client EXCEPT ![i] = [@ EXCEPT !.phase = "waiting", !.op = op, !.inflight = {op.id}]]
  /\ inbox' = [inbox EXCEPT ![r.conn] = Append(@, op)]
  /\ UNCHANGED <<host, cut, view, opened, history>>

\* The operation goes on after a reconnection.
Resume(i, r, old) ==
  IF r.op = NoRequest \/ Overflows(r) \/ (i \in Blocking /\ r.op.kind = "command" /\ r.lease = 0)
    THEN /\ client' = [client EXCEPT ![i] = [Finished(Unbuffered(r)) EXCEPT !.phase = "ready"]]
         /\ UNCHANGED inbox
    ELSE LET next == Refreshed(Unbuffered(r), i) IN
         /\ client' = [client EXCEPT ![i] = [next EXCEPT !.phase = "waiting", !.inflight = {r.op.id}]]
         /\ inbox' = [inbox EXCEPT ![r.conn] = Append(@, next.op)]

\* The head of what the leader sent to client i.
Arriving(i) == Head(host.outbound[client[i].conn])

HasArrived(i) ==
  /\ client[i].phase \in {"joining", "ready", "waiting", "rejoining"}
  /\ client[i].conn \notin cut /\ host.outbound[client[i].conn] # <<>>
  /\ client[i].phase = "ready" => client[i].pending = <<>>
Taken(i) == [host EXCEPT !.outbound[client[i].conn] = Tail(@)]

Awaited(r) == IF r.phase = "waiting" THEN r.op.id ELSE IF r.phase = "ready" THEN -1 ELSE 0
IsAnswer(r, m) == ~IsPush(m) /\ m.id = Awaited(r)

\* A message that answers nothing is handed to the consumer, or kept for it
\* by a client that blocks on an exchange.
ReadPush(i) ==
  LET m == Arriving(i)
      r == client[i]
      kept == IF r.phase = "rejoining" THEN [r EXCEPT !.buffered = Append(@, m)]
                                       ELSE [r EXCEPT !.pending = Append(@, m)]
  IN
  /\ HasArrived(i) /\ ~IsAnswer(r, m)
  /\ host' = Taken(i)
  /\ IF i \in Pumps \/ r.phase = "ready"
       THEN /\ client' = [client EXCEPT ![i] = Acknowledge(r, i, m)]
            /\ view' = [view EXCEPT ![i] = Shown(@, m)]
       ELSE /\ client' = [client EXCEPT ![i] =
                 IF r.phase # "rejoining" /\ Len(r.pending) >= PendingCapacity
                   THEN [Finished(r) EXCEPT !.phase = IF r.phase = "joining" THEN "failed" ELSE "ready"]
                   ELSE Acknowledge(kept, i, m)]
            /\ UNCHANGED view
  /\ UNCHANGED <<inbox, cut, opened, work, history>>

\* drain, receive: the consumer of a blocking client takes what was kept.
Consume(i) ==
  /\ client[i].phase = "ready" /\ client[i].pending # <<>>
  /\ view' = [view EXCEPT ![i] = Shown(@, Head(client[i].pending))]
  /\ client' = [client EXCEPT ![i].pending = Tail(@)]
  /\ UNCHANGED <<host, inbox, cut, opened, work, history>>

\* An attachment is answered.
ReadAttached(i) ==
  LET m == Arriving(i)
      r == client[i]
  IN
  /\ HasArrived(i) /\ IsAnswer(r, m) /\ r.phase \in {"joining", "rejoining"}
  /\ host' = Taken(i)
  /\ IF m.kind = "attached" THEN Resume(i, [Attach0(r, m) EXCEPT !.tries = 0], r)
     ELSE /\ client' = [client EXCEPT ![i] =
               IF r.phase = "joining" THEN [r EXCEPT !.phase = "failed"]
                                      ELSE RejoinFailed([r EXCEPT !.inflight = {}], i)]
          /\ UNCHANGED inbox
  /\ UNCHANGED <<cut, view, opened, work, history>>

\* An operation is answered.
ReadAnswer(i) ==
  LET m == Arriving(i)
      r == client[i]
      again == i \in Pumps /\ m.kind = "rejected" /\ CanRetry(r, i)
  IN
  /\ HasArrived(i) /\ IsAnswer(r, m) /\ r.phase = "waiting"
  /\ host' = Taken(i)
  /\ client' = [client EXCEPT ![i] =
       IF again THEN Retry([r EXCEPT !.inflight = {}], i)
       ELSE ObserveResult([Finished(r) EXCEPT !.phase = "ready"], i, r.op, m)]
  /\ refused' = IF m.kind = "rejected" /\ r.op.kind = "command" /\ ~again
                  THEN refused \cup {m.id} ELSE refused
  /\ UNCHANGED <<inbox, cut, view, opened, work, applied, fenced>>

\* The connection has ended and all that arrived was read.
Lost(i) ==
  LET r == client[i] IN
  /\ r.phase \in {"joining", "ready", "waiting", "rejoining"}
  /\ r.phase = "ready" => r.pending = <<>>
  /\ r.conn \in cut \/ (~IsOpen(host, r.conn) /\ host.outbound[r.conn] = <<>>)
  /\ client' = [client EXCEPT ![i] =
       CASE r.phase = "joining" -> [r EXCEPT !.phase = "failed"]
         [] r.phase = "ready" -> [r EXCEPT !.phase = "broken", !.tries = 0]
         [] r.phase = "waiting" -> Retry([r EXCEPT !.inflight = {}], i)
         [] r.phase = "rejoining" -> RejoinFailed([r EXCEPT !.inflight = {}], i)]
  /\ UNCHANGED <<host, inbox, cut, view, opened, work, history>>

\* A request times out.  The blocking client drops the exchange as it is.
TimeOut(i) ==
  LET r == client[i] IN
  /\ r.phase = "waiting"
  /\ Works
  /\ client' = [client EXCEPT ![i] =
       [Retry(r, i) EXCEPT !.inflight = IF i \in Pumps THEN {} ELSE @ \cup r.inflight]]
  /\ UNCHANGED <<host, inbox, cut, view, opened, history>>

-----------------------------------------------------------------------------
(* The leader *)

\* Commands that pumps have under way, and that are not committed, when another
\* client takes their lease over.
Fenced(h, g) ==
  {client[i].op.id : i \in {j \in Pumps :
     /\ client[j].op.kind = "command" /\ client[j].op.id \notin g.committed
     /\ h.driver.owner = j /\ g.driver.owner \notin {j, NoClient}}}

\* handle_request, or Disconnected
Handle(c) ==
  /\ inbox[c] # <<>>
  /\ \E order \in SetToSeqs(host.subscribers \cup {c}), n \in EventCounts \cup {0} :
       LET request == Head(inbox[c]) IN
       /\ n # 0 => request.kind = "command" /\ Applies(host, c, request)
       /\ host' = HandleRequest(host, c, request, n, order)
       /\ applied' = IF request.kind = "command" /\ Applies(host, c, request)
                       THEN Append(applied, request.id) ELSE applied
  /\ fenced' = fenced \cup Fenced(host, host')
  /\ inbox' = [inbox EXCEPT ![c] = Tail(@)]
  /\ UNCHANGED <<cut, client, view, opened, work, refused>>

\* A poll, or an effect, has n events.
Publish ==
  /\ Works
  /\ \E order \in SetToSeqs(host.subscribers), n \in EventCounts \ {0} :
       host' = Published(host, n, FALSE, order)
  /\ UNCHANGED <<inbox, cut, client, view, opened, history>>

\* A connection breaks: what was not read is lost, and the leader learns it
\* after the requests that arrived.
Break(i) ==
  LET c == client[i].conn IN
  /\ c # 0 /\ c \notin cut /\ IsOpen(host, c)
  /\ Works
  /\ cut' = cut \cup {c}
  /\ host' = [host EXCEPT !.outbound[c] = <<>>]
  /\ \E arrived \in {<<>>, inbox[c]} : inbox' = [inbox EXCEPT ![c] = Append(arrived, Closed)]
  /\ UNCHANGED <<client, view, opened, history>>

\* A new leader: connections end, the lease is void, the session is loaded.
\* The journal has no epochs: that of the last checkpoint is raised, which was
\* written as the leader before it loaded, or by a rename since.
ReplaceLeader ==
  /\ Works
  /\ \E epoch \in host.saved .. host.epoch :
       host' = [host EXCEPT !.owner = [c \in Connections |-> NoClient], !.subscribers = {},
                            !.driver = NoLease, !.epoch = epoch + 1, !.saved = epoch + 1,
                            !.forgot = @ \/ epoch < host.epoch,
                            !.outbound = [c \in Connections |-> <<>>]]
  /\ inbox' = [c \in Connections |-> <<>>]
  /\ UNCHANGED <<cut, client, view, opened, history>>

-----------------------------------------------------------------------------

\* What client i does by itself, when there is something to read or to repair.
Proceed(i) ==
  \/ ReadPush(i) \/ ReadAttached(i) \/ ReadAnswer(i)
  \/ Consume(i) \/ Lost(i) \/ Reconnect(i)

Next ==
  \/ \E i \in Clients :
       \/ \E join \in Joins[i] : Connect(i, join[1], join[2])
       \/ \E kind \in {"command", "acquire", "release"}, force \in BOOLEAN : Ask(i, kind, force)
       \/ Proceed(i)
       \/ TimeOut(i)
       \/ Break(i)
  \/ \E c \in Connections : Handle(c)
  \/ Publish
  \/ ReplaceLeader

Spec == Init /\ [][Next]_vars

\* The task of each client and the loop of the leader go on.
Fairness ==
  /\ \A i \in Clients : WF_vars(Proceed(i))
  /\ WF_vars(\E c \in Connections : Handle(c))

FairSpec == Spec /\ Fairness

-----------------------------------------------------------------------------
(* Properties *)

Lease == [owner : Clients \cup {NoClient}, epoch : Nat]

DeliveryTypeOK ==
  /\ host.owner \in [Connections -> Clients \cup {NoClient}]
  /\ host.subscribers \subseteq {c \in Connections : IsOpen(host, c)}
  /\ host.driver \in Lease /\ host.driver.epoch <= host.epoch
  /\ \A c \in Connections : Len(host.outbound[c]) <= Capacity
  /\ \A i \in Clients : /\ client[i].conn \in 0 .. opened
                        /\ client[i].lease \in Nat   \* may be of a leader that is gone
                        /\ client[i].cursor \in -1 .. host.sequence
                        /\ Len(client[i].pending) <= PendingCapacity
  /\ work \in 0 .. MaxWork

(***************************************************************************)
(* The surface of a pump shows the events one after the other, none lost   *)
(* and none twice, through overflow, breaks, replay, snapshots and new     *)
(* leaders ("acknowledge": "reconnect cursors" do not advance "past        *)
(* undelivered state", client.rs).                                         *)
(***************************************************************************)
Feed == INSTANCE EventFeed WITH
  Viewers <- Pumps, log <- host.log, view <- [i \in Pumps |-> view[i]]
ImplementsFeed == Feed!Spec

\* Nothing is on its way between the leader and client i.
IsQuiet(i) ==
  LET c == client[i].conn IN
  /\ client[i].phase = "ready" /\ client[i].pending = <<>>
  /\ c \notin cut /\ IsOpen(host, c)
  /\ inbox[c] = <<>> /\ host.outbound[c] = <<>>

(***************************************************************************)
(* An attached pump that believes to hold the lease, and to which nothing  *)
(* is on its way, holds it, under the epoch it believes (observe_driver):  *)
(* also when its older connections and its requests are still handled.  (A *)
(* blocking client whose pending queue overflows drops what would tell it.) *)
(***************************************************************************)
LeaseSeenIsHeld ==
  \A i \in Pumps :
    IsQuiet(i) /\ client[i].conn \in host.subscribers /\ client[i].lease # 0 =>
      host.driver = [owner |-> i, epoch |-> client[i].lease]

(***************************************************************************)
(* A command that is sent again is applied once.  And unless a new leader  *)
(* has forgotten epochs of the old one: a command that a client reports as *)
(* refused was not applied, and no copy of it that is still on its way     *)
(* will be; nor will a command of a pump that was under way when another   *)
(* client took the lease over (authorize, core.rs).                        *)
(***************************************************************************)
AppliedOnce ==
  /\ \A j, k \in DOMAIN applied : applied[j] = applied[k] => j = k
  /\ ~host.forgot => (refused \cup fenced) \cap Range(applied) = {}

(***************************************************************************)
(* "Forced takeover fences the old driver so its buffered input can never  *)
(* mutate the session." (README.md)                                        *)
(***************************************************************************)
OldDriverIsFenced == fenced \cap Range(applied) = {}

\* Client i has reconnected, and is not attached any more.
IsDeaf(i) ==
  /\ IsQuiet(i)
  /\ client[i].conn \notin host.subscribers

HasNothingToShow(i) ==
  \/ client[i].phase \in {"new", "failed"}
  \/ client[i].phase = "broken" /\ opened = MaxConnections
  \/ client[i].phase = "ready" /\ view[i] = host.log

(***************************************************************************)
(* The surface of a pump comes to show all events, unless it has failed,   *)
(* or was left without an attachment by a reconnection that was refused.   *)
(***************************************************************************)
CatchesUp == \A i \in Pumps : []<>(HasNothingToShow(i) \/ IsDeaf(i))

(***************************************************************************)
(* A request whose "delivery becomes ambiguous" is resent after a          *)
(* reconnection (blocking.rs): no client is left with a request in flight  *)
(* that bars every other.                                                  *)
(***************************************************************************)
NoneInFlightWhenReady ==
  \A i \in Blocking : client[i].phase = "ready" => client[i].inflight = {}

=============================================================================
