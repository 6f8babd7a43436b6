---------------------------- MODULE LeaderCore -----------------------------
(***************************************************************************)
(* The deterministic control plane of a resident leader                    *)
(* (src/resident/core.rs): connections, sessions and their names,          *)
(* subscriptions, the driver lease with its fencing epoch, and the window  *)
(* of committed requests that answers reconnect retries.                   *)
(*                                                                         *)
(* One action per method of LeaderCore that changes its state.  A call the *)
(* code rejects changes nothing, so a rejection is the action's guard.     *)
(***************************************************************************)
EXTENDS Naturals, Sequences, FiniteSets

CONSTANTS Connections,  \* transport connections (ConnectionId)
          Instances,    \* client processes (ClientInstanceId)
          Sessions,     \* session identities (SessionId)
          RawNames,     \* display names as clients type them
          Names,        \* display names after trimming
          Requests,     \* request identities (RequestId)
          ClientOf,     \* ClientOf[r]: the client that numbered request r
          Normal,       \* Normal[n]: n trimmed, or NoName when n is invalid
          Window,       \* deduplication_window
          NoInstance, NoSession, NoName,  \* absent values
          MaxEpoch,     \* bound of the model: lease grants of each session
          MaxSequence   \* bound of the model: events of each session

ASSUME CoreAssumption ==
  /\ NoInstance \notin Instances
  /\ NoSession \notin Sessions
  /\ NoName \notin Names
  /\ ClientOf \in [Requests -> Instances]
  /\ Normal \in [RawNames -> Names \cup {NoName}]
  /\ Window \in Nat \ {0}        \* with_deduplication_window takes max(1)
  /\ MaxEpoch \in [Sessions -> Nat]
  /\ MaxSequence \in [Sessions -> Nat]

VARIABLES
  instance,     \* clients[c].instance, NoInstance when c is not connected
  attached,     \* clients[c].sessions
  issued,       \* session identities handed out so far: they are never reused
  live,         \* the keys of LeaderCore.sessions
  name,         \* sessions[s].name
  names,        \* LeaderCore.names
  subscribers,  \* sessions[s].subscribers
  driver,       \* sessions[s].driver
  leaseEpoch,   \* sessions[s].lease_epoch
  sequence,     \* sessions[s].sequence
  committed,    \* sessions[s].committed, 0 for a request it does not hold
  commitOrder,  \* sessions[s].commit_order
  applied       \* history: the commands applied to s, with the lease each bore

clientVars == <<instance, attached>>
nameVars == <<issued, live, name, names>>
leaseVars == <<driver, leaseEpoch>>
logVars == <<sequence, committed, commitOrder, applied>>
vars == <<clientVars, nameVars, subscribers, leaseVars, logVars>>

Lease == [owner : Instances \cup {NoInstance}, epoch : Nat]
NoLease == [owner |-> NoInstance, epoch |-> 0]
Applied == [request : Requests, sequence : Nat, owner : Instances, epoch : Nat]

TypeOK ==
  /\ instance \in [Connections -> Instances \cup {NoInstance}]
  /\ attached \in [Connections -> SUBSET Sessions]
  /\ issued \in SUBSET Sessions
  /\ live \in SUBSET issued
  /\ name \in [Sessions -> Names \cup {NoName}]
  /\ names \in [Names -> Sessions \cup {NoSession}]
  /\ subscribers \in [Sessions -> SUBSET Connections]
  /\ driver \in [Sessions -> Lease]
  /\ leaseEpoch \in [Sessions -> Nat]
  /\ sequence \in [Sessions -> Nat]
  /\ committed \in [Sessions -> [Requests -> Nat]]
  /\ commitOrder \in [Sessions -> Seq(Requests)]
  /\ \A s \in Sessions : Len(commitOrder[s]) <= Window
  /\ applied \in [Sessions -> Seq(Applied)]

Init ==
  /\ instance = [c \in Connections |-> NoInstance]
  /\ attached = [c \in Connections |-> {}]
  /\ issued = {}
  /\ live = {}
  /\ name = [s \in Sessions |-> NoName]
  /\ names = [n \in Names |-> NoSession]
  /\ subscribers = [s \in Sessions |-> {}]
  /\ driver = [s \in Sessions |-> NoLease]
  /\ leaseEpoch = [s \in Sessions |-> 0]
  /\ sequence = [s \in Sessions |-> 0]
  /\ committed = [s \in Sessions |-> [r \in Requests |-> 0]]
  /\ commitOrder = [s \in Sessions |-> <<>>]
  /\ applied = [s \in Sessions |-> <<>>]

-----------------------------------------------------------------------------
(* Connections *)

\* The listener numbers connections, so c is never connected twice at a time.
Connect(c, i) ==
  /\ instance[c] = NoInstance
  /\ instance' = [instance EXCEPT ![c] = i]
  /\ attached' = [attached EXCEPT ![c] = {}]
  /\ UNCHANGED <<nameVars, subscribers, leaseVars, logVars>>

\* Mutant: any other connection of the client keeps the lease.
SameClientConnected(c, s) ==
  \E other \in Connections \ {c} : instance[other] = instance[c]

\* Another connection of c's client is still attached to s.
SameClientRemains(c, s) ==
  \E other \in Connections \ {c} :
    instance[other] = instance[c] /\ s \in attached[other]

\* The sessions whose lease closing connection c releases.
ReleasedBy(c) ==
  {s \in attached[c] : /\ driver[s].owner = instance[c]
                       /\ ~SameClientRemains(c, s)}

Disconnect(c) ==
  /\ instance[c] # NoInstance
  /\ instance' = [instance EXCEPT ![c] = NoInstance]
  /\ attached' = [attached EXCEPT ![c] = {}]
  /\ subscribers' = [s \in Sessions |-> subscribers[s] \ {c}]
  /\ driver' = [s \in Sessions |-> IF s \in ReleasedBy(c) THEN NoLease ELSE driver[s]]
  /\ UNCHANGED <<nameVars, leaseEpoch, logVars>>

-----------------------------------------------------------------------------
(* Sessions and their names *)

\* s is a fresh SessionId::new().
CreateSession(s, raw) ==
  LET n == Normal[raw] IN
  /\ s \notin issued
  /\ n # NoName
  /\ names[n] = NoSession
  /\ issued' = issued \cup {s}
  /\ live' = live \cup {s}
  /\ name' = [name EXCEPT ![s] = n]
  /\ names' = [names EXCEPT ![n] = s]
  /\ UNCHANGED <<clientVars, subscribers, leaseVars, logVars>>

\* The name index once s is called n instead of name[s].
NamesAfterRename(s, n) ==
  [m \in Names |-> IF m = n THEN s ELSE IF m = name[s] THEN NoSession ELSE names[m]]

RenameSession(s, raw) ==
  LET n == Normal[raw] IN
  /\ s \in live
  /\ n # NoName
  /\ names[n] \in {NoSession, s}
  /\ name' = [name EXCEPT ![s] = n]
  /\ names' = NamesAfterRename(s, n)
  /\ UNCHANGED <<clientVars, issued, live, subscribers, leaseVars, logVars>>

\* The record of s is dropped: as s is never issued again, the counters it
\* held are left as they were.
RemoveSession(s) ==
  /\ s \in live
  /\ live' = live \ {s}
  /\ name' = [name EXCEPT ![s] = NoName]
  /\ names' = [names EXCEPT ![name[s]] = NoSession]
  /\ attached' = [c \in Connections |-> attached[c] \ {s}]
  /\ subscribers' = [subscribers EXCEPT ![s] = {}]
  /\ driver' = [driver EXCEPT ![s] = NoLease]
  /\ UNCHANGED <<instance, issued, leaseEpoch, logVars>>

-----------------------------------------------------------------------------
(* Subscriptions and the driver lease *)

Subscribe(c, s) ==
  /\ attached' = [attached EXCEPT ![c] = @ \cup {s}]
  /\ subscribers' = [subscribers EXCEPT ![s] = @ \cup {c}]

Unsubscribe(c, s) ==
  /\ attached' = [attached EXCEPT ![c] = @ \ {s}]
  /\ subscribers' = [subscribers EXCEPT ![s] = @ \ {c}]

\* Mutant: a lease that is free is granted again under its last epoch.
GrantFreeLease(s, i) ==
  LET e == IF driver[s] = NoLease /\ leaseEpoch[s] > 0
             THEN leaseEpoch[s] ELSE leaseEpoch[s] + 1 IN
  /\ leaseEpoch[s] < MaxEpoch[s]
  /\ leaseEpoch' = [leaseEpoch EXCEPT ![s] = e]
  /\ driver' = [driver EXCEPT ![s] = [owner |-> i, epoch |-> e]]

GrantLease(s, i) ==
  /\ leaseEpoch[s] < MaxEpoch[s]
  /\ leaseEpoch' = [leaseEpoch EXCEPT ![s] = @ + 1]
  /\ driver' = [driver EXCEPT ![s] = [owner |-> i, epoch |-> leaseEpoch[s] + 1]]

AttachViewer(c, s) ==
  /\ instance[c] # NoInstance
  /\ s \in live
  /\ Subscribe(c, s)
  /\ UNCHANGED <<instance, nameVars, leaseVars, logVars>>

\* Attach with AttachmentMode::Drive, and AcquireDriver: a client that
\* already drives keeps its epoch, another needs force to take over.
AttachDriver(c, s, force) ==
  /\ instance[c] # NoInstance
  /\ s \in live
  /\ driver[s].owner \notin {NoInstance, instance[c]} => force
  /\ Subscribe(c, s)
  /\ IF driver[s].owner = instance[c]
       THEN UNCHANGED leaseVars
       ELSE GrantLease(s, instance[c])
  /\ UNCHANGED <<instance, nameVars, logVars>>

\* Unlike Disconnect, Detach releases the lease of c's client even when
\* another connection of that client is still attached.
Detach(c, s) ==
  /\ instance[c] # NoInstance
  /\ s \in attached[c]
  /\ Unsubscribe(c, s)
  /\ driver' = IF driver[s].owner = instance[c]
                 THEN [driver EXCEPT ![s] = NoLease]
                 ELSE driver
  /\ UNCHANGED <<instance, nameVars, leaseEpoch, logVars>>

ReleaseDriver(c, s) ==
  /\ instance[c] # NoInstance
  /\ s \in attached[c]
  /\ driver[s].owner = instance[c]
  /\ driver' = [driver EXCEPT ![s] = NoLease]
  /\ UNCHANGED <<clientVars, nameVars, subscribers, leaseEpoch, logVars>>

-----------------------------------------------------------------------------
(* Domain requests and events *)

\* What a request must satisfy to reach the duplicate check of authorize.
Admitted(c, s, r) ==
  /\ instance[c] = ClientOf[r]
  /\ s \in live
  /\ s \in attached[c]

\* Authorization::Duplicate: the request was committed and is remembered.
IsDuplicate(c, s, r) ==
  Admitted(c, s, r) /\ committed[s][r] # 0

\* Mutant: the driver is recognised by its identity, whatever epoch it sends.
IsFromDriver(c, s, e, r) ==
  /\ Admitted(c, s, r)
  /\ committed[s][r] = 0
  /\ driver[s].owner = instance[c]

\* Authorization::Apply, for a request that carries lease epoch e.
IsAuthorized(c, s, e, r) ==
  /\ Admitted(c, s, r)
  /\ committed[s][r] = 0
  /\ driver[s] = [owner |-> instance[c], epoch |-> e]

\* Mutant: the window holds one request less than it should.
ExpiredEarly(order) ==
  {order[k] : k \in {j \in 1 .. Len(order) : j + Window <= Len(order) + 1}}

\* The requests that fall out of the window when order has grown too long.
Expired(order) ==
  {order[k] : k \in {j \in 1 .. Len(order) : j + Window <= Len(order)}}

\* Mutant: the window is never trimmed.
RetainedWhole(order) == order

Retained(order) ==
  IF Len(order) > Window
    THEN SubSeq(order, Len(order) - Window + 1, Len(order))
    ELSE order

\* r enters the window with the sequence after the current one.
Remember(s, r) ==
  LET order == Append(commitOrder[s], r) IN
  /\ commitOrder' = [commitOrder EXCEPT ![s] = Retained(order)]
  /\ committed' = [committed EXCEPT ![s] =
                     [q \in Requests |-> IF q \in Expired(order) THEN 0
                                         ELSE IF q = r THEN sequence[s] + 1
                                         ELSE committed[s][q]]]

Advance(s, n) ==
  /\ sequence[s] + n <= MaxSequence[s]
  /\ sequence' = [sequence EXCEPT ![s] = @ + n]

Commit(s, r) ==
  /\ Advance(s, 1)
  /\ Remember(s, r)

\* authorize followed by commit, as the host runs them for one command.
Command(c, s, e, r) ==
  /\ IsAuthorized(c, s, e, r)
  /\ Commit(s, r)
  /\ applied' = [applied EXCEPT ![s] =
                   Append(@, [request |-> r, sequence |-> sequence[s] + 1,
                              owner |-> instance[c], epoch |-> e])]
  /\ UNCHANGED <<clientVars, nameVars, subscribers, leaseVars>>

\* An event no client asked for, such as process output.
Publish(s) ==
  /\ s \in live
  /\ Advance(s, 1)
  /\ UNCHANGED <<clientVars, nameVars, subscribers, leaseVars,
                 committed, commitOrder, applied>>

-----------------------------------------------------------------------------

Next ==
  \/ \E c \in Connections, i \in Instances : Connect(c, i)
  \/ \E c \in Connections : Disconnect(c)
  \/ \E s \in Sessions, raw \in RawNames : CreateSession(s, raw)
  \/ \E s \in Sessions, raw \in RawNames : RenameSession(s, raw)
  \/ \E s \in Sessions : RemoveSession(s)
  \/ \E c \in Connections, s \in Sessions : AttachViewer(c, s)
  \/ \E c \in Connections, s \in Sessions, force \in BOOLEAN : AttachDriver(c, s, force)
  \/ \E c \in Connections, s \in Sessions : Detach(c, s)
  \/ \E c \in Connections, s \in Sessions : ReleaseDriver(c, s)
  \/ \E c \in Connections, s \in Sessions, r \in Requests :
       \E e \in 1 .. MaxEpoch[s] : Command(c, s, e, r)
  \/ \E s \in Sessions : Publish(s)

Spec == Init /\ [][Next]_vars

-----------------------------------------------------------------------------
(* Properties *)

(***************************************************************************)
(* The two sides of a subscription agree: a connection lists a session     *)
(* exactly when the session lists it, only open connections subscribe, and *)
(* only to live sessions.  connect, disconnect, attach, detach and         *)
(* remove_session each update one side in one map and the other side in    *)
(* another.                                                                *)
(***************************************************************************)
SubscriptionsAgree ==
  /\ \A c \in Connections, s \in Sessions : s \in attached[c] <=> c \in subscribers[s]
  /\ \A c \in Connections : attached[c] \subseteq live
  /\ \A c \in Connections : instance[c] = NoInstance => attached[c] = {}

(***************************************************************************)
(* The name index and the session records agree, so a display name selects *)
(* at most one session and every live session can be selected, through any *)
(* sequence of create, rename and remove.                                  *)
(***************************************************************************)
NamesAgree ==
  /\ \A s \in live : name[s] # NoName /\ names[name[s]] = s
  /\ \A n \in Names : names[n] # NoSession => names[n] \in live /\ name[names[n]] = n

(***************************************************************************)
(* No lease is orphaned: the driver of a session always has a connection   *)
(* that is open and attached to it, so its disconnection will release the  *)
(* lease and another client can drive without force.  A client may hold    *)
(* several connections and lose, detach or reuse them in any order.        *)
(***************************************************************************)
DriverIsAttached ==
  \A s \in Sessions : driver[s].owner # NoInstance =>
    \E c \in subscribers[s] : instance[c] = driver[s].owner

(***************************************************************************)
(* Fencing: once a command is applied under an epoch, no command that      *)
(* carries an older lease is applied after it, and all commands applied    *)
(* under one epoch come from one client.                                   *)
(***************************************************************************)
WritesFenced ==
  \A s \in Sessions : \A j, k \in 1 .. Len(applied[s]) :
    j < k => \/ applied[s][j].epoch < applied[s][k].epoch
             \/ /\ applied[s][j].epoch = applied[s][k].epoch
                /\ applied[s][j].owner = applied[s][k].owner

\* Commands of s that have the same request are more than Window apart.
OnceIn(s) ==
  \A j, k \in 1 .. Len(applied[s]) :
    j < k /\ applied[s][j].request = applied[s][k].request => k - j > Window

(***************************************************************************)
(* A retried request is applied again only after at least Window other     *)
(* commands of the session: that is how long authorize answers Duplicate.  *)
(***************************************************************************)
OnceWithinWindow == \A s \in Sessions : OnceIn(s)

\* How many of the commands in log are within the window.
Recent(log) == IF Len(log) < Window THEN Len(log) ELSE Window

\* The memory of s is the last commands applied to it.
WindowOf(s) ==
  LET kept == Recent(applied[s]) IN
  /\ Len(commitOrder[s]) = kept
  /\ \A k \in 1 .. kept :
       LET entry == applied[s][Len(applied[s]) - kept + k] IN
       /\ commitOrder[s][k] = entry.request
       /\ committed[s][entry.request] = entry.sequence
  /\ \A r \in Requests : committed[s][r] # 0 =>
       \E k \in 1 .. kept : commitOrder[s][k] = r

(***************************************************************************)
(* The memory of committed requests is exactly the last Window commands    *)
(* applied to the session, each with the sequence its client was told.     *)
(***************************************************************************)
WindowIsRecent == \A s \in Sessions : WindowOf(s)

\* The lease as an abstract specification sees it: who holds each session,
\* and the leases under which it was written.
holderMap == [s \in Sessions |-> driver[s].owner]
LeasesOf(log) == [k \in 1 .. Len(log) |-> [owner |-> log[k].owner, epoch |-> log[k].epoch]]
writesMap == [s \in Sessions |-> LeasesOf(applied[s])]

DL == INSTANCE DriverLease WITH
  holder <- holderMap, epoch <- leaseEpoch, writes <- writesMap

(***************************************************************************)
(* The core implements the driver lease: every change of driver opens a    *)
(* new epoch, and a command is applied under the lease that is current.    *)
(***************************************************************************)
ImplementsDriverLease == DL!Spec

=============================================================================
