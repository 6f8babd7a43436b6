--------------------------- MODULE Delivery_proofs ---------------------------
(***************************************************************************)
(* Proofs about Delivery, for any clients, capacities of the queues,       *)
(* history, attempts and number of connections: the surfaces of the pumps  *)
(* implement EventFeed (FeedIsImplemented), and a pump that hears nothing  *)
(* more holds the lease it believes in (LeaseIsHeld).                      *)
(*                                                                         *)
(* Both are about what is on its way.  Reads relates what the leader knows *)
(* of a connection, the messages queued for it and the pump at its other   *)
(* end: read to the end, the messages move the surface on without a gap,   *)
(* and to the end of the log if the connection is subscribed (Carries,     *)
(* Follows); what the pump believes of the lease after them is what the    *)
(* leader has (Told); the request for an attachment comes first and only   *)
(* once (Boxed).  IInv says so of every connection that did not break, and *)
(* that a connection is of one client.                                     *)
(***************************************************************************)
EXTENDS Delivery, FiniteSetTheorems, SequenceTheorems, WellFoundedInduction, TLAPS

-----------------------------------------------------------------------------
(* Types *)

Leases == {l \in Lease : IF l.owner = NoClient THEN l.epoch = 0 ELSE l.epoch > 0}

Messages ==
  [kind : {"event", "snapshot"}, at : Nat] \cup [kind : {"driver"}, lease : Leases]
  \cup [kind : {"attached"}, id : {0}, at : Nat, epoch : Nat]
  \cup [kind : {"driven"}, id : Nat \ {0}, lease : Leases]
  \cup [kind : {"accepted"}, id : Nat \ {0}] \cup [kind : {"rejected"}, id : Nat]

Hosts ==
  [owner : [Connections -> Clients \cup {NoClient}], subscribers : SUBSET Connections,
   driver : Leases, epoch : Nat, saved : Nat, sequence : Nat, log : Seq(Nat),
   committed : SUBSET Nat, outbound : [Connections -> Seq(Messages)], forgot : BOOLEAN]

Freed == DriverChanged(NoLease)

LEMMA Constants ==
  /\ MaxConnections \in Nat /\ MaxWork \in Nat /\ Connections \subseteq Nat \ {0}
  /\ NoClient \notin Clients /\ Pumps \cap Blocking = {} /\ Clients = Pumps \cup Blocking
  /\ Capacity \in Nat /\ Capacity > 0 /\ History \in Nat /\ PendingCapacity \in Nat /\ Attempts \in Nat /\ Attempts > 0
BY DeliveryAssumption DEF Connections, Clients

LEMMA LeaseFields ==
  ASSUME NEW l \in Leases
  PROVE  /\ l.owner \in Clients \cup {NoClient} /\ l.epoch \in Nat
         /\ l = [owner |-> l.owner, epoch |-> l.epoch]
         /\ l.owner = NoClient => l = NoLease
         /\ l.owner # NoClient => l.epoch > 0
BY Constants DEF Leases, Lease, NoLease

LEMMA LeaseTypes ==
  /\ NoLease \in Leases /\ NoLease.owner = NoClient /\ NoLease.epoch = 0
  /\ \A i \in Clients, e \in Nat \ {0} : [owner |-> i, epoch |-> e] \in Leases
BY Constants DEF Leases, Lease, NoLease

LEMMA MessageFields ==
  ASSUME NEW m \in Messages
  PROVE  /\ m.kind \in {"event", "snapshot", "driver", "attached", "driven", "accepted", "rejected"}
         /\ m.kind \in {"event", "snapshot", "attached"} => m.at \in Nat
         /\ m.kind \in {"driver", "driven"} => m.lease \in Leases
         /\ m.kind = "attached" => m.id = 0 /\ m.epoch \in Nat
         /\ m.kind \in {"driven", "accepted"} => m.id # 0
         /\ m.kind \in {"driven", "accepted", "rejected"} => m.id \in Nat
         /\ m.kind = "rejected" => m = Rejected(m.id)
BY DEF Messages, Rejected

LEMMA MessageTypes ==
  /\ \A n \in Nat : Event(n) \in Messages /\ Event(n).kind = "event" /\ Event(n).at = n
  /\ \A n \in Nat : Snapshot(n) \in Messages /\ Snapshot(n).kind = "snapshot" /\ Snapshot(n).at = n
  /\ \A l \in Leases : DriverChanged(l) \in Messages /\ DriverChanged(l).kind = "driver" /\ DriverChanged(l).lease = l
  /\ \A n \in Nat, e \in Nat : /\ Attached(n, e) \in Messages /\ Attached(n, e).kind = "attached" /\ Attached(n, e).id = 0
                               /\ Attached(n, e).at = n /\ Attached(n, e).epoch = e
  /\ \A id \in Nat \ {0}, l \in Leases : /\ Driver(id, l) \in Messages /\ Driver(id, l).kind = "driven"
                                         /\ Driver(id, l).id = id /\ Driver(id, l).lease = l
  /\ \A id \in Nat \ {0} : Accepted(id) \in Messages /\ Accepted(id).kind = "accepted" /\ Accepted(id).id = id
  /\ \A id \in Nat : Rejected(id) \in Messages /\ Rejected(id).kind = "rejected" /\ Rejected(id).id = id
  /\ Freed \in Messages /\ Freed.kind = "driver" /\ Freed.lease = NoLease
BY LeaseTypes DEF Messages, Event, Snapshot, DriverChanged, Attached, Driver, Accepted, Rejected, Freed

LEMMA HostFields ==
  ASSUME NEW h \in Hosts
  PROVE  /\ h.owner \in [Connections -> Clients \cup {NoClient}] /\ h.subscribers \subseteq Connections
         /\ h.driver \in Leases /\ h.epoch \in Nat /\ h.saved \in Nat /\ h.sequence \in Nat
         /\ h.log \in Seq(Nat) /\ h.committed \subseteq Nat /\ h.forgot \in BOOLEAN
         /\ h.outbound \in [Connections -> Seq(Messages)]
         /\ \A c \in Connections : h.owner[c] \in Clients \cup {NoClient} /\ h.outbound[c] \in Seq(Messages)
BY DEF Hosts

-----------------------------------------------------------------------------
(* Queues: q is p with messages of M after it. *)

Extends(p, q, M) ==
  /\ Len(p) <= Len(q) /\ \A j \in 1 .. Len(p) : q[j] = p[j]
  /\ \A j \in Len(p) + 1 .. Len(q) : q[j] \in M

LEMMA ExtendsSame ==
  ASSUME NEW p \in Seq(Messages), NEW M
  PROVE  Extends(p, p, M)
BY DEF Extends

LEMMA ExtendsAppend ==
  ASSUME NEW p \in Seq(Messages), NEW m \in Messages, NEW M, m \in M
  PROVE  Append(p, m) \in Seq(Messages) /\ Extends(p, Append(p, m), M)
<1>1. /\ Append(p, m) \in Seq(Messages) /\ Len(Append(p, m)) = Len(p) + 1
      /\ \A j \in 1 .. Len(p) : Append(p, m)[j] = p[j]
      /\ Append(p, m)[Len(p) + 1] = m
  BY AppendProperties
<1>2. \A j \in Len(p) + 1 .. Len(p) + 1 : j = Len(p) + 1
  OBVIOUS
<1>3. QED
  BY <1>1, <1>2 DEF Extends

LEMMA ExtendsTrans ==
  ASSUME NEW p \in Seq(Messages), NEW q \in Seq(Messages), NEW s \in Seq(Messages), NEW M, NEW L,
         Extends(p, q, M), Extends(q, s, L)
  PROVE  Extends(p, s, M \cup L)
<1>1. /\ Len(p) <= Len(q) /\ Len(q) <= Len(s) /\ Len(p) \in Nat /\ Len(q) \in Nat /\ Len(s) \in Nat
      /\ \A j \in 1 .. Len(p) : q[j] = p[j] /\ s[j] = q[j]
  BY DEF Extends
<1>2. ASSUME NEW j \in Len(p) + 1 .. Len(s) PROVE s[j] \in M \cup L
  <2>1. CASE j <= Len(q)
    <3>1. j \in 1 .. Len(q) /\ j \in Len(p) + 1 .. Len(q)
      BY <1>1, <2>1
    <3>2. QED
      BY <3>1 DEF Extends
  <2>2. CASE ~(j <= Len(q))
    <3>1. j \in Len(q) + 1 .. Len(s)
      BY <1>1, <2>2
    <3>2. QED
      BY <3>1 DEF Extends
  <2>3. QED
    BY <2>1, <2>2
<1>3. QED
  BY <1>1, <1>2 DEF Extends

LEMMA ExtendsMore ==
  ASSUME NEW p \in Seq(Messages), NEW q \in Seq(Messages), NEW M, NEW L, M \subseteq L, Extends(p, q, M)
  PROVE  Extends(p, q, L)
BY DEF Extends

-----------------------------------------------------------------------------
(* What closing a connection and sending a message does to a host *)

\* Subscribers are open, and a lease that is held is of the latest epoch.
Sound(h) ==
  /\ h \in Hosts
  /\ \A k \in h.subscribers : IsOpen(h, k)
  /\ h.driver # NoLease => h.driver.epoch = h.epoch

\* g is h, but for connections that were closed, the lease that was released
\* with the last one of its holder, and queues.
Frame(h, g) ==
  /\ g \in Hosts
  /\ g.log = h.log /\ g.sequence = h.sequence /\ g.committed = h.committed
  /\ g.epoch = h.epoch /\ g.saved = h.saved /\ g.forgot = h.forgot
  /\ \A k \in Connections : g.owner[k] \in {h.owner[k], NoClient}
  /\ g.subscribers = {k \in h.subscribers : IsOpen(g, k)}
  /\ \/ g.driver = h.driver
     \/ g.driver = NoLease /\ \A k \in g.subscribers : h.owner[k] # h.driver.owner

LEMMA FrameSame ==
  ASSUME NEW h, Sound(h)
  PROVE  Frame(h, h)
BY HostFields DEF Sound, Frame

LEMMA FrameSound ==
  ASSUME NEW h, NEW g, Sound(h), Frame(h, g)
  PROVE  Sound(g)
BY DEF Sound, Frame

LEMMA FrameTrans ==
  ASSUME NEW f, NEW g, NEW h, Sound(f), Frame(f, g), Frame(g, h)
  PROVE  Frame(f, h)
<1>1. /\ f \in Hosts /\ g \in Hosts /\ h \in Hosts /\ f.subscribers \subseteq Connections
  BY HostFields DEF Sound, Frame
<1>2. /\ h.log = f.log /\ h.sequence = f.sequence /\ h.committed = f.committed
      /\ h.epoch = f.epoch /\ h.saved = f.saved /\ h.forgot = f.forgot
  BY DEF Frame
<1>3. \A k \in Connections : g.owner[k] \in {f.owner[k], NoClient} /\ h.owner[k] \in {g.owner[k], NoClient}
  BY DEF Frame
<1>4. \A k \in Connections : IsOpen(h, k) => IsOpen(g, k) /\ h.owner[k] = g.owner[k] /\ g.owner[k] = f.owner[k]
  BY <1>3 DEF IsOpen
<1>5. g.subscribers = {k \in f.subscribers : IsOpen(g, k)} /\ h.subscribers = {k \in g.subscribers : IsOpen(h, k)}
  BY DEF Frame
<1>6. h.subscribers = {k \in f.subscribers : IsOpen(h, k)}
  BY <1>1, <1>4, <1>5
<1>7. \A k \in h.subscribers : k \in g.subscribers /\ k \in Connections /\ g.owner[k] = f.owner[k]
  BY <1>1, <1>4, <1>5
<1>8. \/ h.driver = f.driver
      \/ h.driver = NoLease /\ \A k \in h.subscribers : f.owner[k] # f.driver.owner
  <2>1. /\ g.driver = f.driver \/ (g.driver = NoLease /\ \A k \in g.subscribers : f.owner[k] # f.driver.owner)
        /\ h.driver = g.driver \/ (h.driver = NoLease /\ \A k \in h.subscribers : g.owner[k] # g.driver.owner)
    BY DEF Frame
  <2>2. CASE g.driver = f.driver
    BY <1>7, <2>1, <2>2
  <2>3. CASE g.driver = NoLease /\ \A k \in g.subscribers : f.owner[k] # f.driver.owner
    BY <1>7, <2>1, <2>3
  <2>4. QED
    BY <2>1, <2>2, <2>3
<1>9. \A k \in Connections : h.owner[k] \in {f.owner[k], NoClient}
  BY <1>3
<1>10. QED
  BY <1>1, <1>2, <1>6, <1>8, <1>9 DEF Frame

LEMMA ForgetIs ==
  ASSUME NEW h, Sound(h), NEW c \in Connections
  PROVE  /\ Frame(h, Forget(h, c)) /\ Forget(h, c).outbound = h.outbound
         /\ ~IsOpen(Forget(h, c), c)
         /\ \A k \in Connections \ {c} : Forget(h, c).owner[k] = h.owner[k]
         /\ Forget(h, c).driver = IF Releases(h, c) THEN NoLease ELSE h.driver
<1> DEFINE o == [h.owner EXCEPT ![c] = NoClient]
           s == h.subscribers \ {c}
           d == IF Releases(h, c) THEN NoLease ELSE h.driver
           g == Forget(h, c)
<1>0. h \in Hosts /\ \A k \in h.subscribers : IsOpen(h, k)
  BY DEF Sound
<1>1. /\ o \in [Connections -> Clients \cup {NoClient}] /\ s \subseteq Connections /\ d \in Leases
      /\ o[c] = NoClient /\ \A k \in Connections \ {c} : o[k] = h.owner[k]
  BY <1>0, HostFields, LeaseTypes
<1>2. g = [h EXCEPT !.owner = o, !.subscribers = s, !.driver = d]
  BY <1>0 DEF Forget, Hosts
<1>3. \A k \in s : Releases(h, c) => h.owner[k] # h.driver.owner
  BY DEF Releases
<1> HIDE DEF o, s, d
<1>4. /\ g \in Hosts /\ g.owner = o /\ g.subscribers = s /\ g.driver = d /\ g.outbound = h.outbound
      /\ g.log = h.log /\ g.sequence = h.sequence /\ g.committed = h.committed
      /\ g.epoch = h.epoch /\ g.saved = h.saved /\ g.forgot = h.forgot
  BY <1>0, <1>1, <1>2 DEF Hosts
<1> HIDE DEF g
<1>5. g.subscribers = {k \in h.subscribers : IsOpen(g, k)}
  <2>1. \A k \in h.subscribers : k \in Connections /\ (IsOpen(g, k) <=> k # c)
    BY <1>0, <1>1, <1>4, HostFields DEF IsOpen
  <2>2. QED
    BY <1>4, <2>1 DEF s
<1>6. g.driver = h.driver \/ (g.driver = NoLease /\ \A k \in g.subscribers : h.owner[k] # h.driver.owner)
  BY <1>3, <1>4 DEF d
<1>7. \A k \in Connections : g.owner[k] \in {h.owner[k], NoClient}
  BY <1>1, <1>4
<1>8. Frame(h, g)
  BY <1>4, <1>5, <1>6, <1>7 DEF Frame
<1>9. QED
  BY <1>1, <1>4, <1>8 DEF IsOpen, g, d

LEMMA NotifyIs ==
  ASSUME NEW h, Sound(h), h.driver = NoLease, NEW m \in Messages
  PROVE  /\ Frame(h, Notify(h, m)) /\ Notify(h, m).driver = NoLease
         /\ \A k \in Connections :
              Notify(h, m).outbound[k] = IF k \in Notify(h, m).subscribers THEN Append(h.outbound[k], m)
                                         ELSE h.outbound[k]
<1> DEFINE t == {k \in h.subscribers : HasRoom(h, k)}
           o == [k \in Connections |-> IF k \in h.subscribers \ t THEN NoClient ELSE h.owner[k]]
           q == [k \in Connections |-> IF k \in t THEN Append(h.outbound[k], m) ELSE h.outbound[k]]
           g == Notify(h, m)
<1>0. h \in Hosts /\ \A k \in h.subscribers : IsOpen(h, k) /\ k \in Connections
  BY HostFields DEF Sound
<1>1. \A k \in Connections : Append(h.outbound[k], m) \in Seq(Messages)
  BY <1>0, HostFields, AppendProperties
<1>2. /\ o \in [Connections -> Clients \cup {NoClient}] /\ t \subseteq Connections
      /\ q \in [Connections -> Seq(Messages)]
  BY <1>0, <1>1, HostFields
<1>3. g = [h EXCEPT !.owner = o, !.subscribers = t, !.outbound = q]
  BY <1>0 DEF Notify, Hosts
<1>4. \A k \in h.subscribers : k \notin t => o[k] = NoClient
  BY <1>0
<1>5. \A k \in Connections : o[k] \in {h.owner[k], NoClient} /\ (k \in t => o[k] = h.owner[k])
  OBVIOUS
<1>6. \A k \in Connections : q[k] = IF k \in t THEN Append(h.outbound[k], m) ELSE h.outbound[k]
  OBVIOUS
<1>6a. t \subseteq h.subscribers
  OBVIOUS
<1> HIDE DEF o, t, q
<1>7. /\ g \in Hosts /\ g.owner = o /\ g.subscribers = t /\ g.driver = h.driver /\ g.outbound = q
      /\ g.log = h.log /\ g.sequence = h.sequence /\ g.committed = h.committed
      /\ g.epoch = h.epoch /\ g.saved = h.saved /\ g.forgot = h.forgot
  BY <1>0, <1>2, <1>3 DEF Hosts
<1> HIDE DEF g
<1>8. g.subscribers = {k \in h.subscribers : IsOpen(g, k)}
  BY <1>0, <1>4, <1>5, <1>6a, <1>7 DEF IsOpen
<1>9. Frame(h, g)
  BY <1>5, <1>7, <1>8 DEF Frame
<1>10. QED
  BY <1>6, <1>7, <1>9 DEF g

\* What a host has sent and closed after c was told m, or closed.
LEMMA DisconnectIs ==
  ASSUME NEW h, Sound(h), NEW c \in Connections
  PROVE  LET g == Disconnect(h, c) IN
         /\ Frame(h, g) /\ ~IsOpen(g, c) /\ g.outbound[c] = h.outbound[c]
         /\ \A k \in Connections : Extends(h.outbound[k], g.outbound[k], {Freed})
         /\ \A k \in Connections : k \notin g.subscribers => g.outbound[k] = h.outbound[k]
         /\ g.driver = h.driver => /\ g.outbound = h.outbound
                                   /\ \A k \in Connections \ {c} : g.owner[k] = h.owner[k]
<1> DEFINE f == Forget(h, c)
           g == Disconnect(h, c)
<1>0. h \in Hosts
  BY DEF Sound
<1>1. /\ Frame(h, f) /\ f.outbound = h.outbound /\ ~IsOpen(f, c)
      /\ \A k \in Connections \ {c} : f.owner[k] = h.owner[k]
      /\ f.driver = IF Releases(h, c) THEN NoLease ELSE h.driver
  BY ForgetIs
<1>2. Sound(f) /\ c \notin f.subscribers
  BY <1>1, FrameSound DEF Frame
<1>3. CASE ~(IsOpen(h, c) /\ Releases(h, c))
  <2>1. g = f
    BY <1>3 DEF Disconnect
  <2> HIDE DEF f, g
  <2>2. \A k \in Connections : h.outbound[k] \in Seq(Messages)
    BY <1>0, HostFields
  <2>3. QED
    BY <1>1, <2>1, <2>2, ExtendsSame DEF g
<1>4. CASE IsOpen(h, c) /\ Releases(h, c)
  <2>1. g = Notify(f, Freed)
    BY <1>4 DEF Disconnect, Freed
  <2>2. f.driver = NoLease
    BY <1>1, <1>4
  <2> HIDE DEF f, g
  <2>3. /\ Frame(f, g) /\ g.driver = NoLease
        /\ \A k \in Connections :
             g.outbound[k] = IF k \in g.subscribers THEN Append(f.outbound[k], Freed) ELSE f.outbound[k]
    BY <1>2, <2>1, <2>2, NotifyIs, MessageTypes
  <2>4. Frame(h, g)
    BY <1>1, <2>3, FrameTrans
  <2>5. ~IsOpen(g, c) /\ c \notin g.subscribers
    <3>1. g.owner[c] \in {f.owner[c], NoClient} /\ g.subscribers \subseteq f.subscribers
      BY <2>3 DEF Frame
    <3>2. QED
      BY <1>1, <1>2, <3>1 DEF IsOpen
  <2>6. \A k \in Connections : h.outbound[k] \in Seq(Messages)
    BY <1>0, HostFields
  <2>7. \A k \in Connections : Extends(h.outbound[k], g.outbound[k], {Freed})
    BY <1>1, <2>3, <2>6, ExtendsSame, ExtendsAppend, MessageTypes
  <2>8. g.driver # h.driver
    <3>1. h.driver.owner = h.owner[c] /\ h.owner[c] # NoClient
      BY <1>4 DEF Releases, IsOpen
    <3>2. QED
      BY <2>3, <3>1, LeaseTypes
  <2>9. QED
    BY <1>1, <2>3, <2>4, <2>5, <2>7, <2>8 DEF g
<1>5. QED
  BY <1>3, <1>4

LEMMA SendIs ==
  ASSUME NEW h, Sound(h), NEW c \in Connections, NEW m \in Messages
  PROVE  LET g == Send(h, c, m) IN
         /\ Frame(h, g)
         /\ ~IsOpen(h, c) => g = h
         /\ IsOpen(g, c) => /\ g.outbound[c] = Append(h.outbound[c], m)
                            /\ g.owner = h.owner /\ g.driver = h.driver
                            /\ \A k \in Connections \ {c} : g.outbound[k] = h.outbound[k]
         /\ ~IsOpen(g, c) => g.outbound[c] = h.outbound[c]
         /\ \A k \in Connections \ {c} : Extends(h.outbound[k], g.outbound[k], {Freed})
         /\ \A k \in Connections \ {c} : k \notin g.subscribers => g.outbound[k] = h.outbound[k]
<1> DEFINE g == Send(h, c, m)
<1>0. h \in Hosts /\ \A k \in Connections : h.outbound[k] \in Seq(Messages)
  BY HostFields DEF Sound
<1>1. CASE ~IsOpen(h, c)
  <2>1. g = h
    BY <1>1 DEF Send
  <2> HIDE DEF g
  <2>2. QED
    BY <1>0, <1>1, <2>1, FrameSame, ExtendsSame DEF g
<1>2. CASE IsOpen(h, c) /\ HasRoom(h, c)
  <2> DEFINE q == [h.outbound EXCEPT ![c] = Append(@, m)]
  <2>1. /\ q \in [Connections -> Seq(Messages)] /\ q[c] = Append(h.outbound[c], m)
        /\ \A k \in Connections \ {c} : q[k] = h.outbound[k]
    BY <1>0, HostFields, AppendProperties
  <2>2. g = [h EXCEPT !.outbound = q]
    BY <1>0, <1>2 DEF Send, Push, Hosts
  <2> HIDE DEF q
  <2>3. /\ g \in Hosts /\ g.owner = h.owner /\ g.subscribers = h.subscribers /\ g.driver = h.driver
        /\ g.outbound = q /\ g.log = h.log /\ g.sequence = h.sequence /\ g.committed = h.committed
        /\ g.epoch = h.epoch /\ g.saved = h.saved /\ g.forgot = h.forgot
    BY <1>0, <2>1, <2>2 DEF Hosts
  <2> HIDE DEF g
  <2>4. Frame(h, g)
    <3>1. \A k \in h.subscribers : IsOpen(g, k)
      BY <2>3 DEF Sound, IsOpen
    <3>2. QED
      BY <2>3, <3>1 DEF Frame
  <2>5. IsOpen(g, c)
    BY <1>2, <2>3 DEF IsOpen
  <2>6. QED
    BY <1>0, <1>2, <2>1, <2>3, <2>4, <2>5, ExtendsSame DEF g
<1>3. CASE IsOpen(h, c) /\ ~HasRoom(h, c)
  <2>1. g = Disconnect(h, c)
    BY <1>3 DEF Send
  <2> HIDE DEF g
  <2>2. /\ Frame(h, g) /\ ~IsOpen(g, c) /\ g.outbound[c] = h.outbound[c]
        /\ \A k \in Connections : Extends(h.outbound[k], g.outbound[k], {Freed})
        /\ \A k \in Connections : k \notin g.subscribers => g.outbound[k] = h.outbound[k]
    BY <2>1, DisconnectIs
  <2>3. QED
    BY <1>3, <2>2 DEF g
<1>4. QED
  BY <1>1, <1>2, <1>3

-----------------------------------------------------------------------------
(* Counting.  A recursive function is reasoned about through its run; that *)
(* the run exists and what it keeps is shown by its least counterexample.  *)

Below == {pair \in Nat \X Nat : pair[1] < pair[2]}

LEMMA BelowIsWellFounded == IsWellFoundedOn(Below, Nat)
BY ONLY NatLessThanWellFounded DEF OpToRel, Below

LEMMA LeastNumber ==
  ASSUME NEW T, T \subseteq Nat, T # {}
  PROVE  \E x \in T : \A y \in T : x <= y
<1>1. PICK x \in T : \A y \in T : ~ (<<y, x>> \in Below)
  BY BelowIsWellFounded, WFMin
<1>2. ASSUME NEW y \in T PROVE x <= y
  <2>1. ~(y < x)
    BY <1>1 DEF Below
  <2>2. QED
    BY <2>1
<1>3. QED
  BY <1>2

\* What holds at 0 and from each step to the next holds up to n.
LEMMA CountUp ==
  ASSUME NEW n \in Nat, NEW T, 0 \in T, \A k \in 1 .. n : k - 1 \in T => k \in T
  PROVE  \A k \in 0 .. n : k \in T
<1> SUFFICES ASSUME ~ \A k \in 0 .. n : k \in T PROVE FALSE
  OBVIOUS
<1> DEFINE Missing == {k \in 0 .. n : k \notin T}
<1>1. PICK m \in Missing : \A j \in Missing : m <= j
  <2>1. Missing \subseteq Nat /\ Missing # {}
    OBVIOUS
  <2> HIDE DEF Missing
  <2>2. QED
    BY <2>1, LeastNumber
<1>2. m \in 1 .. n /\ m \notin T
  BY <1>1
<1>3. m - 1 \in 0 .. n /\ ~(m <= m - 1)
  BY <1>2
<1>4. m - 1 \in T
  BY <1>1, <1>3
<1>5. QED
  BY <1>2, <1>4

-----------------------------------------------------------------------------
(* Telling the subscribers *)

\* f is the run of Broadcast over the first n of order.
IsBroadcast(f, h, m, order, n) ==
  f = [k \in 0 .. n |-> IF k = 0 THEN h
                        ELSE IF order[k] \in h.subscribers THEN Send(f[k - 1], order[k], m)
                        ELSE f[k - 1]]

LEMMA BroadcastExists ==
  ASSUME NEW h, NEW m, NEW order, NEW n \in Nat
  PROVE  \E f : IsBroadcast(f, h, m, order, n)
<1> DEFINE T == {k \in Nat : \E f : IsBroadcast(f, h, m, order, k)}
           next(g, k) == IF order[k] \in h.subscribers THEN Send(g, order[k], m) ELSE g
<1>1. 0 \in T
  <2>1. IsBroadcast([k \in 0 .. 0 |-> h], h, m, order, 0)
    BY DEF IsBroadcast
  <2>2. QED
    BY <2>1
<1>2. ASSUME NEW x \in 1 .. n, x - 1 \in T PROVE x \in T
  <2>1. PICK f : IsBroadcast(f, h, m, order, x - 1)
    BY <1>2
  <2>2. \A k \in 0 .. x - 1 : f[k] = IF k = 0 THEN h ELSE next(f[k - 1], k)
    BY <2>1 DEF IsBroadcast
  <2> HIDE DEF next
  <2> DEFINE g == [k \in 0 .. x |-> IF k = x THEN next(f[x - 1], x) ELSE f[k]]
  <2>3. /\ g = [k \in 0 .. x |-> g[k]]
        /\ g[x] = next(f[x - 1], x)
        /\ \A k \in 0 .. x - 1 : g[k] = f[k]
    OBVIOUS
  <2> HIDE DEF g
  <2>4. ASSUME NEW k \in 0 .. x
        PROVE  g[k] = IF k = 0 THEN h ELSE next(g[k - 1], k)
    <3>1. CASE k = x
      <4>1. x - 1 \in 0 .. x - 1 /\ x # 0
        OBVIOUS
      <4>2. QED
        BY <2>3, <3>1, <4>1
    <3>2. CASE k # x
      <4>1. k \in 0 .. x - 1 /\ (k # 0 => k - 1 \in 0 .. x - 1)
        BY <3>2
      <4>2. QED
        BY <2>2, <2>3, <4>1
    <3>3. QED
      BY <3>1, <3>2
  <2>5. g = [k \in 0 .. x |-> IF k = 0 THEN h ELSE next(g[k - 1], k)]
    BY <2>3, <2>4
  <2>6. IsBroadcast(g, h, m, order, x)
    BY <2>5 DEF IsBroadcast, next
  <2>7. QED
    BY <2>6
<1> HIDE DEF T
<1>3. \A k \in 0 .. n : k \in T
  BY <1>1, <1>2, CountUp
<1>4. n \in T
  BY <1>3
<1>5. QED
  BY <1>4 DEF T

\* One message m and nothing else but releases.
Once(p, q, m) ==
  \E j \in Len(p) + 1 .. Len(q) :
    /\ q[j] = m
    /\ \A x \in Len(p) + 1 .. Len(q) : x # j => q[x] = Freed

LEMMA OnceNow ==
  ASSUME NEW p \in Seq(Messages), NEW q \in Seq(Messages), NEW m \in Messages, Extends(p, q, {Freed})
  PROVE  /\ Append(q, m) \in Seq(Messages) /\ Extends(p, Append(q, m), {m, Freed}) /\ Once(p, Append(q, m), m)
<1>1. /\ Append(q, m) \in Seq(Messages) /\ Len(Append(q, m)) = Len(q) + 1
      /\ \A j \in 1 .. Len(q) : Append(q, m)[j] = q[j]
      /\ Append(q, m)[Len(q) + 1] = m
  BY AppendProperties
<1>2. Len(p) <= Len(q) /\ Len(p) \in Nat /\ Len(q) \in Nat
  BY DEF Extends
<1>3. Extends(p, Append(q, m), {m, Freed})
  <2>1. Extends(q, Append(q, m), {m})
    BY ExtendsAppend
  <2>2. {Freed} \cup {m} \subseteq {m, Freed}
    OBVIOUS
  <2>3. QED
    BY <1>1, <2>1, <2>2, ExtendsTrans, ExtendsMore
<1>4. ASSUME NEW x \in Len(p) + 1 .. Len(Append(q, m)), x # Len(q) + 1 PROVE Append(q, m)[x] = Freed
  <2>1. x \in Len(p) + 1 .. Len(q) /\ x \in 1 .. Len(q)
    BY <1>1, <1>2, <1>4
  <2>2. QED
    BY <1>1, <2>1 DEF Extends
<1>5. Len(q) + 1 \in Len(p) + 1 .. Len(Append(q, m))
  BY <1>1, <1>2
<1>6. QED
  BY <1>1, <1>3, <1>4, <1>5 DEF Once

LEMMA OnceStill ==
  ASSUME NEW p \in Seq(Messages), NEW q \in Seq(Messages), NEW s \in Seq(Messages), NEW m,
         Extends(p, q, {m, Freed}), Once(p, q, m), Extends(q, s, {Freed})
  PROVE  Extends(p, s, {m, Freed}) /\ Once(p, s, m)
<1>1. Extends(p, s, {m, Freed})
  <2>1. {m, Freed} \cup {Freed} \subseteq {m, Freed}
    OBVIOUS
  <2>2. QED
    BY <2>1, ExtendsTrans, ExtendsMore
<1>2. PICK j \in Len(p) + 1 .. Len(q) :
        q[j] = m /\ \A x \in Len(p) + 1 .. Len(q) : x # j => q[x] = Freed
  BY DEF Once
<1>3. Len(p) <= Len(q) /\ Len(q) <= Len(s) /\ Len(p) \in Nat /\ Len(q) \in Nat /\ Len(s) \in Nat
  BY DEF Extends
<1>4. j \in Len(p) + 1 .. Len(s) /\ s[j] = m
  BY <1>2, <1>3 DEF Extends
<1>5. ASSUME NEW x \in Len(p) + 1 .. Len(s), x # j PROVE s[x] = Freed
  <2>1. CASE x <= Len(q)
    <3>1. x \in Len(p) + 1 .. Len(q) /\ x \in 1 .. Len(q)
      BY <1>3, <2>1
    <3>2. QED
      BY <1>2, <1>5, <3>1 DEF Extends
  <2>2. CASE ~(x <= Len(q))
    <3>1. x \in Len(q) + 1 .. Len(s)
      BY <1>3, <2>2
    <3>2. QED
      BY <3>1 DEF Extends
  <2>3. QED
    BY <2>1, <2>2
<1>6. QED
  BY <1>1, <1>4, <1>5 DEF Once

\* order goes through the subscribers of h, and through none twice.
Visits(order, h) ==
  /\ order \in Seq(Connections)
  /\ \A j, k \in 1 .. Len(order) : order[j] = order[k] => j = k
  /\ \A c \in h.subscribers : \E k \in 1 .. Len(order) : order[k] = c

\* What connection k got of a broadcast of m from h to g.
Heard(h, g, k, m) ==
  IF k \in h.subscribers
    THEN /\ Extends(h.outbound[k], g.outbound[k], {m, Freed})
         /\ Once(h.outbound[k], g.outbound[k], m)
            \/ (k \notin g.subscribers /\ Extends(h.outbound[k], g.outbound[k], {Freed}))
    ELSE g.outbound[k] = h.outbound[k]

\* A broadcast from h to g that has come to the connections of S.
Reached(h, g, m, S) ==
  /\ Frame(h, g)
  /\ \A k \in Connections :
       IF k \in h.subscribers /\ k \notin S THEN Extends(h.outbound[k], g.outbound[k], {Freed})
       ELSE Heard(h, g, k, m)

LEMMA BroadcastStep ==
  ASSUME NEW h, Sound(h), NEW m \in Messages, NEW S, NEW g, Reached(h, g, m, S),
         NEW c \in Connections, c \notin S,
         NEW u, u = IF c \in h.subscribers THEN Send(g, c, m) ELSE g
  PROVE  Reached(h, u, m, S \cup {c})
<1>1. CASE c \notin h.subscribers
  BY <1>1 DEF Reached
<1>2. ASSUME c \in h.subscribers PROVE Reached(h, u, m, S \cup {c})
  <2>1. /\ h \in Hosts /\ h.subscribers \subseteq Connections
        /\ Frame(h, g) /\ Sound(g)
        /\ \A k \in Connections : h.outbound[k] \in Seq(Messages) /\ g.outbound[k] \in Seq(Messages)
    BY FrameSound, HostFields DEF Sound, Reached
  <2>2. /\ Frame(g, u)
        /\ IsOpen(u, c) => u.outbound[c] = Append(g.outbound[c], m)
        /\ ~IsOpen(u, c) => u.outbound[c] = g.outbound[c]
        /\ \A k \in Connections \ {c} : Extends(g.outbound[k], u.outbound[k], {Freed})
        /\ \A k \in Connections \ {c} : k \notin u.subscribers => u.outbound[k] = g.outbound[k]
    <3>1. u = Send(g, c, m)
      BY <1>2
    <3> DEFINE v == Send(g, c, m)
    <3>2. Frame(g, v)
      BY <2>1, SendIs
    <3>3. /\ IsOpen(v, c) => v.outbound[c] = Append(g.outbound[c], m)
          /\ ~IsOpen(v, c) => v.outbound[c] = g.outbound[c]
      BY <2>1, SendIs
    <3>4. \A k \in Connections \ {c} : Extends(g.outbound[k], v.outbound[k], {Freed})
      BY <2>1, SendIs
    <3>5. \A k \in Connections \ {c} : k \notin v.subscribers => v.outbound[k] = g.outbound[k]
      BY <2>1, SendIs
    <3> HIDE DEF v
    <3>6. u = v
      BY <3>1 DEF v
    <3>7. QED
      BY <3>2, <3>3, <3>4, <3>5, <3>6
  <2>3. Frame(h, u) /\ u.subscribers \subseteq g.subscribers /\ g.subscribers \subseteq h.subscribers
    <3>1. Frame(h, u)
      BY <2>1, <2>2, FrameTrans
    <3>2. QED
      BY <2>1, <2>2, <3>1 DEF Frame
  <2>4. \A k \in Connections : u.outbound[k] \in Seq(Messages)
    BY <2>3, HostFields DEF Frame
  <2>5. ASSUME NEW k \in Connections, k = c PROVE Heard(h, u, k, m)
    <3>1. Extends(h.outbound[k], g.outbound[k], {Freed})
      BY <1>2, <2>5 DEF Reached
    <3>2. CASE IsOpen(u, c)
      <4>1. u.outbound[k] = Append(g.outbound[k], m)
        BY <2>2, <2>5, <3>2
      <4>2. Extends(h.outbound[k], u.outbound[k], {m, Freed}) /\ Once(h.outbound[k], u.outbound[k], m)
        <5> DEFINE p == h.outbound[k]
                   q == g.outbound[k]
        <5>1. p \in Seq(Messages) /\ q \in Seq(Messages) /\ Extends(p, q, {Freed}) /\ u.outbound[k] = Append(q, m)
          BY <2>1, <3>1, <4>1
        <5> HIDE DEF p, q
        <5>2. Extends(p, Append(q, m), {m, Freed}) /\ Once(p, Append(q, m), m)
          BY <5>1, OnceNow
        <5>3. QED
          BY <5>1, <5>2 DEF p
      <4>3. QED
        BY <1>2, <2>5, <4>2 DEF Heard
    <3>3. CASE ~IsOpen(u, c)
      <4>1. c \notin u.subscribers
        BY <2>3, <3>3 DEF Frame
      <4>2. Extends(h.outbound[k], u.outbound[k], {Freed})
        BY <2>2, <2>5, <3>1, <3>3
      <4>3. Extends(h.outbound[k], u.outbound[k], {m, Freed})
        BY <2>1, <2>4, <4>2, ExtendsMore
      <4>4. QED
        BY <1>2, <2>5, <4>1, <4>2, <4>3 DEF Heard
    <3>4. QED
      BY <3>2, <3>3
  <2>6. ASSUME NEW k \in Connections, k # c, k \in h.subscribers, k \notin S
        PROVE  Extends(h.outbound[k], u.outbound[k], {Freed})
    <3>1. Extends(h.outbound[k], g.outbound[k], {Freed}) /\ Extends(g.outbound[k], u.outbound[k], {Freed})
      BY <2>2, <2>6 DEF Reached
    <3>2. Extends(h.outbound[k], u.outbound[k], {Freed} \cup {Freed})
      BY <2>1, <2>4, <3>1, ExtendsTrans
    <3>3. {Freed} \cup {Freed} = {Freed}
      OBVIOUS
    <3>4. QED
      BY <3>2, <3>3
  <2>7. ASSUME NEW k \in Connections, k # c, k \in h.subscribers, k \in S PROVE Heard(h, u, k, m)
    <3>1. Heard(h, g, k, m) /\ Extends(g.outbound[k], u.outbound[k], {Freed})
      BY <2>2, <2>7 DEF Reached
    <3>2. CASE Once(h.outbound[k], g.outbound[k], m)
      <4>1. Extends(h.outbound[k], g.outbound[k], {m, Freed})
        BY <2>7, <3>1 DEF Heard
      <4>2. QED
        BY <2>1, <2>4, <2>7, <3>1, <3>2, <4>1, OnceStill DEF Heard
    <3>3. CASE k \notin g.subscribers /\ Extends(h.outbound[k], g.outbound[k], {Freed})
      <4>1. k \notin u.subscribers /\ u.outbound[k] = g.outbound[k]
        BY <2>2, <2>3, <2>7, <3>3
      <4>2. QED
        BY <2>7, <3>1, <3>3, <4>1 DEF Heard
    <3>4. QED
      BY <2>7, <3>1, <3>2, <3>3 DEF Heard
  <2>8. ASSUME NEW k \in Connections, k \notin h.subscribers PROVE Heard(h, u, k, m)
    <3>1. k # c /\ k \notin u.subscribers /\ g.outbound[k] = h.outbound[k]
      BY <1>2, <2>3, <2>8 DEF Reached, Heard
    <3>2. QED
      BY <2>2, <2>8, <3>1 DEF Heard
  <2>9. QED
    BY <2>3, <2>5, <2>6, <2>7, <2>8 DEF Reached
<1>3. QED
  BY <1>1, <1>2

LEMMA BroadcastIs ==
  ASSUME NEW h, Sound(h), NEW m \in Messages, NEW order, Visits(order, h)
  PROVE  LET g == Broadcast(h, m, order) IN
         Frame(h, g) /\ \A k \in Connections : Heard(h, g, k, m)
<1> DEFINE f == CHOOSE g : IsBroadcast(g, h, m, order, Len(order))
           told(n) == {order[k] : k \in 1 .. n}
           T == {n \in 0 .. Len(order) : Reached(h, f[n], m, told(n))}
<1>0. /\ Len(order) \in Nat /\ h \in Hosts
      /\ \A k \in Connections : h.outbound[k] \in Seq(Messages)
      /\ \A k \in 1 .. Len(order) : order[k] \in Connections
  BY HostFields DEF Sound, Visits
<1>1. IsBroadcast(f, h, m, order, Len(order))
  BY <1>0, BroadcastExists
<1>2. Broadcast(h, m, order) = f[Len(order)]
  BY DEF Broadcast, IsBroadcast
<1> HIDE DEF f
<1>3. \A k \in 0 .. Len(order) :
        f[k] = IF k = 0 THEN h ELSE IF order[k] \in h.subscribers THEN Send(f[k - 1], order[k], m) ELSE f[k - 1]
  BY <1>1 DEF IsBroadcast
<1>4. Reached(h, f[0], m, told(0))
  <2>1. f[0] = h
    BY <1>0, <1>3
  <2>2. \A k \in Connections : Extends(h.outbound[k], h.outbound[k], {Freed})
    BY <1>0, ExtendsSame
  <2>3. \A k : k \notin told(0)
    OBVIOUS
  <2> HIDE DEF told
  <2>4. QED
    BY <2>1, <2>2, <2>3, FrameSame DEF Heard, Reached
<1>5. ASSUME NEW n \in 1 .. Len(order), Reached(h, f[n - 1], m, told(n - 1)) PROVE Reached(h, f[n], m, told(n))
  <2>1. told(n) = told(n - 1) \cup {order[n]}
    <3>1. \A k : k \in 1 .. n <=> k \in 1 .. n - 1 \/ k = n
      BY <1>0
    <3>2. QED
      BY <3>1
  <2>2. order[n] \notin told(n - 1) /\ order[n] \in Connections
    <3>1. \A k \in 1 .. n - 1 : k \in 1 .. Len(order) /\ k # n
      BY <1>0
    <3>2. QED
      BY <1>0, <3>1 DEF Visits
  <2>3. n \in 0 .. Len(order) /\ n # 0
    BY <1>0
  <2>4. f[n] = IF order[n] \in h.subscribers THEN Send(f[n - 1], order[n], m) ELSE f[n - 1]
    BY <1>3, <2>3
  <2> DEFINE g == f[n - 1]
             c == order[n]
             S == told(n - 1)
             u == f[n]
  <2>5. Reached(h, g, m, S) /\ c \in Connections /\ c \notin S
    BY <1>5, <2>2
  <2>6. u = IF c \in h.subscribers THEN Send(g, c, m) ELSE g
    BY <2>4
  <2>7. told(n) = S \cup {c}
    BY <2>1
  <2> HIDE DEF told, g, c, S, u
  <2>8. Reached(h, u, m, S \cup {c})
    BY <2>5, <2>6, BroadcastStep
  <2>9. QED
    BY <2>7, <2>8 DEF u
<1> HIDE DEF told
<1>6. Len(order) \in T
  <2>1. 0 \in T
    BY <1>0, <1>4
  <2>2. ASSUME NEW k \in 1 .. Len(order), k - 1 \in T PROVE k \in T
    BY <1>0, <1>5, <2>2
  <2> HIDE DEF T
  <2>3. \A k \in 0 .. Len(order) : k \in T
    BY <1>0, <2>1, <2>2, CountUp
  <2>4. QED
    BY <1>0, <2>3
<1>7. \A c \in h.subscribers : c \in told(Len(order))
  BY DEF Visits, told
<1>8. QED
  BY <1>2, <1>6, <1>7 DEF Reached

-----------------------------------------------------------------------------
(* The order in which subscribers are told *)

LEMMA OrderIs ==
  ASSUME NEW S \in SUBSET Connections, NEW order \in SetToSeqs(S)
  PROVE  /\ order \in Seq(Connections)
         /\ \A j, k \in 1 .. Len(order) : order[j] = order[k] => j = k
         /\ \A c \in S : \E k \in 1 .. Len(order) : order[k] = c
<1> DEFINE n == Cardinality(S)
<1>1. IsFiniteSet(S)
  <2>1. IsFiniteSet(1 .. MaxConnections)
    BY Constants, FS_Interval
  <2>2. QED
    BY <2>1, FS_Subset DEF Connections
<1>2. n \in Nat
  BY <1>1, FS_CardinalityType
<1>3. order \in [1 .. n -> S] /\ \A i, j \in 1 .. n : i # j => order[i] # order[j]
  BY DEF SetToSeqs
<1> HIDE DEF n
<1>4. order \in Injection(1 .. n, S)
  BY <1>3 DEF Injection, IsInjective
<1>5. IsFiniteSet(1 .. n) /\ Cardinality(1 .. n) = n
  <2>1. 1 \in Int /\ n \in Int /\ (IF 1 > n THEN 0 ELSE n - 1 + 1) = n
    BY <1>2
  <2>2. QED
    BY <2>1, FS_Interval
<1>6. order \in Surjection(1 .. n, S)
  BY <1>1, <1>4, <1>5, FS_Injection DEF n
<1>7. \A c \in S : \E k \in 1 .. n : order[k] = c
  BY <1>6 DEF Surjection
<1>8. order \in Seq(Connections) /\ Len(order) = n
  BY <1>2, <1>3
<1>9. QED
  BY <1>3, <1>7, <1>8

LEMMA OrderVisits ==
  ASSUME NEW S \in SUBSET Connections, NEW order \in SetToSeqs(S), NEW h, h.subscribers \subseteq S
  PROVE  Visits(order, h)
BY OrderIs DEF Visits

-----------------------------------------------------------------------------
(* Positions in the log *)

\* The numbers of a log increase, and n is not below them.
Dated(log, n) ==
  /\ log \in Seq(Nat) /\ n \in Nat
  /\ \A k \in 1 .. Len(log) : log[k] > 0 /\ log[k] <= n
  /\ \A j, k \in 1 .. Len(log) : j < k => log[j] < log[k]

LEMMA MaximumIs ==
  ASSUME NEW n \in Nat, NEW S \in SUBSET (0 .. n), S # {}
  PROVE  Max(S) \in S /\ \A y \in S : y <= Max(S)
<1> DEFINE T == {n - x : x \in S}
<1>1. T \subseteq Nat /\ T # {}
  <2>1. \A x \in S : n - x \in Nat
    OBVIOUS
  <2>2. PICK x \in S : TRUE
    OBVIOUS
  <2>3. n - x \in T
    OBVIOUS
  <2>4. QED
    BY <2>1, <2>3
<1>2. PICK t \in T : \A y \in T : t <= y
  <2> HIDE DEF T
  <2>1. QED
    BY <1>1, LeastNumber
<1>3. PICK x \in S : t = n - x
  BY <1>2
<1>4. \A y \in S : x >= y
  BY <1>2, <1>3
<1>5. Max(S) \in S /\ \A y \in S : Max(S) >= y
  BY <1>4 DEF Max
<1>6. QED
  BY <1>5

LEMMA UpToIs ==
  ASSUME NEW log, NEW last, Dated(log, last), NEW n \in Int
  PROVE  /\ UpTo(log, n) \in 0 .. Len(log)
         /\ \A k \in 1 .. UpTo(log, n) : log[k] <= n
         /\ \A k \in UpTo(log, n) + 1 .. Len(log) : log[k] > n
<1> DEFINE S == {0} \cup {k \in DOMAIN log : log[k] <= n}
           u == UpTo(log, n)
<1>0. /\ Len(log) \in Nat /\ DOMAIN log = 1 .. Len(log) /\ \A k \in 1 .. Len(log) : log[k] \in Nat
      /\ \A j, k \in 1 .. Len(log) : j < k => log[j] < log[k]
  BY DEF Dated
<1>1. S \in SUBSET (0 .. Len(log)) /\ S # {}
  BY <1>0
<1>2. u = Max(S)
  BY DEF UpTo
<1>3. \A k \in 1 .. Len(log) : log[k] <= n => k \in S
  BY <1>0
<1>4. \A k \in S : k # 0 => k \in 1 .. Len(log) /\ log[k] <= n
  BY <1>0
<1> HIDE DEF S, u
<1>5. u \in S /\ \A y \in S : y <= u
  BY <1>0, <1>1, <1>2, MaximumIs
<1>6. u \in 0 .. Len(log)
  BY <1>1, <1>5
<1>7. ASSUME NEW k \in 1 .. u PROVE log[k] <= n
  <2>1. u # 0 /\ u \in 1 .. Len(log) /\ log[u] <= n /\ k \in 1 .. Len(log)
    BY <1>0, <1>4, <1>5, <1>6
  <2>2. k = u \/ k < u
    BY <2>1
  <2>3. QED
    BY <1>0, <2>1, <2>2
<1>8. ASSUME NEW k \in u + 1 .. Len(log) PROVE log[k] > n
  <2>1. k \in 1 .. Len(log) /\ ~(k <= u)
    BY <1>0, <1>6
  <2>2. QED
    BY <1>0, <1>3, <1>5, <2>1
<1>9. QED
  BY <1>6, <1>7, <1>8 DEF u

LEMMA UpToUnique ==
  ASSUME NEW log, NEW last, Dated(log, last), NEW n \in Int, NEW u \in 0 .. Len(log),
         u > 0 => log[u] <= n, u < Len(log) => log[u + 1] > n
  PROVE  UpTo(log, n) = u
<1> DEFINE w == UpTo(log, n)
<1>0. /\ Len(log) \in Nat /\ \A k \in 1 .. Len(log) : log[k] \in Nat
      /\ \A j, k \in 1 .. Len(log) : j < k => log[j] < log[k]
  BY DEF Dated
<1>1. /\ w \in 0 .. Len(log) /\ \A k \in 1 .. w : log[k] <= n
      /\ \A k \in w + 1 .. Len(log) : log[k] > n
  BY UpToIs
<1> HIDE DEF w
<1>2. ~(w < u)
  <2>1. SUFFICES ASSUME w < u PROVE FALSE
    OBVIOUS
  <2>2. u \in w + 1 .. Len(log) /\ u > 0
    BY <1>0, <1>1, <2>1
  <2>3. QED
    BY <1>0, <1>1, <2>2
<1>3. ~(u < w)
  <2>1. SUFFICES ASSUME u < w PROVE FALSE
    OBVIOUS
  <2>2. u + 1 \in 1 .. w /\ u < Len(log) /\ u + 1 \in 1 .. Len(log)
    BY <1>0, <1>1, <2>1
  <2>3. QED
    BY <1>0, <1>1, <2>2
<1>4. QED
  BY <1>1, <1>2, <1>3 DEF w

\* What comes to the log later is above what n tells of.
LEMMA UpToLater ==
  ASSUME NEW log, NEW last, Dated(log, last), NEW log2, NEW last2, Dated(log2, last2),
         Len(log) <= Len(log2), \A k \in 1 .. Len(log) : log2[k] = log[k],
         \A k \in Len(log) + 1 .. Len(log2) : log2[k] > last,
         NEW n \in Int, n <= last
  PROVE  UpTo(log2, n) = UpTo(log, n)
<1> DEFINE u == UpTo(log, n)
<1>0. /\ Len(log) \in Nat /\ Len(log2) \in Nat /\ last \in Nat
      /\ \A k \in 1 .. Len(log) : log[k] \in Nat
      /\ \A k \in 1 .. Len(log2) : log2[k] \in Nat
  BY DEF Dated
<1>1. /\ u \in 0 .. Len(log) /\ \A k \in 1 .. u : log[k] <= n
      /\ \A k \in u + 1 .. Len(log) : log[k] > n
  BY UpToIs
<1> HIDE DEF u
<1>2. u > 0 => log2[u] <= n
  <2>1. u > 0 => u \in 1 .. u /\ u \in 1 .. Len(log)
    BY <1>0, <1>1
  <2>2. QED
    BY <1>1, <2>1
<1>3. ASSUME u < Len(log2) PROVE log2[u + 1] > n
  <2>1. CASE u < Len(log)
    <3>1. u + 1 \in u + 1 .. Len(log) /\ u + 1 \in 1 .. Len(log)
      BY <1>0, <1>1, <2>1
    <3>2. QED
      BY <1>1, <3>1
  <2>2. CASE ~(u < Len(log))
    <3>1. u + 1 \in Len(log) + 1 .. Len(log2) /\ u + 1 \in 1 .. Len(log2)
      BY <1>0, <1>1, <1>3, <2>2
    <3>2. QED
      BY <1>0, <3>1
  <2>3. QED
    BY <2>1, <2>2
<1>4. u \in 0 .. Len(log2)
  BY <1>0, <1>1
<1>5. UpTo(log2, n) = u
  BY <1>2, <1>3, <1>4, UpToUnique
<1>6. QED
  BY <1>5 DEF u

LEMMA UpToMonotone ==
  ASSUME NEW log, NEW last, Dated(log, last), NEW m \in Int, NEW n \in Int, m <= n
  PROVE  UpTo(log, m) <= UpTo(log, n)
<1> DEFINE u == UpTo(log, m)
           w == UpTo(log, n)
<1>0. Len(log) \in Nat /\ \A k \in 1 .. Len(log) : log[k] \in Nat
  BY DEF Dated
<1>1. u \in 0 .. Len(log) /\ \A k \in 1 .. u : log[k] <= m
  BY UpToIs
<1>2. w \in 0 .. Len(log) /\ \A k \in w + 1 .. Len(log) : log[k] > n
  BY UpToIs
<1> HIDE DEF u, w
<1>3. ~(w < u)
  <2>1. SUFFICES ASSUME w < u PROVE FALSE
    OBVIOUS
  <2>2. u \in 1 .. u /\ u \in w + 1 .. Len(log) /\ u \in 1 .. Len(log)
    BY <1>0, <1>1, <1>2, <2>1
  <2>3. log[u] <= m /\ log[u] > n /\ log[u] \in Nat
    BY <1>0, <1>1, <1>2, <2>2
  <2>4. QED
    BY <2>3
<1>4. QED
  BY <1>1, <1>2, <1>3 DEF u, w

\* The end of the log, and an event of it.
LEMMA UpToEnd ==
  ASSUME NEW log, NEW last, Dated(log, last), NEW n \in Int, n >= last
  PROVE  UpTo(log, n) = Len(log)
<1>1. /\ Len(log) \in 0 .. Len(log) /\ last \in Nat /\ ~(Len(log) < Len(log))
      /\ Len(log) > 0 => Len(log) \in 1 .. Len(log)
      /\ \A k \in 1 .. Len(log) : log[k] \in Nat /\ log[k] <= last
  BY DEF Dated
<1>2. Len(log) > 0 => log[Len(log)] <= n
  BY <1>1
<1>3. QED
  BY <1>1, <1>2, UpToUnique

LEMMA UpToEvent ==
  ASSUME NEW log, NEW last, Dated(log, last), NEW k \in 1 .. Len(log)
  PROVE  UpTo(log, log[k]) = k
<1>1. /\ Len(log) \in Nat /\ log[k] \in Nat /\ k \in 0 .. Len(log) /\ k > 0
      /\ \A i, j \in 1 .. Len(log) : i < j => log[i] < log[j]
  BY DEF Dated
<1>2. k < Len(log) => log[k + 1] > log[k]
  <2>1. k < Len(log) => k + 1 \in 1 .. Len(log) /\ k < k + 1 /\ log[k + 1] \in Nat
    BY <1>1 DEF Dated
  <2>2. QED
    BY <1>1, <2>1
<1>3. log[k] <= log[k]
  BY <1>1
<1>4. QED
  BY <1>1, <1>2, <1>3, UpToUnique

-----------------------------------------------------------------------------
(* What the messages on their way show of the log *)

\* Message m moves a viewer of the log, which reaches to number n, from
\* position a to position b.
IsMove(log, n, m, a, b) ==
  CASE m.kind = "event" -> b = a + 1 /\ b <= Len(log) /\ log[b] = m.at
    [] m.kind = "snapshot" -> m.at <= n /\ b = UpTo(log, m.at) /\ a <= b
    [] m.kind = "attached" -> m.at <= n /\ b = a /\ UpTo(log, m.at) = a
    [] OTHER -> b = a

\* The messages of q move it from a to e.
Moves(q, log, n, at, from) ==
  \A k \in from + 1 .. Len(q) : IsMove(log, n, q[k], at[k - 1], at[k])

Carries(q, log, n, a, e) ==
  \E at \in [0 .. Len(q) -> 0 .. Len(log)] : at[0] = a /\ at[Len(q)] = e /\ Moves(q, log, n, at, 0)

LEMMA CarriesNothing ==
  ASSUME NEW log, NEW n, NEW a \in 0 .. Len(log)
  PROVE  Carries(<<>>, log, n, a, a)
<1> DEFINE at == [k \in 0 .. 0 |-> a]
<1>1. Len(<<>>) = 0 /\ at \in [0 .. 0 -> 0 .. Len(log)] /\ at[0] = a
  OBVIOUS
<1>2. \A k \in 0 + 1 .. 0 : FALSE
  OBVIOUS
<1>3. Moves(<<>>, log, n, at, 0)
  BY <1>1, <1>2 DEF Moves
<1>4. QED
  BY <1>1, <1>3 DEF Carries

\* q is p with messages after it, which move the viewer on.
LEMMA CarriesOn ==
  ASSUME NEW p \in Seq(Messages), NEW q \in Seq(Messages), NEW log, NEW n, NEW a, NEW e, NEW d,
         Carries(p, log, n, a, e), Len(p) <= Len(q), \A k \in 1 .. Len(p) : q[k] = p[k],
         NEW on \in [Len(p) .. Len(q) -> 0 .. Len(log)], on[Len(p)] = e, on[Len(q)] = d,
         Moves(q, log, n, on, Len(p))
  PROVE  Carries(q, log, n, a, d)
<1>0. Len(p) \in Nat /\ Len(q) \in Nat
  OBVIOUS
<1>1. PICK at \in [0 .. Len(p) -> 0 .. Len(log)] : at[0] = a /\ at[Len(p)] = e /\ Moves(p, log, n, at, 0)
  BY DEF Carries
<1> DEFINE both == [k \in 0 .. Len(q) |-> IF k <= Len(p) THEN at[k] ELSE on[k]]
<1>2. both \in [0 .. Len(q) -> 0 .. Len(log)]
  <2>1. ASSUME NEW k \in 0 .. Len(q) PROVE (IF k <= Len(p) THEN at[k] ELSE on[k]) \in 0 .. Len(log)
    <3>1. CASE k <= Len(p)
      <4>1. k \in 0 .. Len(p)
        BY <1>0, <3>1
      <4>2. QED
        BY <1>1, <3>1, <4>1
    <3>2. CASE ~(k <= Len(p))
      <4>1. k \in Len(p) .. Len(q)
        BY <1>0, <3>2
      <4>2. QED
        BY <3>2, <4>1
    <3>3. QED
      BY <3>1, <3>2
  <2>2. QED
    BY <2>1
<1>3. \A k \in 0 .. Len(q) : both[k] = IF k <= Len(p) THEN at[k] ELSE on[k]
  OBVIOUS
<1> HIDE DEF both
<1>4. both[0] = a
  BY <1>0, <1>1, <1>3
<1>5. both[Len(q)] = d
  <2>1. Len(q) \in 0 .. Len(q) /\ (Len(q) <= Len(p) => Len(q) = Len(p))
    BY <1>0
  <2>2. QED
    BY <1>1, <1>3, <2>1
<1>6. ASSUME NEW k \in 0 + 1 .. Len(q) PROVE IsMove(log, n, q[k], both[k - 1], both[k])
  <2>1. k \in 0 .. Len(q) /\ k - 1 \in 0 .. Len(q) /\ (k - 1 <= Len(p) <=> k <= Len(p) + 1)
    BY <1>0
  <2>2. CASE k <= Len(p)
    <3>1. k \in 0 + 1 .. Len(p) /\ k \in 1 .. Len(p) /\ k - 1 <= Len(p)
      BY <1>0, <2>2
    <3>2. both[k] = at[k] /\ both[k - 1] = at[k - 1] /\ q[k] = p[k]
      BY <1>3, <2>1, <2>2, <3>1
    <3>3. IsMove(log, n, p[k], at[k - 1], at[k])
      BY <1>1, <3>1 DEF Moves
    <3>4. QED
      BY <3>2, <3>3
  <2>3. CASE ~(k <= Len(p))
    <3>1. k \in Len(p) + 1 .. Len(q) /\ (k - 1 <= Len(p) => k - 1 = Len(p))
      BY <1>0, <2>3
    <3>2. both[k] = on[k] /\ both[k - 1] = on[k - 1]
      BY <1>1, <1>3, <2>1, <2>3, <3>1
    <3>3. IsMove(log, n, q[k], on[k - 1], on[k])
      BY <3>1 DEF Moves
    <3>4. QED
      BY <3>2, <3>3
  <2>4. QED
    BY <2>2, <2>3
<1>7. Moves(q, log, n, both, 0)
  BY <1>6 DEF Moves
<1>8. QED
  BY <1>2, <1>4, <1>5, <1>7 DEF Carries

LEMMA CarriesTail ==
  ASSUME NEW q \in Seq(Messages), q # <<>>, NEW log, NEW n, NEW a, NEW e, Carries(q, log, n, a, e)
  PROVE  \E b \in 0 .. Len(log) : IsMove(log, n, Head(q), a, b) /\ Carries(Tail(q), log, n, b, e)
<1> DEFINE t == Tail(q)
<1>0. /\ Len(q) \in Nat /\ Len(q) > 0 /\ Len(t) = Len(q) - 1 /\ Head(q) = q[1]
      /\ \A k \in 1 .. Len(t) : t[k] = q[k + 1]
  BY HeadTailProperties, EmptySeq
<1> HIDE DEF t
<1>1. PICK at \in [0 .. Len(q) -> 0 .. Len(log)] : at[0] = a /\ at[Len(q)] = e /\ Moves(q, log, n, at, 0)
  BY DEF Carries
<1>2. \A k \in 1 .. Len(q) : IsMove(log, n, q[k], at[k - 1], at[k])
  <2>1. 1 .. Len(q) = 0 + 1 .. Len(q)
    OBVIOUS
  <2>2. QED
    BY <1>1, <2>1 DEF Moves
<1> DEFINE on == [k \in 0 .. Len(t) |-> at[k + 1]]
<1>3. on \in [0 .. Len(t) -> 0 .. Len(log)] /\ \A k \in 0 .. Len(t) : on[k] = at[k + 1]
  <2>1. \A k \in 0 .. Len(t) : k + 1 \in 0 .. Len(q)
    BY <1>0
  <2>2. QED
    BY <2>1
<1> HIDE DEF on
<1>4. on[0] = at[1] /\ on[Len(t)] = e
  <2>1. 0 \in 0 .. Len(t) /\ Len(t) \in 0 .. Len(t) /\ 0 + 1 = 1 /\ Len(t) + 1 = Len(q)
    BY <1>0
  <2>2. QED
    BY <1>1, <1>3, <2>1
<1>5. ASSUME NEW k \in 0 + 1 .. Len(t) PROVE IsMove(log, n, t[k], on[k - 1], on[k])
  <2>1. /\ k + 1 \in 1 .. Len(q) /\ k \in 1 .. Len(t) /\ k - 1 \in 0 .. Len(t) /\ k \in 0 .. Len(t)
        /\ k + 1 - 1 = k /\ k - 1 + 1 = k
    BY <1>0
  <2>2. IsMove(log, n, q[k + 1], at[k], at[k + 1])
    BY <1>2, <2>1
  <2>3. on[k - 1] = at[k] /\ on[k] = at[k + 1] /\ t[k] = q[k + 1]
    BY <1>0, <1>3, <2>1
  <2>4. QED
    BY <2>2, <2>3
<1>6. Carries(t, log, n, at[1], e)
  <2>1. Moves(t, log, n, on, 0)
    BY <1>5 DEF Moves
  <2>2. QED
    BY <1>3, <1>4, <2>1 DEF Carries
<1>7. IsMove(log, n, q[1], a, at[1]) /\ at[1] \in 0 .. Len(log)
  <2>1. 1 \in 1 .. Len(q) /\ 1 - 1 = 0 /\ 1 \in 0 .. Len(q)
    BY <1>0
  <2>2. QED
    BY <1>1, <1>2, <2>1
<1>8. QED
  BY <1>0, <1>6, <1>7 DEF t

\* The log grows, from what number n tells of to what last tells of.
Grows(log, n, later, last) ==
  /\ Dated(log, n) /\ Dated(later, last) /\ n <= last
  /\ Len(log) <= Len(later) /\ \A k \in 1 .. Len(log) : later[k] = log[k]
  /\ \A k \in Len(log) + 1 .. Len(later) : later[k] > n

LEMMA CarriesLater ==
  ASSUME NEW log, NEW n, NEW later, NEW last, Grows(log, n, later, last),
         NEW q \in Seq(Messages), NEW a, NEW e, Carries(q, log, n, a, e)
  PROVE  Carries(q, later, last, a, e)
<1>0. /\ Len(q) \in Nat /\ Len(log) \in Nat /\ Len(later) \in Nat /\ n \in Nat /\ last \in Nat
      /\ n <= last /\ Len(log) <= Len(later)
      /\ \A k \in 1 .. Len(log) : later[k] = log[k]
      /\ \A k \in 1 .. Len(q) : q[k] \in Messages
  BY ElementOfSeq DEF Grows, Dated
<1>1. PICK at \in [0 .. Len(q) -> 0 .. Len(log)] : at[0] = a /\ at[Len(q)] = e /\ Moves(q, log, n, at, 0)
  BY DEF Carries
<1>2. at \in [0 .. Len(q) -> 0 .. Len(later)]
  <2>1. 0 .. Len(log) \subseteq 0 .. Len(later)
    BY <1>0
  <2>2. QED
    BY <1>1, <2>1
<1>3. \A k \in Int : k <= n => UpTo(later, k) = UpTo(log, k)
  BY UpToLater DEF Grows
<1>4. ASSUME NEW k \in 0 + 1 .. Len(q) PROVE IsMove(later, last, q[k], at[k - 1], at[k])
  <2> DEFINE m == q[k]
             x == at[k - 1]
             y == at[k]
  <2>1. IsMove(log, n, m, x, y)
    BY <1>1 DEF Moves
  <2>2. k - 1 \in 0 .. Len(q) /\ k \in 0 .. Len(q) /\ k \in 1 .. Len(q)
    BY <1>0
  <2>3. x \in 0 .. Len(log) /\ y \in 0 .. Len(log) /\ m \in Messages
    BY <1>0, <1>1, <2>2
  <2> HIDE DEF m, x, y
  <2>4. m.kind \in {"event", "snapshot", "attached"} => m.at \in Nat
    BY <2>3, MessageFields
  <2>5. CASE m.kind = "event"
    <3>1. y = x + 1 /\ y <= Len(log) /\ log[y] = m.at
      BY <2>1, <2>5 DEF IsMove
    <3>2. y \in 1 .. Len(log) /\ y <= Len(later)
      BY <1>0, <2>3, <3>1
    <3>3. later[y] = m.at
      BY <1>0, <3>1, <3>2
    <3>4. QED
      BY <2>5, <3>1, <3>2, <3>3 DEF IsMove, m, x, y
  <2>6. CASE m.kind = "snapshot"
    <3>1. m.at <= n /\ y = UpTo(log, m.at) /\ x <= y
      BY <2>1, <2>6 DEF IsMove
    <3>2. m.at \in Int /\ m.at <= last
      BY <1>0, <2>4, <2>6, <3>1
    <3>3. UpTo(later, m.at) = UpTo(log, m.at)
      BY <1>3, <3>1, <3>2
    <3>4. QED
      BY <2>6, <3>1, <3>2, <3>3 DEF IsMove, m, x, y
  <2>7. CASE m.kind = "attached"
    <3>1. m.at <= n /\ y = x /\ UpTo(log, m.at) = x
      BY <2>1, <2>7 DEF IsMove
    <3>2. m.at \in Int /\ m.at <= last
      BY <1>0, <2>4, <2>7, <3>1
    <3>3. UpTo(later, m.at) = UpTo(log, m.at)
      BY <1>3, <3>1, <3>2
    <3>4. QED
      BY <2>7, <3>1, <3>2, <3>3 DEF IsMove, m, x, y
  <2>8. CASE m.kind \notin {"event", "snapshot", "attached"}
    <3>1. y = x
      BY <2>1, <2>8 DEF IsMove
    <3>2. QED
      BY <2>8, <3>1 DEF IsMove, m, x, y
  <2>9. QED
    BY <2>5, <2>6, <2>7, <2>8
<1>5. Moves(q, later, last, at, 0)
  BY <1>4 DEF Moves
<1>6. QED
  BY <1>1, <1>2, <1>5 DEF Carries

\* Messages of no event leave the viewer where it is.
LEMMA CarriesQuiet ==
  ASSUME NEW p \in Seq(Messages), NEW q \in Seq(Messages), NEW log, NEW n, NEW a, NEW e \in 0 .. Len(log),
         Carries(p, log, n, a, e), NEW M, Extends(p, q, M),
         \A m \in M : m.kind \notin {"event", "snapshot", "attached"}
  PROVE  Carries(q, log, n, a, e)
<1> DEFINE on == [k \in Len(p) .. Len(q) |-> e]
<1>0. /\ Len(p) \in Nat /\ Len(q) \in Nat /\ Len(p) <= Len(q)
      /\ \A k \in 1 .. Len(p) : q[k] = p[k]
      /\ \A k \in Len(p) + 1 .. Len(q) : q[k] \in M
  BY DEF Extends
<1>1. /\ on \in [Len(p) .. Len(q) -> 0 .. Len(log)] /\ on[Len(p)] = e /\ on[Len(q)] = e
      /\ \A k \in Len(p) + 1 .. Len(q) : on[k] = e /\ on[k - 1] = e
  BY <1>0
<1> HIDE DEF on
<1>2. Moves(q, log, n, on, Len(p))
  BY <1>0, <1>1 DEF Moves, IsMove
<1>3. QED
  BY <1>0, <1>1, <1>2, CarriesOn

\* The next event, once, moves it by one.
LEMMA CarriesEvent ==
  ASSUME NEW p \in Seq(Messages), NEW q \in Seq(Messages), NEW log, NEW n, NEW a, NEW e \in 0 .. Len(log),
         Carries(p, log, n, a, e), NEW m \in Messages, Extends(p, q, {m, Freed}), Once(p, q, m),
         m.kind = "event", e < Len(log), log[e + 1] = m.at, Len(log) \in Nat
  PROVE  Carries(q, log, n, a, e + 1)
<1>0. /\ Len(p) \in Nat /\ Len(q) \in Nat /\ Len(p) <= Len(q)
      /\ \A k \in 1 .. Len(p) : q[k] = p[k]
      /\ e + 1 \in 0 .. Len(log) /\ e + 1 <= Len(log) /\ Freed.kind = "driver"
  BY MessageTypes DEF Extends
<1>1. PICK j \in Len(p) + 1 .. Len(q) :
        q[j] = m /\ \A x \in Len(p) + 1 .. Len(q) : x # j => q[x] = Freed
  BY DEF Once
<1> DEFINE on == [k \in Len(p) .. Len(q) |-> IF k < j THEN e ELSE e + 1]
<1>2. /\ on \in [Len(p) .. Len(q) -> 0 .. Len(log)]
      /\ \A k \in Len(p) .. Len(q) : on[k] = IF k < j THEN e ELSE e + 1
  BY <1>0
<1> HIDE DEF on
<1>3. on[Len(p)] = e /\ on[Len(q)] = e + 1
  BY <1>0, <1>1, <1>2
<1>4. ASSUME NEW k \in Len(p) + 1 .. Len(q) PROVE IsMove(log, n, q[k], on[k - 1], on[k])
  <2>1. k \in Len(p) .. Len(q) /\ k - 1 \in Len(p) .. Len(q) /\ (k - 1 < j <=> k <= j)
    BY <1>0, <1>1
  <2>2. CASE k = j
    <3>1. on[k - 1] = e /\ on[k] = e + 1 /\ q[k] = m
      BY <1>1, <1>2, <2>1, <2>2
    <3>2. QED
      BY <1>0, <3>1 DEF IsMove
  <2>3. CASE k # j
    <3>1. on[k - 1] = on[k] /\ q[k] = Freed
      BY <1>1, <1>2, <2>1, <2>3
    <3>2. QED
      BY <1>0, <3>1 DEF IsMove
  <2>4. QED
    BY <2>2, <2>3
<1>5. Moves(q, log, n, on, Len(p))
  BY <1>4 DEF Moves
<1>6. QED
  BY <1>0, <1>2, <1>3, <1>5, CarriesOn

LEMMA CarriesBetween ==
  ASSUME NEW q, NEW log, NEW n, NEW a, NEW e, Carries(q, log, n, a, e), Len(q) \in Nat
  PROVE  a \in 0 .. Len(log) /\ e \in 0 .. Len(log)
BY DEF Carries

-----------------------------------------------------------------------------
(* What is on its way between the leader and a pump *)

Requests ==
  [kind : {"attach"}, id : {0}, mode : Modes, force : BOOLEAN, after : Int]
  \cup [kind : {"acquire", "release", "command"}, id : Nat \ {0}, force : BOOLEAN, epoch : Nat]
  \cup [kind : {"closed"}]

\* What the leader h knows of connection c.
Seat(h, c) ==
  [log |-> h.log, sequence |-> h.sequence, driver |-> h.driver, queue |-> h.outbound[c],
   open |-> IsOpen(h, c), subscribed |-> c \in h.subscribers]

Marks == {"driver", "driven", "attached"}

\* The lease that pump i will believe in after message m.
Says(m, i) == IF m.kind = "attached" THEN m.epoch ELSE IF m.lease.owner = i THEN m.lease.epoch ELSE 0

Holds(l, i, v) == v # 0 => l = [owner |-> i, epoch |-> v]

\* No message after position k is sure to change what the pump believes.
IsLast(q, k) == \A j \in k + 1 .. Len(q) : q[j].kind \notin {"driver", "attached"}

\* After all messages of q, pump i believes in lease l, or in none.
Tells(q, lease, i, l) ==
  /\ IsLast(q, 0) => Holds(l, i, lease)
  /\ \A k \in 1 .. Len(q) : q[k].kind \in Marks /\ IsLast(q, k) => Holds(l, i, Says(q[k], i))

Told(s, r, i) == s.subscribed => Tells(s.queue, r.lease, i, s.driver)

\* After all messages, a pump that is attached shows the log up to position d.
Follows(s, d, r) ==
  \E e \in 0 .. Len(s.log) :
    /\ Carries(s.queue, s.log, s.sequence, UpTo(s.log, r.cursor), e)
    /\ s.subscribed => e = d

IsJoining(r) == r.phase \in {"joining", "rejoining"}

\* The request for an attachment is the first and only one of a connection.
IsFirst(s, box, r) ==
  /\ Len(box) = 1 /\ box[1].kind = "attach" /\ box[1].after = r.cursor /\ box[1].mode = r.mode
  /\ s.queue = <<>> /\ ~s.subscribed /\ IsJoining(r)

Boxed(s, box, r) ==
  /\ \A k \in 1 .. Len(box) : box[k].kind # "closed"
  /\ s.open => \A k \in 1 .. Len(box) :
       /\ box[k].kind = "attach" \/ IsJoining(r) => IsFirst(s, box, r)
       /\ box[k].kind = "acquire" => s.subscribed

\* A pump that believes in no lease is attached.
Attended(s, r) ==
  s.open =>
    /\ r.phase \in {"ready", "waiting"} => s.subscribed \/ r.lease # 0
    /\ \A k \in 1 .. Len(s.queue) : s.queue[k].kind \in Marks => s.subscribed

\* Answers to a request for an attachment.
Answered(s, r) ==
  \A k \in 1 .. Len(s.queue) :
    /\ s.queue[k].kind = "attached" =>
         /\ IsJoining(r)
         /\ \A j \in 1 .. Len(s.queue) : s.queue[j].kind = "attached" => j = k
         /\ s.queue[k].epoch = 0 => r.mode = "view" /\ \A j \in 1 .. k - 1 : s.queue[j].kind # "driver"
    /\ s.queue[k] = Rejected(0) =>
         IsJoining(r) /\ Len(s.queue) = 1 /\ ~s.subscribed /\ r.mode = "drive"

Reads(s, d, box, r, i) ==
  /\ s.queue \in Seq(Messages) /\ Dated(s.log, s.sequence)
  /\ Follows(s, d, r) /\ Told(s, r, i) /\ Boxed(s, box, r) /\ Attended(s, r) /\ Answered(s, r)

-----------------------------------------------------------------------------
(* What the leader does to it *)

LEMMA TellsMore ==
  ASSUME NEW p \in Seq(Messages), NEW q \in Seq(Messages), NEW M, Extends(p, q, M),
         NEW lease, NEW i, NEW l, NEW l2,
         \A m \in M : m.kind \in Marks => Holds(l2, i, Says(m, i)),
         \/ \E j \in Len(p) + 1 .. Len(q) : q[j].kind \in {"driver", "attached"}
         \/ Tells(p, lease, i, l) /\ \A v : Holds(l, i, v) => Holds(l2, i, v)
  PROVE  Tells(q, lease, i, l2)
<1>0. /\ Len(p) \in Nat /\ Len(q) \in Nat /\ Len(p) <= Len(q)
      /\ \A k \in 1 .. Len(p) : q[k] = p[k]
      /\ \A k \in Len(p) + 1 .. Len(q) : q[k] \in M
  BY DEF Extends
<1>1. ASSUME NEW k \in 0 .. Len(p), IsLast(q, k)
      PROVE  IsLast(p, k) /\ ~ \E j \in Len(p) + 1 .. Len(q) : q[j].kind \in {"driver", "attached"}
  <2>1. \A j \in k + 1 .. Len(p) : j \in k + 1 .. Len(q) /\ j \in 1 .. Len(p)
    BY <1>0
  <2>2. \A j \in Len(p) + 1 .. Len(q) : j \in k + 1 .. Len(q)
    BY <1>0
  <2>3. QED
    BY <1>0, <1>1, <2>1, <2>2 DEF IsLast
<1>2. ASSUME IsLast(q, 0) PROVE Holds(l2, i, lease)
  <2>1. 0 \in 0 .. Len(p)
    BY <1>0
  <2>2. QED
    BY <1>1, <1>2, <2>1 DEF Tells
<1>3. ASSUME NEW k \in 1 .. Len(q), q[k].kind \in Marks, IsLast(q, k) PROVE Holds(l2, i, Says(q[k], i))
  <2>1. CASE k <= Len(p)
    <3>1. k \in 0 .. Len(p) /\ k \in 1 .. Len(p) /\ q[k] = p[k]
      BY <1>0, <2>1
    <3>2. QED
      BY <1>1, <1>3, <3>1 DEF Tells
  <2>2. CASE ~(k <= Len(p))
    <3>1. k \in Len(p) + 1 .. Len(q)
      BY <1>0, <2>2
    <3>2. QED
      BY <1>0, <1>3, <3>1
  <2>3. QED
    BY <2>1, <2>2
<1>4. QED
  BY <1>2, <1>3 DEF Tells

LEMMA TellsAnew ==
  ASSUME NEW p \in Seq(Messages), NEW q \in Seq(Messages), NEW M, Extends(p, q, M),
         NEW lease, NEW i, NEW l2, \A m \in M : m.kind \in Marks => Holds(l2, i, Says(m, i)),
         \E j \in Len(p) + 1 .. Len(q) : q[j].kind \in {"driver", "attached"}
  PROVE  Tells(q, lease, i, l2)
<1>1. \/ \E j \in Len(p) + 1 .. Len(q) : q[j].kind \in {"driver", "attached"}
      \/ Tells(p, lease, i, l2) /\ \A v : Holds(l2, i, v) => Holds(l2, i, v)
  OBVIOUS
<1>2. QED
  BY <1>1, TellsMore

\* The leader goes on, and tells the connection no more than messages of M.
Steps(s, t, M) ==
  /\ t.log = s.log /\ t.sequence = s.sequence
  /\ t.queue \in Seq(Messages) /\ Extends(s.queue, t.queue, M)
  /\ t.subscribed => t.open /\ s.subscribed
  /\ t.open => s.open /\ (s.subscribed => t.subscribed)
  /\ ~s.subscribed => t.queue = s.queue

\* A lease is released if its holder i is not attached any more.
Lessens(l, l2, subscribed, i) == l2 = l \/ (l2 = NoLease /\ (subscribed => l.owner # i))

LEMMA LessensHolds ==
  ASSUME NEW l, NEW l2, NEW i, Lessens(l, l2, TRUE, i), NEW v, Holds(l, i, v)
  PROVE  Holds(l2, i, v)
BY DEF Lessens, Holds

LEMMA StepsKeep ==
  ASSUME NEW s, NEW t, NEW M, Steps(s, t, M), s.queue \in Seq(Messages),
         \A m \in M : m.kind \in {"driver", "event"},
         NEW box, NEW r, Boxed(s, box, r), Attended(s, r), Answered(s, r)
  PROVE  Boxed(t, box, r) /\ Attended(t, r) /\ Answered(t, r)
<1>0. /\ Len(s.queue) \in Nat /\ Len(t.queue) \in Nat /\ Len(s.queue) <= Len(t.queue)
      /\ \A k \in 1 .. Len(s.queue) : t.queue[k] = s.queue[k]
      /\ \A k \in Len(s.queue) + 1 .. Len(t.queue) : t.queue[k] \in M
  BY DEF Steps, Extends
<1>1. Boxed(t, box, r)
  BY DEF Boxed, Steps, IsFirst
<1>2. Attended(t, r)
  <2>1. ASSUME t.open, NEW k \in 1 .. Len(t.queue), t.queue[k].kind \in Marks PROVE t.subscribed
    <3>1. CASE k <= Len(s.queue)
      <4>1. k \in 1 .. Len(s.queue)
        BY <1>0, <3>1
      <4>2. QED
        BY <1>0, <2>1, <4>1 DEF Attended, Steps
    <3>2. CASE ~(k <= Len(s.queue))
      <4>1. t.queue # s.queue
        BY <1>0, <3>2
      <4>2. QED
        BY <2>1, <4>1 DEF Steps
    <3>3. QED
      BY <3>1, <3>2
  <2>2. QED
    BY <2>1 DEF Attended, Steps
<1>3. \A k \in 1 .. Len(t.queue) :
        /\ t.queue[k].kind \notin {"driver", "event"} => k \in 1 .. Len(s.queue) /\ t.queue[k] = s.queue[k]
        /\ t.queue[k] = Rejected(0) => k \in 1 .. Len(s.queue) /\ s.queue[k] = Rejected(0)
  <2>1. \A k \in 1 .. Len(t.queue) : k \in 1 .. Len(s.queue) \/ k \in Len(s.queue) + 1 .. Len(t.queue)
    BY <1>0
  <2>2. Rejected(0).kind = "rejected"
    BY DEF Rejected
  <2>3. QED
    BY <1>0, <2>1, <2>2
<1>4. ASSUME NEW k \in 1 .. Len(t.queue), t.queue[k].kind = "attached"
      PROVE  /\ IsJoining(r)
             /\ \A j \in 1 .. Len(t.queue) : t.queue[j].kind = "attached" => j = k
             /\ t.queue[k].epoch = 0 => r.mode = "view" /\ \A j \in 1 .. k - 1 : t.queue[j].kind # "driver"
  <2>1. k \in 1 .. Len(s.queue) /\ t.queue[k] = s.queue[k] /\ s.queue[k].kind = "attached"
    BY <1>3, <1>4
  <2>2. \A j \in 1 .. k - 1 : t.queue[j] = s.queue[j]
    BY <1>0, <2>1
  <2>3. \A j \in 1 .. Len(t.queue) : t.queue[j].kind = "attached" => j \in 1 .. Len(s.queue) /\ s.queue[j].kind = "attached"
    BY <1>3
  <2>4. QED
    BY <2>1, <2>2, <2>3 DEF Answered
<1>5. ASSUME NEW k \in 1 .. Len(t.queue), t.queue[k] = Rejected(0)
      PROVE  IsJoining(r) /\ Len(t.queue) = 1 /\ ~t.subscribed /\ r.mode = "drive"
  <2>1. k \in 1 .. Len(s.queue) /\ s.queue[k] = Rejected(0)
    BY <1>3, <1>5
  <2>2. IsJoining(r) /\ Len(s.queue) = 1 /\ ~s.subscribed /\ r.mode = "drive"
    BY <2>1 DEF Answered
  <2>3. QED
    BY <2>2 DEF Steps
<1>6. QED
  BY <1>1, <1>2, <1>4, <1>5 DEF Answered

LEMMA FreedSays == \A i \in Clients : Says(Freed, i) = 0
BY MessageTypes, LeaseTypes, Constants DEF Says

LEMMA ReadsQuiet ==
  ASSUME NEW i \in Pumps, NEW s, NEW t, NEW d, NEW box, NEW r, Reads(s, d, box, r, i),
         Steps(s, t, {Freed}), Lessens(s.driver, t.driver, t.subscribed, i)
  PROVE  Reads(t, d, box, r, i)
<1>0. /\ s.queue \in Seq(Messages) /\ t.queue \in Seq(Messages) /\ Extends(s.queue, t.queue, {Freed})
      /\ t.log = s.log /\ t.sequence = s.sequence
  BY DEF Reads, Steps
<1>1. \A m \in {Freed} : m.kind = "driver"
  BY MessageTypes
<1>2. Boxed(t, box, r) /\ Attended(t, r) /\ Answered(t, r)
  BY <1>1, StepsKeep DEF Reads
<1>3. Follows(t, d, r)
  <2>1. PICK e \in 0 .. Len(s.log) :
          /\ Carries(s.queue, s.log, s.sequence, UpTo(s.log, r.cursor), e)
          /\ s.subscribed => e = d
    BY DEF Reads, Follows
  <2>2. Carries(t.queue, s.log, s.sequence, UpTo(s.log, r.cursor), e)
    BY <1>0, <1>1, <2>1, CarriesQuiet
  <2>3. QED
    BY <1>0, <2>1, <2>2 DEF Follows, Steps
<1>4. ASSUME t.subscribed PROVE Tells(t.queue, r.lease, i, t.driver)
  <2>1. Tells(s.queue, r.lease, i, s.driver)
    BY <1>4 DEF Reads, Told, Steps
  <2>2. \A v : Holds(s.driver, i, v) => Holds(t.driver, i, v)
    BY <1>4, LessensHolds
  <2>3. \A m \in {Freed} : m.kind \in Marks => Holds(t.driver, i, Says(m, i))
    BY FreedSays, Constants DEF Holds
  <2>4. QED
    BY <1>0, <2>1, <2>2, <2>3, TellsMore
<1>5. QED
  BY <1>0, <1>2, <1>3, <1>4 DEF Reads, Told

\* Connections are told of lease l.
LEMMA ReadsDriver ==
  ASSUME NEW i \in Pumps, NEW s, NEW t, NEW d, NEW box, NEW r, Reads(s, d, box, r, i),
         NEW l \in Leases, Steps(s, t, {DriverChanged(l), Freed}), Lessens(l, t.driver, t.subscribed, i),
         t.subscribed => Once(s.queue, t.queue, DriverChanged(l))
  PROVE  Reads(t, d, box, r, i)
<1> DEFINE m == DriverChanged(l)
<1>0. /\ s.queue \in Seq(Messages) /\ t.queue \in Seq(Messages) /\ Extends(s.queue, t.queue, {m, Freed})
      /\ t.log = s.log /\ t.sequence = s.sequence
  BY DEF Reads, Steps
<1>1. /\ \A n \in {m, Freed} : n.kind = "driver"
      /\ m \in Messages /\ m.kind = "driver" /\ m.lease = l /\ Freed.kind = "driver"
  BY MessageTypes
<1>2. Steps(s, t, {m, Freed}) /\ (t.subscribed => Once(s.queue, t.queue, m))
  OBVIOUS
<1> HIDE DEF m
<1>3. Boxed(t, box, r) /\ Attended(t, r) /\ Answered(t, r)
  BY <1>1, <1>2, StepsKeep DEF Reads
<1>4. Follows(t, d, r)
  <2>1. PICK e \in 0 .. Len(s.log) :
          /\ Carries(s.queue, s.log, s.sequence, UpTo(s.log, r.cursor), e)
          /\ s.subscribed => e = d
    BY DEF Reads, Follows
  <2>2. Carries(t.queue, s.log, s.sequence, UpTo(s.log, r.cursor), e)
    BY <1>0, <1>1, <2>1, CarriesQuiet
  <2>3. QED
    BY <1>0, <1>2, <2>1, <2>2 DEF Follows, Steps
<1>5. ASSUME t.subscribed PROVE Tells(t.queue, r.lease, i, t.driver)
  <2>1. PICK x \in Len(s.queue) + 1 .. Len(t.queue) : t.queue[x] = m
    BY <1>2, <1>5 DEF Once
  <2>2. Holds(t.driver, i, Says(m, i))
    <3>1. CASE l.owner = i
      <4>1. t.driver = l /\ Says(m, i) = l.epoch
        BY <1>1, <1>5, <3>1 DEF Lessens, Says
      <4>2. QED
        BY <3>1, <4>1, LeaseFields DEF Holds
    <3>2. CASE l.owner # i
      BY <1>1, <3>2 DEF Says, Holds
    <3>3. QED
      BY <3>1, <3>2
  <2>3. Holds(t.driver, i, Says(Freed, i))
    BY FreedSays, Constants DEF Holds
  <2>4. \A n \in {m, Freed} : n.kind \in Marks => Holds(t.driver, i, Says(n, i))
    BY <2>2, <2>3
  <2>5. \E j \in Len(s.queue) + 1 .. Len(t.queue) : t.queue[j].kind \in {"driver", "attached"}
    BY <1>1, <2>1
  <2>6. QED
    BY <1>0, <2>4, <2>5, TellsAnew
<1>6. QED
  BY <1>0, <1>3, <1>4, <1>5 DEF Reads, Told

\* Connections are told of the next event.
LEMMA ReadsEvent ==
  ASSUME NEW i \in Pumps, NEW s, NEW t, NEW d \in Nat, NEW box, NEW r, Reads(s, d, box, r, i),
         d < Len(s.log), NEW m, m = Event(s.log[d + 1]),
         Steps(s, t, {m, Freed}), Lessens(s.driver, t.driver, t.subscribed, i),
         s.subscribed => \/ Once(s.queue, t.queue, m)
                         \/ ~t.subscribed /\ Extends(s.queue, t.queue, {Freed})
  PROVE  Reads(t, d + 1, box, r, i)
<1>0. /\ s.queue \in Seq(Messages) /\ t.queue \in Seq(Messages) /\ Extends(s.queue, t.queue, {m, Freed})
      /\ t.log = s.log /\ t.sequence = s.sequence
  BY DEF Reads, Steps
<1>1. /\ \A n \in {m, Freed} : n.kind \in {"driver", "event"}
      /\ m \in Messages /\ m.kind = "event" /\ m.at = s.log[d + 1] /\ Freed.kind = "driver"
      /\ Len(s.log) \in Nat
  <2>1. Len(s.log) \in Nat /\ s.log[d + 1] \in Nat
    <3>1. Len(s.log) \in Nat /\ s.log \in Seq(Nat)
      BY DEF Reads, Dated
    <3>2. d + 1 \in 1 .. Len(s.log)
      BY <3>1
    <3>3. QED
      BY <3>1, <3>2, ElementOfSeq
  <2>2. QED
    BY <2>1, MessageTypes
<1>3. Boxed(t, box, r) /\ Attended(t, r) /\ Answered(t, r)
  BY <1>1, StepsKeep DEF Reads
<1>4. Follows(t, d + 1, r)
  <2>1. PICK e \in 0 .. Len(s.log) :
          /\ Carries(s.queue, s.log, s.sequence, UpTo(s.log, r.cursor), e)
          /\ s.subscribed => e = d
    BY DEF Reads, Follows
  <2>2. CASE ~s.subscribed
    <3>1. t.queue = s.queue /\ ~t.subscribed
      BY <2>2 DEF Steps
    <3>2. QED
      BY <1>0, <2>1, <3>1 DEF Follows
  <2>3. CASE s.subscribed /\ Once(s.queue, t.queue, m)
    <3>1. Carries(t.queue, s.log, s.sequence, UpTo(s.log, r.cursor), e + 1)
      BY <1>0, <1>1, <2>1, <2>3, CarriesEvent
    <3>2. e + 1 \in 0 .. Len(s.log) /\ e + 1 = d + 1
      BY <1>1, <2>1, <2>3
    <3>3. QED
      BY <1>0, <3>1, <3>2 DEF Follows
  <2>4. CASE ~t.subscribed /\ Extends(s.queue, t.queue, {Freed})
    <3>1. \A n \in {Freed} : n.kind \notin {"event", "snapshot", "attached"}
      BY <1>1
    <3>2. Carries(t.queue, s.log, s.sequence, UpTo(s.log, r.cursor), e)
      BY <1>0, <2>1, <2>4, <3>1, CarriesQuiet
    <3>3. QED
      BY <1>0, <2>1, <2>4, <3>2 DEF Follows
  <2>5. QED
    BY <2>2, <2>3, <2>4
<1>5. ASSUME t.subscribed PROVE Tells(t.queue, r.lease, i, t.driver)
  <2>1. Tells(s.queue, r.lease, i, s.driver)
    BY <1>5 DEF Reads, Told, Steps
  <2>2. \A v : Holds(s.driver, i, v) => Holds(t.driver, i, v)
    BY <1>5, LessensHolds
  <2>3. \A n \in {m, Freed} : n.kind \in Marks => Holds(t.driver, i, Says(n, i))
    BY <1>1, FreedSays, Constants DEF Holds, Marks
  <2>4. QED
    BY <1>0, <2>1, <2>2, <2>3, TellsMore
<1>6. QED
  BY <1>0, <1>3, <1>4, <1>5 DEF Reads, Told

\* The log grows before anything of it is told.
LEMMA ReadsGrown ==
  ASSUME NEW i \in Pumps, NEW s, NEW t, NEW d, NEW box, NEW r, Reads(s, d, box, r, i),
         Grows(s.log, s.sequence, t.log, t.sequence), r.cursor \in Int, r.cursor <= s.sequence,
         t.queue = s.queue, t.open <=> s.open, t.subscribed <=> s.subscribed, t.driver = s.driver
  PROVE  Reads(t, d, box, r, i)
<1>1. UpTo(t.log, r.cursor) = UpTo(s.log, r.cursor)
  BY UpToLater DEF Grows
<1>2. Follows(t, d, r)
  <2>1. PICK e \in 0 .. Len(s.log) :
          /\ Carries(s.queue, s.log, s.sequence, UpTo(s.log, r.cursor), e)
          /\ s.subscribed => e = d
    BY DEF Reads, Follows
  <2>2. Carries(t.queue, t.log, t.sequence, UpTo(s.log, r.cursor), e)
    BY <2>1, CarriesLater DEF Reads
  <2>3. e \in 0 .. Len(t.log)
    <3>1. Len(s.log) \in Nat /\ Len(t.log) \in Nat /\ Len(s.log) <= Len(t.log)
      BY DEF Grows, Dated
    <3>2. QED
      BY <3>1
  <2>4. QED
    BY <1>1, <2>1, <2>2, <2>3 DEF Follows
<1>3. Boxed(t, box, r) /\ Attended(t, r) /\ Answered(t, r)
  BY DEF Reads, Boxed, Attended, Answered, IsFirst
<1>4. QED
  BY <1>2, <1>3 DEF Reads, Told, Grows

\* An operation of the pump is answered.
LEMMA ReadsAnswer ==
  ASSUME NEW i \in Pumps, NEW s, NEW t, NEW d, NEW box, NEW r, Reads(s, d, box, r, i),
         t.log = s.log, t.sequence = s.sequence, t.open <=> s.open, t.subscribed <=> s.subscribed, t.driver = s.driver,
         NEW m \in Messages, t.queue \in Seq(Messages), Extends(s.queue, t.queue, {m}),
         m.kind \in {"accepted", "rejected", "driven"}, m # Rejected(0),
         \A k \in 1 .. Len(s.queue) : s.queue[k] # Rejected(0),
         \A k \in 1 .. Len(box) : box[k].kind # "attach",
         m.kind = "driven" => s.subscribed /\ Holds(s.driver, i, Says(m, i))
  PROVE  Reads(t, d, box, r, i)
<1>0. /\ s.queue \in Seq(Messages) /\ Len(s.queue) \in Nat /\ Len(t.queue) \in Nat
      /\ \A k \in 1 .. Len(s.queue) : t.queue[k] = s.queue[k]
      /\ \A k \in Len(s.queue) + 1 .. Len(t.queue) : t.queue[k] = m
  BY DEF Reads, Extends
<1>1. \A k \in 1 .. Len(t.queue) : k \in 1 .. Len(s.queue) \/ t.queue[k] = m
  <2>1. \A k \in 1 .. Len(t.queue) : k \in 1 .. Len(s.queue) \/ k \in Len(s.queue) + 1 .. Len(t.queue)
    BY <1>0
  <2>2. QED
    BY <1>0, <2>1
<1>2. Boxed(t, box, r)
  BY DEF Reads, Boxed, IsFirst
<1>3. Attended(t, r)
  BY <1>0, <1>1 DEF Reads, Attended, Marks
<1>4. Answered(t, r)
  <2>1. ASSUME NEW k \in 1 .. Len(t.queue), t.queue[k].kind = "attached"
        PROVE  /\ IsJoining(r)
               /\ \A j \in 1 .. Len(t.queue) : t.queue[j].kind = "attached" => j = k
               /\ t.queue[k].epoch = 0 => r.mode = "view" /\ \A j \in 1 .. k - 1 : t.queue[j].kind # "driver"
    <3>1. k \in 1 .. Len(s.queue) /\ t.queue[k] = s.queue[k] /\ s.queue[k].kind = "attached"
      BY <1>0, <1>1, <2>1
    <3>2. \A j \in 1 .. k - 1 : t.queue[j] = s.queue[j]
      BY <1>0, <3>1
    <3>3. \A j \in 1 .. Len(t.queue) : t.queue[j].kind = "attached" => j \in 1 .. Len(s.queue) /\ s.queue[j].kind = "attached"
      BY <1>0, <1>1
    <3>4. QED
      BY <3>1, <3>2, <3>3 DEF Reads, Answered
  <2>2. \A k \in 1 .. Len(t.queue) : t.queue[k] # Rejected(0)
    BY <1>0, <1>1
  <2>3. QED
    BY <2>1, <2>2 DEF Answered
<1>5. Follows(t, d, r)
  <2>1. PICK e \in 0 .. Len(s.log) :
          /\ Carries(s.queue, s.log, s.sequence, UpTo(s.log, r.cursor), e)
          /\ s.subscribed => e = d
    BY DEF Reads, Follows
  <2>2. \A n \in {m} : n.kind \notin {"event", "snapshot", "attached"}
    OBVIOUS
  <2>3. Carries(t.queue, s.log, s.sequence, UpTo(s.log, r.cursor), e)
    BY <1>0, <2>1, <2>2, CarriesQuiet
  <2>4. QED
    BY <2>1, <2>3 DEF Follows
<1>6. ASSUME t.subscribed PROVE Tells(t.queue, r.lease, i, t.driver)
  <2>1. Tells(s.queue, r.lease, i, s.driver)
    BY <1>6 DEF Reads, Told
  <2>2. \A n \in {m} : n.kind \in Marks => Holds(t.driver, i, Says(n, i))
    BY DEF Marks
  <2>3. QED
    BY <1>0, <2>1, <2>2, TellsMore
<1>7. QED
  BY <1>0, <1>2, <1>3, <1>4, <1>5, <1>6 DEF Reads, Told

-----------------------------------------------------------------------------
(* What messages of the leader mean to a pump on connection k *)

\* Connection k is of pump i.
IsOf(h, k, i) == k \in Connections /\ h.owner[k] \in {i, NoClient}

LEMMA SeatFields ==
  ASSUME NEW h, NEW k
  PROVE  /\ Seat(h, k).log = h.log /\ Seat(h, k).sequence = h.sequence /\ Seat(h, k).driver = h.driver
         /\ Seat(h, k).queue = h.outbound[k] /\ (Seat(h, k).open <=> IsOpen(h, k))
         /\ (Seat(h, k).subscribed <=> k \in h.subscribers)
BY DEF Seat

LEMMA FrameIsOf ==
  ASSUME NEW h, NEW g, Frame(h, g), NEW k, NEW i, IsOf(h, k, i)
  PROVE  IsOf(g, k, i)
BY DEF Frame, IsOf

LEMMA SeatSteps ==
  ASSUME NEW h, NEW g, Sound(h), Frame(h, g), NEW k, NEW i \in Clients, IsOf(h, k, i), NEW M,
         Extends(h.outbound[k], g.outbound[k], M), k \notin h.subscribers => g.outbound[k] = h.outbound[k]
  PROVE  /\ Steps(Seat(h, k), Seat(g, k), M)
         /\ Lessens(h.driver, g.driver, k \in g.subscribers, i)
<1>1. /\ g \in Hosts /\ k \in Connections /\ g.outbound[k] \in Seq(Messages)
      /\ g.log = h.log /\ g.sequence = h.sequence
      /\ g.owner[k] \in {h.owner[k], NoClient}
      /\ k \in g.subscribers <=> k \in h.subscribers /\ IsOpen(g, k)
  BY HostFields DEF Frame, IsOf
<1>2. IsOpen(g, k) => IsOpen(h, k) /\ h.owner[k] = i
  BY <1>1, Constants DEF IsOpen, IsOf
<1>3. Steps(Seat(h, k), Seat(g, k), M)
  BY <1>1, <1>2, SeatFields DEF Steps
<1>4. Lessens(h.driver, g.driver, k \in g.subscribers, i)
  <2>1. CASE g.driver = h.driver
    BY <2>1 DEF Lessens
  <2>2. CASE g.driver = NoLease /\ \A c \in g.subscribers : h.owner[c] # h.driver.owner
    BY <1>1, <1>2, <2>2 DEF Lessens
  <2>3. QED
    BY <2>1, <2>2 DEF Frame
<1>5. QED
  BY <1>3, <1>4

LEMMA FrameReads ==
  ASSUME NEW h, NEW g, Sound(h), Frame(h, g), NEW k, NEW i \in Pumps, IsOf(h, k, i),
         Extends(h.outbound[k], g.outbound[k], {Freed}), k \notin h.subscribers => g.outbound[k] = h.outbound[k],
         NEW d, NEW box, NEW r, Reads(Seat(h, k), d, box, r, i)
  PROVE  Reads(Seat(g, k), d, box, r, i)
<1> DEFINE s == Seat(h, k)
           t == Seat(g, k)
<1>1. i \in Clients
  BY Constants
<1>2. Steps(s, t, {Freed}) /\ Lessens(h.driver, g.driver, k \in g.subscribers, i)
  BY <1>1, SeatSteps
<1>3. Lessens(s.driver, t.driver, t.subscribed, i)
  BY <1>2, SeatFields DEF Lessens
<1>4. Reads(s, d, box, r, i)
  OBVIOUS
<1> HIDE DEF s, t
<1>5. Reads(t, d, box, r, i)
  BY <1>2, <1>3, <1>4, ReadsQuiet
<1>6. QED
  BY <1>5 DEF t

\* A message to another connection.
LEMMA SendOther ==
  ASSUME NEW h, Sound(h), NEW c \in Connections, NEW m \in Messages, NEW k, k # c, NEW i \in Pumps, IsOf(h, k, i),
         NEW d, NEW box, NEW r, Reads(Seat(h, k), d, box, r, i)
  PROVE  Reads(Seat(Send(h, c, m), k), d, box, r, i)
<1> DEFINE g == Send(h, c, m)
<1>0. k \in Connections \ {c}
  BY DEF IsOf
<1>1. /\ Frame(h, g)
      /\ Extends(h.outbound[k], g.outbound[k], {Freed})
      /\ k \notin g.subscribers => g.outbound[k] = h.outbound[k]
  BY <1>0, SendIs
<1>2. k \notin h.subscribers => g.outbound[k] = h.outbound[k]
  <2> HIDE DEF g
  <2>1. QED
    BY <1>1 DEF Frame
<1> HIDE DEF g
<1>3. Reads(Seat(g, k), d, box, r, i)
  BY <1>1, <1>2, FrameReads
<1>4. QED
  BY <1>3 DEF g

\* An answer to an operation.
LEMMA SendOwn ==
  ASSUME NEW h, Sound(h), NEW k, NEW i \in Pumps, IsOf(h, k, i),
         NEW d, NEW box, NEW r, Reads(Seat(h, k), d, box, r, i),
         NEW m \in Messages, m.kind \in {"accepted", "rejected", "driven"}, m # Rejected(0),
         \A x \in 1 .. Len(h.outbound[k]) : h.outbound[k][x] # Rejected(0),
         \A x \in 1 .. Len(box) : box[x].kind # "attach",
         m.kind = "driven" /\ IsOpen(h, k) => k \in h.subscribers /\ Holds(h.driver, i, Says(m, i))
  PROVE  Reads(Seat(Send(h, k, m), k), d, box, r, i)
<1> DEFINE g == Send(h, k, m)
           s == Seat(h, k)
           t == Seat(g, k)
<1>1. /\ Frame(h, g) /\ k \in Connections
      /\ IsOpen(g, k) => g.outbound[k] = Append(h.outbound[k], m) /\ g.owner = h.owner /\ g.driver = h.driver
      /\ ~IsOpen(g, k) => g.outbound[k] = h.outbound[k]
      /\ h.outbound[k] \in Seq(Messages) /\ \A c \in h.subscribers : IsOpen(h, c)
  BY SendIs, HostFields DEF IsOf, Sound
<1> HIDE DEF g
<1>2. CASE ~IsOpen(g, k)
  <2>1. Extends(h.outbound[k], g.outbound[k], {Freed})
    BY <1>1, <1>2, ExtendsSame
  <2>2. Reads(Seat(g, k), d, box, r, i)
    BY <1>1, <1>2, <2>1, FrameReads
  <2>3. QED
    BY <2>2 DEF g
<1>3. CASE IsOpen(g, k)
  <2>1. /\ g.log = h.log /\ g.sequence = h.sequence /\ g.driver = h.driver
        /\ k \in g.subscribers <=> k \in h.subscribers
        /\ IsOpen(h, k)
    BY <1>1, <1>3 DEF Frame, IsOpen
  <2>2. /\ t.log = s.log /\ t.sequence = s.sequence /\ (t.open <=> s.open) /\ (t.subscribed <=> s.subscribed)
        /\ t.driver = s.driver /\ s.queue = h.outbound[k]
        /\ (s.subscribed <=> k \in h.subscribers) /\ s.driver = h.driver /\ t.queue = Append(h.outbound[k], m)
    BY <1>1, <1>3, <2>1, SeatFields
  <2>3. t.queue \in Seq(Messages) /\ Extends(s.queue, t.queue, {m})
    <3>1. m \in {m} /\ h.outbound[k] \in Seq(Messages)
      BY <1>1
    <3>2. Append(h.outbound[k], m) \in Seq(Messages) /\ Extends(h.outbound[k], Append(h.outbound[k], m), {m})
      BY <3>1, ExtendsAppend
    <3>3. QED
      BY <2>2, <3>2
  <2>4. Reads(s, d, box, r, i)
    OBVIOUS
  <2>5. /\ \A x \in 1 .. Len(s.queue) : s.queue[x] # Rejected(0)
        /\ m.kind = "driven" => s.subscribed /\ Holds(s.driver, i, Says(m, i))
    BY <2>1, <2>2
  <2>6. /\ t.log = s.log /\ t.sequence = s.sequence /\ (t.open <=> s.open) /\ (t.subscribed <=> s.subscribed)
        /\ t.driver = s.driver
    BY <2>2
  <2> HIDE DEF s, t
  <2>7. Reads(t, d, box, r, i)
    BY <2>3, <2>4, <2>5, <2>6, ReadsAnswer
  <2>8. QED
    BY <2>7 DEF t, g
<1>4. QED
  BY <1>2, <1>3

\* The leader h has given or taken the lease, or attached a connection other
\* than k: f.
Changes(h, f, l, c) ==
  /\ f \in Hosts /\ f.driver = l
  /\ f.log = h.log /\ f.sequence = h.sequence /\ f.outbound = h.outbound /\ f.owner = h.owner
  /\ f.subscribers \in {h.subscribers, h.subscribers \cup {c}}

LEMMA BroadcastReads ==
  ASSUME NEW h, Sound(h), NEW f, Sound(f), NEW l, NEW c, Changes(h, f, l, c), NEW order, Visits(order, f),
         NEW k, k # c \/ c \in h.subscribers, NEW i \in Pumps, IsOf(h, k, i),
         NEW d, NEW box, NEW r, Reads(Seat(h, k), d, box, r, i)
  PROVE  Reads(Seat(Broadcast(f, DriverChanged(l), order), k), d, box, r, i)
<1> DEFINE m == DriverChanged(l)
           g == Broadcast(f, m, order)
           s == Seat(h, k)
           t == Seat(g, k)
<1>0. l \in Leases /\ m \in Messages /\ i \in Clients /\ k \in Connections
  BY HostFields, MessageTypes, Constants DEF Changes, IsOf
<1>1. Frame(f, g) /\ Heard(f, g, k, m)
  BY <1>0, BroadcastIs
<1>2. /\ IsOf(f, k, i) /\ f.outbound = h.outbound /\ f.driver = l
      /\ k \in f.subscribers <=> k \in h.subscribers
      /\ f.log = h.log /\ f.sequence = h.sequence /\ (IsOpen(f, k) <=> IsOpen(h, k))
  BY DEF IsOf, Changes, IsOpen
<1>2a. f.outbound[k] \in Seq(Messages)
  BY <1>0, HostFields DEF Sound
<1> HIDE DEF g, m
<1>3. /\ Extends(f.outbound[k], g.outbound[k], {m, Freed})
      /\ k \notin f.subscribers => g.outbound[k] = f.outbound[k]
      /\ k \in g.subscribers => Once(f.outbound[k], g.outbound[k], m)
  <2>1. CASE k \in f.subscribers
    BY <1>1, <2>1 DEF Heard
  <2>2. CASE k \notin f.subscribers
    <3>1. g.outbound[k] = f.outbound[k] /\ k \notin g.subscribers
      BY <1>1, <2>2 DEF Heard, Frame
    <3>2. QED
      BY <1>2a, <2>2, <3>1, ExtendsSame
  <2>3. QED
    BY <2>1, <2>2
<1>4. Steps(Seat(f, k), t, {m, Freed}) /\ Lessens(l, g.driver, k \in g.subscribers, i)
  BY <1>0, <1>1, <1>2, <1>3, SeatSteps
<1>5. /\ s.log = h.log /\ s.sequence = h.sequence /\ s.queue = h.outbound[k] /\ (s.open <=> IsOpen(h, k))
      /\ (s.subscribed <=> k \in h.subscribers)
      /\ t.driver = g.driver /\ (t.subscribed <=> k \in g.subscribers) /\ t.queue = g.outbound[k]
  BY SeatFields
<1>6. /\ Seat(f, k).log = h.log /\ Seat(f, k).sequence = h.sequence /\ Seat(f, k).queue = h.outbound[k]
      /\ (Seat(f, k).open <=> IsOpen(h, k)) /\ (Seat(f, k).subscribed <=> k \in h.subscribers)
  BY <1>2, SeatFields
<1>7. Reads(s, d, box, r, i)
  OBVIOUS
<1> HIDE DEF s, t
<1>8. Steps(s, t, {m, Freed})
  BY <1>4, <1>5, <1>6 DEF Steps
<1>9. Lessens(l, t.driver, t.subscribed, i) /\ (t.subscribed => Once(s.queue, t.queue, m))
  BY <1>2, <1>3, <1>4, <1>5 DEF Lessens
<1>10. Reads(t, d, box, r, i)
  BY <1>0, <1>7, <1>8, <1>9, ReadsDriver DEF m
<1>11. QED
  BY <1>10 DEF t, g, m

\* The next event of the log is published.
LEMMA EventReads ==
  ASSUME NEW f, Sound(f), NEW d \in Nat, d < Len(f.log), Dated(f.log, f.sequence), NEW order, Visits(order, f),
         NEW k, NEW i \in Pumps, IsOf(f, k, i),
         NEW box, NEW r, Reads(Seat(f, k), d, box, r, i)
  PROVE  Reads(Seat(Broadcast(f, Event(f.log[d + 1]), order), k), d + 1, box, r, i)
<1> DEFINE m == Event(f.log[d + 1])
           g == Broadcast(f, m, order)
           s == Seat(f, k)
           t == Seat(g, k)
<1>0. m \in Messages /\ i \in Clients /\ k \in Connections
  <2>1. d + 1 \in 1 .. Len(f.log) /\ f.log \in Seq(Nat)
    BY DEF Dated
  <2>2. f.log[d + 1] \in Nat
    BY <2>1, ElementOfSeq
  <2>3. QED
    BY <2>2, MessageTypes, Constants DEF IsOf
<1>1. Frame(f, g) /\ Heard(f, g, k, m)
  BY <1>0, BroadcastIs
<1>2. f.outbound[k] \in Seq(Messages)
  BY <1>0, HostFields DEF Sound
<1>2a. s.log = f.log
  BY SeatFields
<1>2b. m = Event(s.log[d + 1]) /\ d < Len(s.log)
  BY <1>2a
<1> HIDE DEF g, m
<1>3. /\ Extends(f.outbound[k], g.outbound[k], {m, Freed})
      /\ k \notin f.subscribers => g.outbound[k] = f.outbound[k]
      /\ k \in f.subscribers => \/ Once(f.outbound[k], g.outbound[k], m)
                                \/ k \notin g.subscribers /\ Extends(f.outbound[k], g.outbound[k], {Freed})
  <2>1. CASE k \in f.subscribers
    BY <1>1, <2>1 DEF Heard
  <2>2. CASE k \notin f.subscribers
    <3>1. g.outbound[k] = f.outbound[k]
      BY <1>1, <2>2 DEF Heard
    <3>2. QED
      BY <1>2, <2>2, <3>1, ExtendsSame
  <2>3. QED
    BY <2>1, <2>2
<1>4. Steps(s, t, {m, Freed}) /\ Lessens(f.driver, g.driver, k \in g.subscribers, i)
  BY <1>0, <1>1, <1>3, SeatSteps
<1>5. /\ s.queue = f.outbound[k] /\ (s.subscribed <=> k \in f.subscribers) /\ s.driver = f.driver
      /\ t.driver = g.driver /\ (t.subscribed <=> k \in g.subscribers) /\ t.queue = g.outbound[k]
  BY SeatFields
<1>7. Reads(s, d, box, r, i)
  OBVIOUS
<1> HIDE DEF s, t
<1>9. /\ Lessens(s.driver, t.driver, t.subscribed, i)
      /\ s.subscribed => Once(s.queue, t.queue, m) \/ (~t.subscribed /\ Extends(s.queue, t.queue, {Freed}))
  BY <1>3, <1>4, <1>5 DEF Lessens
<1>10. Reads(t, d + 1, box, r, i)
  BY <1>2b, <1>4, <1>7, <1>9, ReadsEvent
<1>11. QED
  BY <1>10 DEF t, g, m

-----------------------------------------------------------------------------
(* Publishing the events of a transition *)

\* f is the run of Published over the first n events after number base, from a.
IsPublication(f, a, base, order, n) ==
  f = [k \in 0 .. n |-> IF k = 0 THEN a ELSE Broadcast(f[k - 1], Event(base + k), order)]

LEMMA PublicationExists ==
  ASSUME NEW a, NEW base, NEW order, NEW n \in Nat
  PROVE  \E f : IsPublication(f, a, base, order, n)
<1> DEFINE T == {k \in Nat : \E f : IsPublication(f, a, base, order, k)}
           next(g, k) == Broadcast(g, Event(base + k), order)
<1>1. 0 \in T
  <2>1. IsPublication([k \in 0 .. 0 |-> a], a, base, order, 0)
    BY DEF IsPublication
  <2>2. QED
    BY <2>1
<1>2. ASSUME NEW x \in 1 .. n, x - 1 \in T PROVE x \in T
  <2>1. PICK f : IsPublication(f, a, base, order, x - 1)
    BY <1>2
  <2>2. \A k \in 0 .. x - 1 : f[k] = IF k = 0 THEN a ELSE next(f[k - 1], k)
    BY <2>1 DEF IsPublication
  <2> HIDE DEF next
  <2> DEFINE g == [k \in 0 .. x |-> IF k = x THEN next(f[x - 1], x) ELSE f[k]]
  <2>3. /\ g = [k \in 0 .. x |-> g[k]]
        /\ g[x] = next(f[x - 1], x)
        /\ \A k \in 0 .. x - 1 : g[k] = f[k]
    OBVIOUS
  <2> HIDE DEF g
  <2>4. ASSUME NEW k \in 0 .. x
        PROVE  g[k] = IF k = 0 THEN a ELSE next(g[k - 1], k)
    <3>1. CASE k = x
      <4>1. x - 1 \in 0 .. x - 1 /\ x # 0
        OBVIOUS
      <4>2. QED
        BY <2>3, <3>1, <4>1
    <3>2. CASE k # x
      <4>1. k \in 0 .. x - 1 /\ (k # 0 => k - 1 \in 0 .. x - 1)
        BY <3>2
      <4>2. QED
        BY <2>2, <2>3, <4>1
    <3>3. QED
      BY <3>1, <3>2
  <2>5. g = [k \in 0 .. x |-> IF k = 0 THEN a ELSE next(g[k - 1], k)]
    BY <2>3, <2>4
  <2>6. IsPublication(g, a, base, order, x)
    BY <2>5 DEF IsPublication, next
  <2>7. QED
    BY <2>6
<1> HIDE DEF T
<1>3. \A k \in 0 .. n : k \in T
  BY <1>1, <1>2, CountUp
<1>4. n \in T
  BY <1>3
<1>5. QED
  BY <1>4 DEF T

LEMMA VisitsFewer ==
  ASSUME NEW a, NEW g, Frame(a, g), NEW order, Visits(order, a)
  PROVE  Visits(order, g)
BY DEF Visits, Frame

\* A transition of n events, before any of them is told.
LEMMA AdvancedIs ==
  ASSUME NEW h, Sound(h), Dated(h.log, h.sequence), NEW n \in Nat, NEW isRequest \in BOOLEAN
  PROVE  LET a == Advanced(h, n, isRequest) IN
         /\ Sound(a) /\ Grows(h.log, h.sequence, a.log, a.sequence)
         /\ a.owner = h.owner /\ a.subscribers = h.subscribers /\ a.driver = h.driver
         /\ a.outbound = h.outbound /\ a.committed = h.committed /\ a.epoch = h.epoch
         /\ a.forgot = h.forgot /\ a.saved = h.saved
         /\ Len(a.log) = Len(h.log) + n /\ \A k \in 1 .. n : a.log[Len(h.log) + k] = h.sequence + k
<1> DEFINE new == [k \in 1 .. n |-> h.sequence + k]
           log == h.log \o new
           last == h.sequence + (IF n = 0 /\ isRequest THEN 1 ELSE n)
           a == Advanced(h, n, isRequest)
<1>1. h.log \in Seq(Nat) /\ h.sequence \in Nat /\ Len(h.log) \in Nat /\ h \in Hosts
  BY HostFields DEF Sound
<1>2. new \in Seq(Nat) /\ Len(new) = n /\ \A k \in 1 .. n : new[k] = h.sequence + k
  BY <1>1
<1> HIDE DEF new
<1>3. /\ log \in Seq(Nat) /\ Len(log) = Len(h.log) + n
      /\ \A k \in 1 .. Len(h.log) : log[k] = h.log[k]
      /\ \A k \in 1 .. n : log[Len(h.log) + k] = h.sequence + k
  <2>1. /\ log \in Seq(Nat) /\ Len(log) = Len(h.log) + Len(new)
        /\ \A k \in 1 .. Len(h.log) + Len(new) : log[k] = IF k <= Len(h.log) THEN h.log[k] ELSE new[k - Len(h.log)]
    BY <1>1, <1>2, ConcatProperties
  <2> HIDE DEF log
  <2>2. ASSUME NEW k \in 1 .. n PROVE log[Len(h.log) + k] = h.sequence + k
    <3>1. Len(h.log) + k \in 1 .. Len(h.log) + Len(new) /\ ~(Len(h.log) + k <= Len(h.log)) /\ (Len(h.log) + k) - Len(h.log) = k
      BY <1>1, <1>2
    <3>2. QED
      BY <1>2, <2>1, <3>1
  <2>3. \A k \in 1 .. Len(h.log) : k \in 1 .. Len(h.log) + Len(new) /\ k <= Len(h.log)
    BY <1>1, <1>2
  <2>4. QED
    BY <1>2, <2>1, <2>2, <2>3
<1>4. last \in Nat /\ h.sequence + n <= last
  BY <1>1
<1>5. a = [h EXCEPT !.sequence = last, !.log = log]
  BY DEF Advanced, new
<1> HIDE DEF log, last, a
<1>6. /\ a \in Hosts /\ a.sequence = last /\ a.log = log
      /\ a.owner = h.owner /\ a.subscribers = h.subscribers /\ a.driver = h.driver
      /\ a.outbound = h.outbound /\ a.committed = h.committed /\ a.epoch = h.epoch
      /\ a.forgot = h.forgot /\ a.saved = h.saved
  BY <1>1, <1>3, <1>4, <1>5 DEF Hosts
<1>7. Sound(a)
  BY <1>6 DEF Sound, IsOpen
<1>8. \A k \in 1 .. Len(log) :
        \/ k \in 1 .. Len(h.log) /\ log[k] = h.log[k] /\ log[k] > 0 /\ log[k] <= h.sequence
        \/ k \in Len(h.log) + 1 .. Len(log) /\ log[k] = h.sequence + (k - Len(h.log))
  <2>1. ASSUME NEW k \in 1 .. Len(log), k > Len(h.log) PROVE log[k] = h.sequence + (k - Len(h.log))
    <3>1. k - Len(h.log) \in 1 .. n /\ Len(h.log) + (k - Len(h.log)) = k
      BY <1>1, <1>3, <2>1
    <3>2. QED
      BY <1>3, <3>1
  <2>2. ASSUME NEW k \in 1 .. Len(log), k <= Len(h.log)
        PROVE  k \in 1 .. Len(h.log) /\ log[k] = h.log[k] /\ log[k] > 0 /\ log[k] <= h.sequence
    <3>1. k \in 1 .. Len(h.log)
      BY <1>1, <2>2
    <3>2. QED
      BY <1>3, <3>1 DEF Dated
  <2>3. QED
    BY <1>1, <1>3, <2>1, <2>2, SMTT(30)
<1>9. Dated(log, last)
  <2>1. \A j, k \in 1 .. Len(log) : j < k => log[j] < log[k]
    <3>1. ASSUME NEW j \in 1 .. Len(log), NEW k \in 1 .. Len(log), j < k PROVE log[j] < log[k]
      <4>1. CASE k \in 1 .. Len(h.log) /\ log[k] = h.log[k]
        <5>1. j \in 1 .. Len(h.log) /\ log[j] = h.log[j]
          BY <1>3, <3>1, <4>1, SMTT(30)
        <5>2. QED
          BY <3>1, <4>1, <5>1 DEF Dated
      <4>2. CASE k \in Len(h.log) + 1 .. Len(log) /\ log[k] = h.sequence + (k - Len(h.log))
        <5>1. CASE j \in 1 .. Len(h.log) /\ log[j] = h.log[j] /\ log[j] > 0 /\ log[j] <= h.sequence
          <6>1. log[j] \in Nat
            BY <1>3, ElementOfSeq
          <6>2. k - Len(h.log) > 0 /\ k \in Int /\ Len(log) \in Nat
            BY <1>1, <1>3, <4>2
          <6>3. QED
            BY <1>1, <4>2, <5>1, <6>1, <6>2, SMTT(30)
        <5>2. CASE j \in Len(h.log) + 1 .. Len(log) /\ log[j] = h.sequence + (j - Len(h.log))
          BY <1>1, <1>3, <3>1, <4>2, <5>2, SMTT(30)
        <5>3. QED
          BY <1>8, <5>1, <5>2
      <4>3. QED
        BY <1>8, <4>1, <4>2
    <3>2. QED
      BY <3>1
  <2>2. \A k \in 1 .. Len(log) : log[k] \in Nat
    BY <1>3, ElementOfSeq
  <2>3. ASSUME NEW k \in 1 .. Len(log) PROVE log[k] > 0 /\ log[k] <= last
    <3>1. CASE log[k] > 0 /\ log[k] <= h.sequence
      BY <1>1, <1>4, <2>2, <3>1, SMTT(30)
    <3>2. CASE k \in Len(h.log) + 1 .. Len(log) /\ log[k] = h.sequence + (k - Len(h.log))
      <4>1. k - Len(h.log) > 0 /\ k - Len(h.log) <= n /\ k \in Int
        BY <1>1, <1>3, <3>2
      <4>2. QED
        BY <1>1, <1>4, <3>2, <4>1, SMTT(30)
    <3>3. QED
      BY <1>8, <3>1, <3>2
  <2>4. QED
    BY <1>3, <1>4, <2>1, <2>3 DEF Dated
<1>10. \A k \in Len(h.log) + 1 .. Len(log) : log[k] > h.sequence
  <2>1. ASSUME NEW k \in Len(h.log) + 1 .. Len(log) PROVE log[k] > h.sequence
    <3>1. k - Len(h.log) \in 1 .. n /\ Len(h.log) + (k - Len(h.log)) = k
      BY <1>1, <1>3
    <3>2. log[k] = h.sequence + (k - Len(h.log))
      BY <1>3, <3>1
    <3>3. QED
      BY <1>1, <3>1, <3>2
  <2>2. QED
    BY <2>1
<1>11. Grows(h.log, h.sequence, a.log, a.sequence)
  <2>1. h.sequence <= last
    BY <1>1 DEF last
  <2>2. QED
    BY <1>1, <1>3, <1>6, <1>9, <1>10, <2>1 DEF Grows
<1>12. QED
  BY <1>3, <1>6, <1>7, <1>11 DEF a

\* Nothing comes to a connection that is closed.
Hushed(h, g) == \A k \in Connections : ~IsOpen(h, k) => g.outbound[k] = h.outbound[k]

LEMMA BroadcastHushed ==
  ASSUME NEW h, Sound(h), NEW m \in Messages, NEW order, Visits(order, h)
  PROVE  Hushed(h, Broadcast(h, m, order))
<1> DEFINE g == Broadcast(h, m, order)
<1>1. \A k \in Connections : Heard(h, g, k, m)
  BY BroadcastIs
<1> HIDE DEF g
<1>2. Hushed(h, g)
  BY <1>1 DEF Hushed, Heard, Sound
<1>3. QED
  BY <1>2 DEF g

LEMMA PublicationFrame ==
  ASSUME NEW a, Sound(a), NEW base \in Nat, NEW n \in Nat, NEW order, Visits(order, a),
         NEW f, IsPublication(f, a, base, order, n)
  PROVE  \A k \in 0 .. n : Frame(a, f[k]) /\ Sound(f[k]) /\ Visits(order, f[k]) /\ Hushed(a, f[k])
<1> DEFINE T == {k \in 0 .. n : Frame(a, f[k]) /\ Hushed(a, f[k])}
<1>1. \A k \in 0 .. n : f[k] = IF k = 0 THEN a ELSE Broadcast(f[k - 1], Event(base + k), order)
  BY DEF IsPublication
<1>2. 0 \in T
  BY <1>1, FrameSame DEF Hushed
<1>3. ASSUME NEW k \in 1 .. n, k - 1 \in T PROVE k \in T
  <2> DEFINE g == f[k - 1]
             m == Event(base + k)
             u == Broadcast(g, m, order)
  <2>1. Frame(a, g) /\ Hushed(a, g) /\ k \in 0 .. n /\ k # 0 /\ m \in Messages
    BY <1>3, MessageTypes
  <2>2. f[k] = u
    BY <1>1, <2>1
  <2> HIDE DEF g, m
  <2>2a. Sound(g) /\ Visits(order, g)
    BY <2>1, FrameSound, VisitsFewer
  <2>3. Frame(g, u) /\ Hushed(g, u)
    BY <2>1, <2>2a, BroadcastIs, BroadcastHushed
  <2> HIDE DEF u
  <2>3a. Hushed(a, u)
    <3>1. \A c \in Connections : ~IsOpen(a, c) => ~IsOpen(g, c)
      BY <2>1 DEF Frame, IsOpen
    <3>2. QED
      BY <2>1, <2>3, <3>1 DEF Hushed
  <2>4. Frame(a, u)
    BY <2>1, <2>3, FrameTrans
  <2>5. QED
    BY <2>1, <2>2, <2>3a, <2>4
<1> HIDE DEF T
<1>4. \A k \in 0 .. n : k \in T
  BY <1>2, <1>3, CountUp
<1>5. QED
  BY <1>4, FrameSound, VisitsFewer DEF T

LEMMA PublicationReads ==
  ASSUME NEW a, Sound(a), Dated(a.log, a.sequence), NEW base \in Nat, NEW n \in Nat, NEW order, Visits(order, a),
         NEW f, IsPublication(f, a, base, order, n),
         NEW d \in Nat, Len(a.log) = d + n, \A x \in 1 .. n : a.log[d + x] = base + x,
         NEW k, NEW i \in Pumps, IsOf(a, k, i), NEW box, NEW r, Reads(Seat(a, k), d, box, r, i)
  PROVE  Reads(Seat(f[n], k), d + n, box, r, i)
<1> DEFINE T == {x \in 0 .. n : Reads(Seat(f[x], k), d + x, box, r, i)}
<1>1. \A x \in 0 .. n : f[x] = IF x = 0 THEN a ELSE Broadcast(f[x - 1], Event(base + x), order)
  BY DEF IsPublication
<1>2. 0 \in T
  <2>1. f[0] = a /\ d + 0 = d
    BY <1>1
  <2>2. QED
    BY <2>1
<1>3. ASSUME NEW x \in 1 .. n, x - 1 \in T PROVE x \in T
  <2> DEFINE g == f[x - 1]
             e == d + (x - 1)
  <2>1. x - 1 \in 0 .. n /\ x \in 0 .. n /\ x # 0 /\ e \in Nat /\ e < d + n /\ e + 1 = d + x
    BY SMTT(30)
  <2>2. Frame(a, g) /\ Sound(g) /\ Visits(order, g) /\ Reads(Seat(g, k), e, box, r, i)
    BY <1>3, <2>1, PublicationFrame
  <2>3. f[x] = Broadcast(g, Event(base + x), order)
    BY <1>1, <2>1
  <2> HIDE DEF g, e
  <2>4. g.log = a.log /\ g.sequence = a.sequence
    BY <2>2 DEF Frame
  <2>5. IsOf(g, k, i)
    BY <2>2, FrameIsOf
  <2>6. Event(base + x) = Event(g.log[e + 1]) /\ e < Len(g.log)
    BY <2>1, <2>4
  <2>7. Dated(g.log, g.sequence)
    BY <2>4
  <2>8. Reads(Seat(Broadcast(g, Event(g.log[e + 1]), order), k), e + 1, box, r, i)
    BY <2>1, <2>2, <2>5, <2>6, <2>7, EventReads
  <2>9. QED
    BY <2>1, <2>3, <2>6, <2>8
<1> HIDE DEF T
<1>4. \A x \in 0 .. n : x \in T
  BY <1>2, <1>3, CountUp
<1>5. n \in T
  BY <1>4
<1>6. QED
  BY <1>5 DEF T

\* Connections are of the same clients after it, or closed, and nothing comes
\* to one that is closed.
Keeps(h, g) ==
  /\ Sound(g) /\ Grows(h.log, h.sequence, g.log, g.sequence)
  /\ \A k \in Connections : /\ g.owner[k] \in {h.owner[k], NoClient}
                            /\ ~IsOpen(h, k) => g.outbound[k] \in {h.outbound[k], <<>>}

LEMMA PublishedKeeps ==
  ASSUME NEW h, Sound(h), Dated(h.log, h.sequence), NEW n \in Nat, NEW isRequest \in BOOLEAN,
         NEW order, Visits(order, h)
  PROVE  LET g == Published(h, n, isRequest, order)
             a == Advanced(h, n, isRequest)
         IN
         /\ Frame(a, g) /\ Sound(g) /\ Keeps(h, g)
         /\ Grows(h.log, h.sequence, g.log, g.sequence)
         /\ \A k, i, box, r :
              i \in Pumps /\ IsOf(h, k, i) /\ r.cursor \in Int /\ r.cursor <= h.sequence
              /\ Reads(Seat(h, k), Len(h.log), box, r, i)
              => Reads(Seat(g, k), Len(g.log), box, r, i)
<1> DEFINE a == Advanced(h, n, isRequest)
           f == CHOOSE u : IsPublication(u, a, h.sequence, order, n)
           g == Published(h, n, isRequest, order)
<1>1. IsPublication(f, a, h.sequence, order, n)
  BY PublicationExists
<1>2. g = f[n]
  BY DEF Published, IsPublication
<1>3. /\ Sound(a) /\ Grows(h.log, h.sequence, a.log, a.sequence)
      /\ a.owner = h.owner /\ a.subscribers = h.subscribers /\ a.driver = h.driver
      /\ a.outbound = h.outbound
      /\ Len(a.log) = Len(h.log) + n /\ \A k \in 1 .. n : a.log[Len(h.log) + k] = h.sequence + k
  BY AdvancedIs
<1> HIDE DEF a, f, g
<1>4. /\ h.sequence \in Nat /\ Len(h.log) \in Nat
      /\ Dated(a.log, a.sequence) /\ Visits(order, a)
  BY <1>3, SMTT(30) DEF Dated, Grows, Visits
<1>5. n \in 0 .. n
  OBVIOUS
<1>6. Frame(a, g) /\ Sound(g) /\ Hushed(a, g)
  BY <1>1, <1>2, <1>3, <1>4, <1>5, PublicationFrame
<1>7. Grows(h.log, h.sequence, g.log, g.sequence) /\ g.log = a.log
  BY <1>3, <1>6 DEF Frame
<1>8. ASSUME NEW k, NEW i, NEW box, NEW r,
             i \in Pumps, IsOf(h, k, i), r.cursor \in Int, r.cursor <= h.sequence, Reads(Seat(h, k), Len(h.log), box, r, i)
      PROVE  Reads(Seat(g, k), Len(g.log), box, r, i)
  <2> DEFINE s == Seat(h, k)
             t == Seat(a, k)
  <2>1. /\ Grows(s.log, s.sequence, t.log, t.sequence) /\ r.cursor <= s.sequence
        /\ t.queue = s.queue /\ (t.open <=> s.open) /\ (t.subscribed <=> s.subscribed) /\ t.driver = s.driver
        /\ Reads(s, Len(h.log), box, r, i)
    BY <1>3, <1>8, SeatFields DEF IsOpen
  <2> HIDE DEF s, t
  <2>2. Reads(t, Len(h.log), box, r, i)
    BY <1>8, <2>1, ReadsGrown
  <2>3. IsOf(a, k, i)
    BY <1>3, <1>8 DEF IsOf
  <2>4. Reads(Seat(a, k), Len(h.log), box, r, i)
    BY <2>2 DEF t
  <2>5. Reads(Seat(f[n], k), Len(h.log) + n, box, r, i)
    BY <1>1, <1>3, <1>4, <1>8, <2>3, <2>4, PublicationReads
  <2>6. QED
    BY <1>2, <1>3, <1>7, <2>5
<1>9. Keeps(h, g)
  BY <1>3, <1>6, <1>7 DEF Keeps, Frame, Hushed, IsOpen
<1>10. QED
  BY <1>6, <1>7, <1>8, <1>9 DEF a, g

-----------------------------------------------------------------------------
(* Attaching a connection, and granting the lease *)

\* f is h with connection c attached, and with the lease if mode asks for it.
IsGranted(h, f, c, mode) ==
  /\ Sound(f) /\ c \in f.subscribers /\ f.subscribers = h.subscribers \cup {c}
  /\ f.log = h.log /\ f.sequence = h.sequence /\ f.outbound = h.outbound /\ f.owner = h.owner
  /\ f.committed = h.committed /\ f.forgot = h.forgot
  /\ h.epoch <= f.epoch /\ (f.driver = h.driver \/ f.driver.epoch > h.epoch)
  /\ mode = "view" => f.driver = h.driver
  /\ mode = "drive" => f.driver.owner = h.owner[c] /\ f.driver.epoch > 0

LEMMA GrantedIs ==
  ASSUME NEW h, Sound(h), NEW c \in Connections, IsOpen(h, c), NEW mode \in Modes
  PROVE  /\ IsGranted(h, Granted([h EXCEPT !.subscribers = @ \cup {c}], c, mode), c, mode)
         /\ Granted(h, c, mode).driver = Granted([h EXCEPT !.subscribers = @ \cup {c}], c, mode).driver
<1> DEFINE j == [h EXCEPT !.subscribers = @ \cup {c}]
           f == Granted(j, c, mode)
<1>1. /\ h \in Hosts /\ h.owner[c] \in Clients /\ h.owner[c] # NoClient /\ \A k \in h.subscribers : IsOpen(h, k)
      /\ h.epoch \in Nat /\ h.driver \in Leases /\ (h.driver # NoLease => h.driver.epoch = h.epoch)
  BY HostFields DEF Sound, IsOpen
<1>2. /\ j \in Hosts /\ j.subscribers = h.subscribers \cup {c} /\ j.owner = h.owner /\ j.driver = h.driver
      /\ j.log = h.log /\ j.sequence = h.sequence /\ j.outbound = h.outbound /\ j.epoch = h.epoch
      /\ j.committed = h.committed /\ j.forgot = h.forgot
  BY <1>1 DEF Hosts
<1> HIDE DEF j
<1>3. CASE mode = "view" \/ h.driver.owner = h.owner[c]
  <2>1. f = j /\ Granted(h, c, mode) = h
    BY <1>2, <1>3 DEF Granted
  <2>2. Sound(j)
    BY <1>1, <1>2 DEF Sound, IsOpen
  <2>3. mode = "drive" => h.driver.owner = h.owner[c] /\ h.driver.epoch > 0
    BY <1>1, <1>3, LeaseFields
  <2>4. h.epoch <= j.epoch
    BY <1>1, <1>2
  <2>5. QED
    BY <1>2, <2>1, <2>2, <2>3, <2>4 DEF IsGranted, j
<1>4. CASE ~(mode = "view" \/ h.driver.owner = h.owner[c])
  <2> DEFINE l == [owner |-> h.owner[c], epoch |-> h.epoch + 1]
  <2>1. /\ f = [j EXCEPT !.epoch = @ + 1, !.driver = [owner |-> j.owner[c], epoch |-> j.epoch + 1]]
        /\ Granted(h, c, mode) = [h EXCEPT !.epoch = @ + 1, !.driver = [owner |-> h.owner[c], epoch |-> h.epoch + 1]]
    BY <1>2, <1>4 DEF Granted
  <2>2. l \in Leases /\ l.owner = h.owner[c] /\ l.epoch = h.epoch + 1
    BY <1>1, LeaseTypes
  <2>3. f = [j EXCEPT !.epoch = h.epoch + 1, !.driver = l] /\ Granted(h, c, mode).driver = l
    BY <1>1, <1>2, <2>1 DEF Hosts
  <2>3a. h.epoch + 1 \in Nat
    BY <1>1
  <2> HIDE DEF l, f
  <2>4. /\ f \in Hosts /\ f.subscribers = j.subscribers /\ f.owner = j.owner /\ f.driver = l /\ f.epoch = h.epoch + 1
        /\ f.log = j.log /\ f.sequence = j.sequence /\ f.outbound = j.outbound
        /\ f.committed = j.committed /\ f.forgot = j.forgot
    BY <1>1, <1>2, <2>2, <2>3, <2>3a DEF Hosts
  <2>5. Sound(f)
    BY <1>1, <1>2, <2>2, <2>4 DEF Sound, IsOpen
  <2>6. IsGranted(h, f, c, mode)
    BY <1>1, <1>2, <1>4, <2>2, <2>4, <2>5 DEF IsGranted
  <2>7. QED
    BY <2>3, <2>4, <2>6 DEF f, j
<1>5. QED
  BY <1>3, <1>4

LEMMA JoinIs ==
  ASSUME NEW h, Sound(h), NEW c \in Connections, IsOpen(h, c), NEW mode \in Modes,
         NEW order, order \in SetToSeqs(h.subscribers \cup {c})
  PROVE  \E f : /\ IsGranted(h, f, c, mode) /\ Granted(h, c, mode).driver = f.driver /\ Visits(order, f)
                /\ Join(h, c, mode, order) = IF f.driver = h.driver THEN f
                                             ELSE Broadcast(f, DriverChanged(f.driver), order)
<1> DEFINE f == Granted([h EXCEPT !.subscribers = @ \cup {c}], c, mode)
<1>1. IsGranted(h, f, c, mode) /\ Granted(h, c, mode).driver = f.driver
  BY GrantedIs
<1>2. Visits(order, f)
  <2> HIDE DEF f
  <2>1. h.subscribers \cup {c} \in SUBSET Connections /\ f.subscribers \subseteq h.subscribers \cup {c}
    BY <1>1, HostFields DEF Sound, IsGranted
  <2>2. QED
    BY <2>1, OrderVisits
<1>3. Join(h, c, mode, order) = IF f.driver = h.driver THEN f ELSE Broadcast(f, DriverChanged(f.driver), order)
  BY DEF Join
<1> HIDE DEF f
<1>4. QED
  BY <1>1, <1>2, <1>3

\* What Join makes of h.
LEMMA JoinFrame ==
  ASSUME NEW h, Sound(h), NEW c \in Connections, NEW mode \in Modes, NEW f, IsGranted(h, f, c, mode),
         NEW order, Visits(order, f),
         NEW g, g = IF f.driver = h.driver THEN f ELSE Broadcast(f, DriverChanged(f.driver), order)
  PROVE  /\ Frame(f, g) /\ Sound(g)
         /\ \A k \in Connections : k \notin f.subscribers => g.outbound[k] = h.outbound[k]
<1>1. f \in Hosts /\ f.driver \in Leases
  BY HostFields DEF Sound, IsGranted
<1>2. CASE f.driver = h.driver
  BY <1>2, FrameSame DEF IsGranted
<1>3. CASE f.driver # h.driver
  <2> DEFINE m == DriverChanged(f.driver)
  <2>1. m \in Messages /\ g = Broadcast(f, m, order)
    BY <1>1, <1>3, MessageTypes
  <2> HIDE DEF m
  <2>2. Frame(f, g) /\ \A k \in Connections : Heard(f, g, k, m)
    BY <2>1, BroadcastIs DEF IsGranted
  <2>3. QED
    BY <2>2, FrameSound DEF Heard, IsGranted
<1>4. QED
  BY <1>2, <1>3

\* Every other connection, and one that was attached before.
LEMMA JoinReads ==
  ASSUME NEW h, Sound(h), NEW c \in Connections, NEW mode \in Modes, NEW f, IsGranted(h, f, c, mode),
         NEW order, Visits(order, f),
         NEW g, g = IF f.driver = h.driver THEN f ELSE Broadcast(f, DriverChanged(f.driver), order),
         NEW k, k # c \/ c \in h.subscribers, NEW i \in Pumps, IsOf(h, k, i),
         NEW d, NEW box, NEW r, Reads(Seat(h, k), d, box, r, i)
  PROVE  Reads(Seat(g, k), d, box, r, i)
<1>1. CASE f.driver = h.driver
  <2>1. Seat(g, k) = Seat(h, k)
    <3>1. k \in f.subscribers <=> k \in h.subscribers
      BY DEF IsGranted
    <3>2. (k \in f.subscribers) = (k \in h.subscribers) /\ IsOpen(f, k) = IsOpen(h, k)
      BY <3>1 DEF IsOpen, IsGranted
    <3>3. QED
      BY <1>1, <3>2 DEF Seat, IsGranted
  <2>2. QED
    BY <2>1
<1>2. CASE f.driver # h.driver
  <2> DEFINE l == f.driver
  <2>1. Changes(h, f, l, c)
    BY DEF Changes, IsGranted, Sound
  <2>2. g = Broadcast(f, DriverChanged(l), order) /\ Sound(f)
    BY <1>2 DEF IsGranted
  <2> HIDE DEF l
  <2>3. QED
    BY <2>1, <2>2, BroadcastReads
<1>3. QED
  BY <1>1, <1>2

\* Who has the lease keeps it while attached.
LEMMA JoinHolds ==
  ASSUME NEW f, NEW g, Frame(f, g), NEW c \in Connections, c \in f.subscribers, IsOpen(g, c),
         f.driver.owner = f.owner[c]
  PROVE  c \in g.subscribers /\ g.driver = f.driver
BY DEF Frame

\* Some messages of a sequence, one after the other, and all if c stays open.
\* No connection but c is told anything but a release.
Spares(h, g, c) ==
  /\ Frame(h, g)
  /\ \A k \in Connections \ {c} : /\ Extends(h.outbound[k], g.outbound[k], {Freed})
                                  /\ k \notin g.subscribers => g.outbound[k] = h.outbound[k]

\* c is told of the first of messages, and of all if it stays open.
SentAll(h, g, c, messages) ==
  IsOpen(h, c) => \E n \in 0 .. Len(messages) :
    /\ g.outbound[c] = h.outbound[c] \o SubSeq(messages, 1, n)
    /\ IsOpen(g, c) => n = Len(messages) /\ g.owner = h.owner /\ g.driver = h.driver

LEMMA SendAllSpares ==
  ASSUME NEW h, Sound(h), NEW c \in Connections, NEW messages \in Seq(Messages)
  PROVE  /\ Spares(h, SendAll(h, c, messages), c) /\ SentAll(h, SendAll(h, c, messages), c, messages)
         /\ ~IsOpen(h, c) => SendAll(h, c, messages) = h
<1> DEFINE room == Capacity - Len(h.outbound[c])
           sent(n) == [h EXCEPT !.outbound[c] = @ \o SubSeq(messages, 1, n)]
           g == SendAll(h, c, messages)
<1>0. /\ h \in Hosts /\ \A k \in Connections : h.outbound[k] \in Seq(Messages)
      /\ \A k \in h.subscribers : IsOpen(h, k)
      /\ h.driver # NoLease => h.driver.epoch = h.epoch
      /\ Len(messages) \in Nat /\ Capacity \in Nat /\ room \in Int
  BY HostFields, Constants DEF Sound
<1>1. ASSUME NEW n \in Int, n <= Len(messages)
      PROVE  /\ Frame(h, sent(n)) /\ Sound(sent(n)) /\ sent(n).owner = h.owner /\ sent(n).driver = h.driver
             /\ sent(n).outbound[c] = h.outbound[c] \o SubSeq(messages, 1, n)
             /\ \A k \in Connections \ {c} : sent(n).outbound[k] = h.outbound[k]
             /\ sent(n).subscribers = h.subscribers
  <2> DEFINE u == sent(n)
             p == SubSeq(messages, 1, n)
             q == [h.outbound EXCEPT ![c] = @ \o p]
  <2>1. p \in Seq(Messages)
    <3>1. \A k \in 1 .. n : messages[k] \in Messages
      BY <1>1, ElementOfSeq
    <3>2. QED
      BY <3>1, SubSeqProperties
  <2> HIDE DEF p
  <2>2. h.outbound[c] \o p \in Seq(Messages)
    BY <1>0, <2>1, ConcatProperties
  <2>3. /\ q \in [Connections -> Seq(Messages)] /\ q[c] = h.outbound[c] \o p
        /\ \A k \in Connections \ {c} : q[k] = h.outbound[k]
    BY <1>0, <2>2, HostFields
  <2>4. u = [h EXCEPT !.outbound = q]
    BY <1>0 DEF Hosts, p
  <2> HIDE DEF q, u
  <2>5. /\ u \in Hosts /\ u.outbound = q /\ u.log = h.log /\ u.sequence = h.sequence /\ u.committed = h.committed
        /\ u.epoch = h.epoch /\ u.saved = h.saved /\ u.forgot = h.forgot
        /\ u.owner = h.owner /\ u.driver = h.driver /\ u.subscribers = h.subscribers
    BY <1>0, <2>3, <2>4 DEF Hosts
  <2>6. Frame(h, u)
    BY <1>0, <2>5, HostFields DEF Frame, IsOpen
  <2>7. Sound(u)
    BY <2>6, FrameSound
  <2>8. QED
    BY <2>3, <2>5, <2>6, <2>7 DEF u, p
<1> HIDE DEF sent, room
<1>2. CASE ~IsOpen(h, c)
  <2>1. g = h
    BY <1>2 DEF SendAll
  <2> HIDE DEF g
  <2>2. Spares(h, g, c)
    BY <1>0, <2>1, FrameSame, ExtendsSame DEF Spares
  <2>3. SentAll(h, g, c, messages)
    BY <1>2 DEF SentAll
  <2>4. QED
    BY <2>1, <2>2, <2>3 DEF g
<1>3. CASE IsOpen(h, c) /\ Len(messages) <= room
  <2>1. g = sent(Len(messages))
    BY <1>3 DEF SendAll, sent, room
  <2> HIDE DEF g
  <2>1a. Len(messages) \in Int /\ Len(messages) <= Len(messages)
    BY <1>0
  <2>2. /\ Frame(h, g) /\ g.owner = h.owner /\ g.driver = h.driver
        /\ g.outbound[c] = h.outbound[c] \o SubSeq(messages, 1, Len(messages))
        /\ \A k \in Connections \ {c} : g.outbound[k] = h.outbound[k]
    BY <1>1, <2>1, <2>1a
  <2>3. Len(messages) \in 0 .. Len(messages)
    BY <1>0
  <2>4. Spares(h, g, c)
    BY <1>0, <2>2, ExtendsSame DEF Spares
  <2>5. SentAll(h, g, c, messages)
    BY <2>2, <2>3 DEF SentAll
  <2>6. QED
    BY <1>3, <2>4, <2>5 DEF g
<1>4. CASE IsOpen(h, c) /\ ~(Len(messages) <= room)
  <2> DEFINE u == sent(room)
             v == Disconnect(u, c)
  <2>1. g = v
    BY <1>4 DEF SendAll, sent, room
  <2>1a. room \in Int /\ room <= Len(messages)
    BY <1>0, <1>4
  <2>2. /\ Frame(h, u) /\ Sound(u) /\ u.owner = h.owner
        /\ u.outbound[c] = h.outbound[c] \o SubSeq(messages, 1, room)
        /\ \A k \in Connections \ {c} : u.outbound[k] = h.outbound[k]
    BY <1>1, <2>1a
  <2> HIDE DEF u, g
  <2>3. /\ Frame(u, v) /\ ~IsOpen(v, c) /\ v.outbound[c] = u.outbound[c]
        /\ \A k \in Connections : Extends(u.outbound[k], v.outbound[k], {Freed})
        /\ \A k \in Connections : k \notin v.subscribers => v.outbound[k] = u.outbound[k]
    BY <2>2, DisconnectIs
  <2> HIDE DEF v
  <2>4. Frame(h, v)
    BY <2>2, <2>3, FrameTrans
  <2>5. \E n \in 0 .. Len(messages) : v.outbound[c] = h.outbound[c] \o SubSeq(messages, 1, n)
    <3>1. CASE room >= 0
      <4>1. room \in 0 .. Len(messages)
        BY <1>0, <1>4, <3>1
      <4>2. v.outbound[c] = h.outbound[c] \o SubSeq(messages, 1, room)
        BY <2>2, <2>3
      <4>3. QED
        BY <4>1, <4>2
    <3>2. CASE ~(room >= 0)
      <4>1. SubSeq(messages, 1, room) = <<>> /\ SubSeq(messages, 1, 0) = <<>> /\ 0 \in 0 .. Len(messages)
        BY <1>0, <3>2
      <4>2. QED
        BY <2>2, <2>3, <4>1
    <3>3. QED
      BY <3>1, <3>2
  <2>6. Spares(h, v, c)
    BY <2>2, <2>3, <2>4 DEF Spares
  <2>7. SentAll(h, v, c, messages)
    BY <2>3, <2>5 DEF SentAll
  <2>8. QED
    BY <1>4, <2>1, <2>6, <2>7 DEF g
<1>5. QED
  BY <1>2, <1>3, <1>4

-----------------------------------------------------------------------------
(* What a connection is told when it is attached *)

LEMMA RetainedIs ==
  ASSUME NEW h, Sound(h), Dated(h.log, h.sequence)
  PROVE  \E o \in 0 .. Len(h.log) :
           /\ Len(Retained(h)) = Len(h.log) - o
           /\ \A k \in 1 .. Len(Retained(h)) : Retained(h)[k] = h.log[o + k]
           /\ Dated(Retained(h), h.sequence)
<1> DEFINE R == Retained(h)
<1>1. h.log \in Seq(Nat) /\ Len(h.log) \in Nat /\ History \in Nat /\ h.sequence \in Nat
  BY Constants DEF Dated
<1>2. \E o \in 0 .. Len(h.log) : R \in Seq(Nat) /\ Len(R) = Len(h.log) - o /\ \A k \in 1 .. Len(R) : R[k] = h.log[o + k]
  <2>1. CASE Len(h.log) <= History
    <3>1. R = h.log /\ 0 \in 0 .. Len(h.log) /\ Len(h.log) = Len(h.log) - 0
      BY <1>1, <2>1 DEF Retained
    <3>2. QED
      BY <1>1, <3>1
  <2>2. CASE ~(Len(h.log) <= History)
    <3> DEFINE o == Len(h.log) - History
    <3>1. o \in 0 .. Len(h.log)
      BY <1>1, <2>2
    <3>2. R = SubSeq(h.log, o + 1, Len(h.log))
      BY <2>2 DEF Retained
    <3> HIDE DEF o, R
    <3>3. \A k \in o + 1 .. Len(h.log) : h.log[k] \in Nat
      BY <1>1, <3>1, ElementOfSeq
    <3>4. /\ R \in Seq(Nat)
          /\ Len(R) = IF o + 1 <= Len(h.log) THEN Len(h.log) - (o + 1) + 1 ELSE 0
          /\ \A k \in 1 .. Len(h.log) - (o + 1) + 1 : R[k] = h.log[o + 1 + k - 1]
      BY <1>1, <3>1, <3>2, <3>3, SubSeqProperties
    <3>5. Len(R) = Len(h.log) - o
      BY <1>1, <3>1, <3>4
    <3>6. ASSUME NEW k \in 1 .. Len(R) PROVE R[k] = h.log[o + k]
      <4>1. k \in 1 .. Len(h.log) - (o + 1) + 1 /\ o + 1 + k - 1 = o + k
        BY <1>1, <3>1, <3>5
      <4>2. QED
        BY <3>4, <4>1
    <3>7. QED
      BY <3>1, <3>4, <3>5, <3>6
  <2>3. QED
    BY <2>1, <2>2
<1> HIDE DEF R
<1>3. PICK o \in 0 .. Len(h.log) : R \in Seq(Nat) /\ Len(R) = Len(h.log) - o /\ \A k \in 1 .. Len(R) : R[k] = h.log[o + k]
  BY <1>2
<1>4. \A k \in 1 .. Len(R) : o + k \in 1 .. Len(h.log)
  BY <1>1, <1>3
<1>5. \A k \in 1 .. Len(R) : R[k] > 0 /\ R[k] <= h.sequence
  BY <1>3, <1>4 DEF Dated
<1>6. ASSUME NEW j \in 1 .. Len(R), NEW k \in 1 .. Len(R), j < k PROVE R[j] < R[k]
  <2>1. o + j < o + k
    BY <1>3, <1>6
  <2>2. QED
    BY <1>3, <1>4, <2>1 DEF Dated
<1>7. Dated(R, h.sequence)
  BY <1>1, <1>3, <1>5, <1>6 DEF Dated
<1>8. QED
  BY <1>3, <1>7 DEF R

LEMMA ReplayIs ==
  ASSUME NEW h, Sound(h), Dated(h.log, h.sequence), NEW after \in Int,
         NEW R, R = Retained(h), R # <<>>, after + 1 >= Head(R)
  PROVE  LET u == UpTo(h.log, after)
             p == EventsAfter(R, after)
         IN p \in Seq(Messages) /\ Len(p) = Len(h.log) - u /\ \A k \in 1 .. Len(p) : p[k] = Event(h.log[u + k])
<1> DEFINE p == EventsAfter(R, after)
           log == h.log
<1>1. PICK o \in 0 .. Len(log) :
        Len(R) = Len(log) - o /\ (\A k \in 1 .. Len(R) : R[k] = log[o + k]) /\ Dated(R, h.sequence)
  BY RetainedIs
<1>2. Dated(log, h.sequence)
  OBVIOUS
<1> HIDE DEF log
<1>3. /\ log \in Seq(Nat) /\ Len(log) \in Nat /\ R \in Seq(Nat) /\ Len(R) \in Nat
      /\ \A k \in 1 .. Len(log) : log[k] \in Nat
      /\ \A k \in 1 .. Len(R) : R[k] \in Nat
  <2>1. log \in Seq(Nat) /\ R \in Seq(Nat)
    BY <1>1, <1>2 DEF Dated
  <2>2. QED
    BY <2>1, ElementOfSeq
<1> DEFINE w == UpTo(R, after)
<1>4. w \in 0 .. Len(R) /\ (\A k \in 1 .. w : R[k] <= after) /\ (\A k \in w + 1 .. Len(R) : R[k] > after)
  BY <1>1, UpToIs
<1> HIDE DEF w
<1>5. Len(R) > 0 /\ Head(R) = R[1]
  BY <1>3
<1>6. UpTo(log, after) = o + w
  <2>1. o + w \in 0 .. Len(log)
    BY <1>1, <1>3, <1>4
  <2>2. ASSUME o + w > 0 PROVE log[o + w] <= after
    <3>1. CASE w > 0
      <4>1. w \in 1 .. w /\ w \in 1 .. Len(R)
        BY <1>3, <1>4, <3>1
      <4>2. QED
        BY <1>1, <1>4, <4>1
    <3>2. CASE ~(w > 0)
      <4>1. w = 0 /\ o > 0 /\ o \in 1 .. Len(log) /\ o + 1 \in 1 .. Len(log) /\ o < o + 1 /\ 1 \in 1 .. Len(R) /\ o + w = o
        BY <1>1, <1>3, <1>4, <1>5, <2>2, <3>2
      <4>2. log[o] < log[o + 1] /\ log[o + 1] = R[1]
        BY <1>1, <1>2, <4>1 DEF Dated
      <4>3. log[o] \in Nat /\ R[1] \in Nat
        BY <1>3, <4>1
      <4>4. QED
        BY <1>5, <4>1, <4>2, <4>3
    <3>3. QED
      BY <3>1, <3>2
  <2>3. ASSUME o + w < Len(log) PROVE log[o + w + 1] > after
    <3>1. w + 1 \in w + 1 .. Len(R) /\ w + 1 \in 1 .. Len(R) /\ o + (w + 1) = o + w + 1
      BY <1>1, <1>3, <1>4, <2>3
    <3>2. QED
      BY <1>1, <1>4, <3>1
  <2>4. QED
    BY <1>2, <2>1, <2>2, <2>3, UpToUnique
<1> DEFINE newer == SubSeq(R, w + 1, Len(R))
<1>7. newer \in Seq(Nat) /\ Len(newer) = Len(R) - w /\ \A k \in 1 .. Len(newer) : newer[k] = R[w + k]
  <2>1. \A k \in w + 1 .. Len(R) : R[k] \in Nat
    BY <1>3, <1>4
  <2>2. w + 1 \in Int /\ Len(R) \in Int
    BY <1>3, <1>4
  <2>3. /\ newer \in Seq(Nat)
        /\ Len(newer) = IF w + 1 <= Len(R) THEN Len(R) - (w + 1) + 1 ELSE 0
        /\ \A k \in 1 .. Len(R) - (w + 1) + 1 : newer[k] = R[w + 1 + k - 1]
    BY <2>1, <2>2, SubSeqProperties
  <2> HIDE DEF newer
  <2>4. Len(newer) = Len(R) - w
    BY <1>3, <1>4, <2>3
  <2>5. ASSUME NEW k \in 1 .. Len(newer) PROVE newer[k] = R[w + k]
    <3>1. k \in 1 .. Len(R) - (w + 1) + 1 /\ w + 1 + k - 1 = w + k
      BY <1>3, <1>4, <2>4
    <3>2. QED
      BY <2>3, <3>1
  <2>6. QED
    BY <2>3, <2>4, <2>5
<1>8. p = [k \in 1 .. Len(newer) |-> Event(newer[k])]
  <2>1. DOMAIN newer = 1 .. Len(newer)
    BY <1>7
  <2>2. QED
    BY <2>1 DEF EventsAfter, w
<1> HIDE DEF newer, p
<1>9. \A k \in 1 .. Len(newer) : Event(newer[k]) \in Messages
  BY <1>7, MessageTypes, ElementOfSeq
<1>10. p \in Seq(Messages) /\ Len(p) = Len(newer) /\ \A k \in 1 .. Len(newer) : p[k] = Event(newer[k])
  BY <1>7, <1>8, <1>9
<1>11. Len(p) = Len(log) - (o + w)
  BY <1>1, <1>3, <1>4, <1>7, <1>10
<1>12. ASSUME NEW k \in 1 .. Len(p) PROVE p[k] = Event(log[(o + w) + k])
  <2>1. w + k \in 1 .. Len(R) /\ o + (w + k) = (o + w) + k
    BY <1>3, <1>4, <1>7, <1>10
  <2>2. R[w + k] = log[o + (w + k)] /\ newer[k] = R[w + k]
    BY <1>1, <1>7, <1>10, <2>1
  <2>3. QED
    BY <1>10, <2>1, <2>2
<1>13. QED
  BY <1>6, <1>10, <1>11, <1>12 DEF p, log

LEMMA ReplayCarries ==
  ASSUME NEW h, Sound(h), Dated(h.log, h.sequence), NEW after \in Int
  PROVE  LET p == ReplayOrSnapshot(h, after) IN
         /\ p \in Seq(Messages) /\ \A k \in 1 .. Len(p) : p[k].kind \in {"event", "snapshot"}
         /\ Carries(p, h.log, h.sequence, UpTo(h.log, after), Len(h.log))
<1> DEFINE p == ReplayOrSnapshot(h, after)
           R == Retained(h)
           u == UpTo(h.log, after)
           log == h.log
<1>1. Dated(log, h.sequence) /\ Len(log) \in Nat /\ h.sequence \in Nat /\ u \in 0 .. Len(log)
      /\ \A k \in 1 .. Len(log) : log[k] \in Nat
  <2>1. Dated(log, h.sequence)
    OBVIOUS
  <2>2. u \in 0 .. Len(log)
    BY UpToIs
  <2>3. log \in Seq(Nat) /\ h.sequence \in Nat
    BY DEF Dated
  <2>4. QED
    BY <2>1, <2>2, <2>3, ElementOfSeq
<1>2. CASE after # NoCursor /\ R # <<>> /\ after + 1 >= Head(R)
  <2>1. p = EventsAfter(R, after)
    BY <1>2 DEF ReplayOrSnapshot
  <2>2. p \in Seq(Messages) /\ Len(p) = Len(log) - u /\ \A k \in 1 .. Len(p) : p[k] = Event(log[u + k])
    <3> DEFINE q == EventsAfter(R, after)
    <3>1. R = Retained(h) /\ R # <<>> /\ after + 1 >= Head(R)
      BY <1>2
    <3> HIDE DEF R
    <3>2. q \in Seq(Messages) /\ Len(q) = Len(log) - u /\ \A k \in 1 .. Len(q) : q[k] = Event(log[u + k])
      BY <3>1, ReplayIs, ZenonT(30)
    <3> HIDE DEF p, u, log
    <3>3. p = q
      BY <2>1
    <3> HIDE DEF q
    <3>4. QED
      BY <3>2, <3>3
  <2> HIDE DEF p, R, u, log
  <2>3. \A k \in 1 .. Len(p) : u + k \in 1 .. Len(log)
    BY <1>1, <2>2
  <2>4. ASSUME NEW k \in 1 .. Len(p) PROVE p[k].kind = "event" /\ p[k].at = log[u + k]
    <3>1. log[u + k] \in Nat
      BY <1>1, <2>3, ElementOfSeq
    <3>2. p[k] = Event(log[u + k])
      BY <2>2
    <3>3. QED
      BY <3>1, <3>2, MessageTypes
  <2> DEFINE at == [k \in 0 .. Len(p) |-> u + k]
  <2>5. at \in [0 .. Len(p) -> 0 .. Len(log)] /\ at[0] = u /\ at[Len(p)] = Len(log)
    BY <1>1, <2>2
  <2>6. ASSUME NEW k \in 0 + 1 .. Len(p) PROVE IsMove(log, h.sequence, p[k], at[k - 1], at[k])
    <3>1. k \in 1 .. Len(p) /\ at[k - 1] = u + (k - 1) /\ at[k] = u + k /\ u + k = u + (k - 1) + 1 /\ u + k <= Len(log)
      BY <1>1, <2>2
    <3>2. QED
      BY <2>4, <3>1 DEF IsMove
  <2> HIDE DEF at
  <2>7. Carries(p, log, h.sequence, u, Len(log))
    BY <2>5, <2>6 DEF Carries, Moves
  <2>8. QED
    BY <2>2, <2>4, <2>7 DEF p, u, log
<1>3. CASE ~(after # NoCursor /\ R # <<>> /\ after + 1 >= Head(R))
  <2> DEFINE m == Snapshot(h.sequence)
  <2>1. p = <<m>>
    BY <1>3 DEF ReplayOrSnapshot
  <2>2. m \in Messages /\ m.kind = "snapshot" /\ m.at = h.sequence
    BY <1>1, MessageTypes
  <2> HIDE DEF m
  <2>3. p \in Seq(Messages) /\ Len(p) = 1 /\ p[1] = m
    BY <2>1, <2>2
  <2>4. UpTo(log, h.sequence) = Len(log)
    BY <1>1, UpToEnd
  <2> HIDE DEF p, R, u, log
  <2> DEFINE at == [k \in 0 .. Len(p) |-> IF k = 0 THEN u ELSE Len(log)]
  <2>5. at \in [0 .. Len(p) -> 0 .. Len(log)] /\ at[0] = u /\ at[Len(p)] = Len(log) /\ at[1] = Len(log)
    BY <1>1, <2>3
  <2>6. ASSUME NEW k \in 0 + 1 .. Len(p) PROVE IsMove(log, h.sequence, p[k], at[k - 1], at[k])
    <3>1. k = 1 /\ k - 1 = 0 /\ u <= Len(log) /\ h.sequence <= h.sequence
      BY <1>1, <2>3
    <3>2. QED
      BY <2>2, <2>3, <2>4, <2>5, <3>1 DEF IsMove
  <2> HIDE DEF at
  <2>7. Carries(p, log, h.sequence, u, Len(log))
    BY <2>5, <2>6 DEF Carries, Moves
  <2>8. \A k \in 1 .. Len(p) : p[k].kind = "snapshot"
    BY <2>2, <2>3
  <2>9. QED
    BY <2>3, <2>7, <2>8 DEF p, u, log
<1>4. QED
  BY <1>2, <1>3

\* The messages of q, or the first of them, after those of p.
LEMMA CarriesConcat ==
  ASSUME NEW p \in Seq(Messages), NEW q \in Seq(Messages), NEW log, NEW n, NEW a, NEW e, NEW d,
         Carries(p, log, n, a, e), Carries(q, log, n, e, d), NEW x \in 0 .. Len(q)
  PROVE  LET s == p \o SubSeq(q, 1, x) IN
         /\ s \in Seq(Messages) /\ Len(s) = Len(p) + x
         /\ \A k \in 1 .. Len(p) : s[k] = p[k]
         /\ \A k \in 1 .. x : s[Len(p) + k] = q[k]
         /\ \E z \in 0 .. Len(log) : Carries(s, log, n, a, z) /\ (x = Len(q) => z = d)
<1>0. Len(p) \in Nat /\ Len(q) \in Nat /\ x <= Len(q) /\ x \in Nat
  OBVIOUS
<1> DEFINE s == p \o SubSeq(q, 1, x)
           f == SubSeq(q, 1, x)
<1>1. f \in Seq(Messages) /\ Len(f) = x /\ \A k \in 1 .. x : f[k] = q[k]
  BY <1>0
<1> HIDE DEF f
<1>2. /\ s \in Seq(Messages) /\ Len(s) = Len(p) + x
      /\ \A k \in 1 .. Len(p) + x : s[k] = IF k <= Len(p) THEN p[k] ELSE f[k - Len(p)]
  <2>1. s = p \o f
    BY DEF f
  <2>2. /\ p \o f \in Seq(Messages) /\ Len(p \o f) = Len(p) + Len(f)
        /\ \A k \in 1 .. Len(p) + Len(f) : (p \o f)[k] = IF k <= Len(p) THEN p[k] ELSE f[k - Len(p)]
    BY <1>1, ConcatProperties
  <2> HIDE DEF s
  <2>3. QED
    BY <1>1, <2>1, <2>2
<1> HIDE DEF s
<1>3. \A k \in 1 .. Len(p) : s[k] = p[k]
  BY <1>0, <1>2
<1>4. ASSUME NEW k \in Len(p) + 1 .. Len(s) PROVE s[k] = q[k - Len(p)] /\ k - Len(p) \in 1 .. x /\ k - Len(p) \in 0 + 1 .. Len(q)
  <2>1. k \in 1 .. Len(p) + x /\ ~(k <= Len(p)) /\ k - Len(p) \in 1 .. x /\ k - Len(p) \in 0 + 1 .. Len(q)
    BY <1>0, <1>2
  <2>2. QED
    BY <1>1, <1>2, <2>1
<1>5. ASSUME NEW k \in 1 .. x PROVE s[Len(p) + k] = q[k]
  <2>1. Len(p) + k \in Len(p) + 1 .. Len(s) /\ Len(p) + k - Len(p) = k
    BY <1>0, <1>2
  <2>2. QED
    BY <1>4, <2>1
<1>6. PICK at \in [0 .. Len(q) -> 0 .. Len(log)] : at[0] = e /\ at[Len(q)] = d /\ Moves(q, log, n, at, 0)
  BY DEF Carries
<1> DEFINE on == [k \in Len(p) .. Len(s) |-> at[k - Len(p)]]
           z == at[x]
<1>7. /\ on \in [Len(p) .. Len(s) -> 0 .. Len(log)] /\ on[Len(p)] = e /\ on[Len(s)] = z
      /\ z \in 0 .. Len(log)
  <2>1. \A k \in Len(p) .. Len(s) : k - Len(p) \in 0 .. Len(q)
    BY <1>0, <1>2
  <2>2. Len(p) \in Len(p) .. Len(s) /\ Len(s) \in Len(p) .. Len(s) /\ Len(p) - Len(p) = 0 /\ Len(s) - Len(p) = x
    BY <1>0, <1>2
  <2>3. QED
    BY <1>6, <2>1, <2>2
<1>8. ASSUME NEW k \in Len(p) + 1 .. Len(s) PROVE IsMove(log, n, s[k], on[k - 1], on[k])
  <2>1. k \in Len(p) .. Len(s) /\ k - 1 \in Len(p) .. Len(s) /\ (k - 1) - Len(p) = (k - Len(p)) - 1
    BY <1>0, <1>2
  <2>2. on[k] = at[k - Len(p)] /\ on[k - 1] = at[(k - Len(p)) - 1]
    BY <2>1
  <2>3. QED
    BY <1>4, <1>6, <2>2 DEF Moves
<1>9. x = Len(q) => z = d
  BY <1>6
<1>9a. Len(p) <= Len(s)
  BY <1>0, <1>2
<1> HIDE DEF on, z
<1>10. Moves(s, log, n, on, Len(p))
  BY <1>8 DEF Moves
<1>11. Carries(s, log, n, a, z)
  BY <1>2, <1>3, <1>7, <1>9a, <1>10, CarriesOn
<1>12. QED
  BY <1>2, <1>3, <1>5, <1>7, <1>9, <1>11 DEF s

\* All that is sent to the connection: w shows the log, which reaches to number
\* n, after position a, and ends with the answer.
IsWelcome(w, log, n, a, epoch) ==
  /\ w \in Seq(Messages) /\ Len(w) > 0 /\ w[Len(w)] = Attached(n, epoch)
  /\ \A k \in 1 .. Len(w) : k # Len(w) => w[k].kind \in {"event", "snapshot"}
  /\ Carries(w, log, n, a, Len(log))

LEMMA WelcomeIs ==
  ASSUME NEW h, Sound(h), Dated(h.log, h.sequence), NEW after \in Int, NEW epoch \in Nat
  PROVE  IsWelcome(Append(ReplayOrSnapshot(h, after), Attached(h.sequence, epoch)),
                   h.log, h.sequence, UpTo(h.log, after), epoch)
<1> DEFINE w == Append(ReplayOrSnapshot(h, after), Attached(h.sequence, epoch))
           p == ReplayOrSnapshot(h, after)
           m == Attached(h.sequence, epoch)
           log == h.log
           n == h.sequence
           a == UpTo(h.log, after)
           e == Len(log)
<1>1. /\ Dated(log, n) /\ e \in Nat /\ n \in Nat /\ n <= n
      /\ p \in Seq(Messages) /\ \A k \in 1 .. Len(p) : p[k].kind \in {"event", "snapshot"}
  <2>1. p \in Seq(Messages) /\ \A k \in 1 .. Len(p) : p[k].kind \in {"event", "snapshot"}
    BY ReplayCarries
  <2>2. e \in Nat /\ n \in Nat
    BY DEF Dated
  <2>3. QED
    BY <2>1, <2>2
<1>2. Carries(p, log, n, a, e)
  BY ReplayCarries
<1>3. m \in Messages /\ m.kind = "attached" /\ m.at = n
  BY <1>1, MessageTypes
<1>3a. w = Append(p, m)
  OBVIOUS
<1>4. UpTo(log, n) = e
  BY <1>1, UpToEnd
<1> HIDE DEF w, p, m, log, n, a, e
<1>5. /\ w \in Seq(Messages) /\ Len(w) = Len(p) + 1 /\ Len(p) \in Nat
      /\ \A k \in 1 .. Len(p) : w[k] = p[k]
      /\ w[Len(p) + 1] = m
  BY <1>1, <1>3, <1>3a, AppendProperties
<1> DEFINE on == [k \in Len(p) .. Len(w) |-> e]
<1>6. on \in [Len(p) .. Len(w) -> 0 .. Len(log)] /\ on[Len(p)] = e /\ on[Len(w)] = e
  BY <1>1, <1>5 DEF e
<1>7. ASSUME NEW k \in Len(p) + 1 .. Len(w) PROVE IsMove(log, n, w[k], on[k - 1], on[k])
  <2>1. k = Len(p) + 1 /\ on[k - 1] = e /\ on[k] = e
    BY <1>5
  <2>2. QED
    BY <1>1, <1>3, <1>4, <1>5, <2>1 DEF IsMove
<1>7a. Len(p) <= Len(w)
  BY <1>5
<1> HIDE DEF on
<1>8. Moves(w, log, n, on, Len(p))
  BY <1>7 DEF Moves
<1>9. Carries(w, log, n, a, e)
  BY <1>1, <1>2, <1>5, <1>6, <1>7a, <1>8, CarriesOn
<1>10. \A k \in 1 .. Len(w) : k # Len(w) => k \in 1 .. Len(p)
  BY <1>5
<1>11. QED
  <2>1. w \in Seq(Messages) /\ Len(w) > 0 /\ w[Len(w)] = m
    BY <1>5
  <2>2. \A k \in 1 .. Len(w) : k # Len(w) => w[k].kind \in {"event", "snapshot"}
    BY <1>1, <1>5, <1>10
  <2>3. Carries(w, log, n, a, Len(log))
    BY <1>9 DEF e
  <2>4. IsWelcome(w, log, n, a, epoch)
    BY <2>1, <2>2, <2>3 DEF IsWelcome, m, n
  <2>5. QED
    BY <2>4 DEF w, log, n, a

-----------------------------------------------------------------------------
(* The request for an attachment is handled *)

\* The first request of the connection is taken.
LEMMA ReadsTaken ==
  ASSUME NEW s, NEW d, NEW box \in Seq(Requests), box # <<>>, NEW r, NEW i, Reads(s, d, box, r, i)
  PROVE  Reads(s, d, Tail(box), r, i)
<1>1. /\ Len(box) \in Nat /\ Len(box) > 0 /\ Len(Tail(box)) = Len(box) - 1
      /\ \A k \in 1 .. Len(Tail(box)) : Tail(box)[k] = box[k + 1]
  OBVIOUS
<1>2. \A k \in 1 .. Len(Tail(box)) : k + 1 \in 1 .. Len(box) /\ Len(box) # 1
  BY <1>1
<1>3. Boxed(s, Tail(box), r)
  BY <1>1, <1>2 DEF Reads, Boxed, IsFirst
<1>4. QED
  BY <1>3 DEF Reads

\* What the attached pump is told: q, then the messages of w or the first of
\* them, and all if it stays attached.
AreDrivers(q) == q \in Seq(Messages) /\ \A k \in 1 .. Len(q) : q[k].kind = "driver"

\* Queue u is q, with the first x messages of w after it.
IsAfter(u, q, w, x) == x \in 0 .. Len(w) /\ u = q \o SubSeq(w, 1, x)

LEMMA ReadsWelcome ==
  ASSUME NEW i \in Pumps, NEW s, NEW t, NEW box, NEW r, NEW d, d = Len(s.log),
         Reads(s, d, box, r, i), IsFirst(s, box, r), UpTo(s.log, r.cursor) \in 0 .. Len(s.log),
         t.log = s.log, t.sequence = s.sequence,
         NEW q, AreDrivers(q), r.mode = "view" => q = <<>>,
         NEW epoch \in Nat, epoch = 0 => r.mode = "view",
         NEW w, IsWelcome(w, s.log, s.sequence, UpTo(s.log, r.cursor), epoch),
         NEW x, IsAfter(t.queue, q, w, x),
         t.open => x = Len(w) /\ t.subscribed /\ Holds(t.driver, i, epoch),
         t.subscribed => t.open
  PROVE  Reads(t, d, <<>>, r, i)
<1>00. /\ q \in Seq(Messages) /\ \A k \in 1 .. Len(q) : q[k].kind = "driver"
       /\ w \in Seq(Messages) /\ Len(w) > 0 /\ w[Len(w)] = Attached(s.sequence, epoch)
       /\ \A k \in 1 .. Len(w) : k # Len(w) => w[k].kind \in {"event", "snapshot"}
       /\ Carries(w, s.log, s.sequence, UpTo(s.log, r.cursor), d)
       /\ x \in 0 .. Len(w) /\ t.queue = q \o SubSeq(w, 1, x)
  BY DEF AreDrivers, IsWelcome, IsAfter
<1> DEFINE a == UpTo(s.log, r.cursor)
           m == Attached(s.sequence, epoch)
<1>0. /\ Dated(t.log, t.sequence) /\ IsJoining(r) /\ s.sequence \in Nat /\ Len(s.log) \in Nat
      /\ a \in 0 .. Len(s.log) /\ i \in Clients
  BY Constants DEF Reads, IsFirst, Dated
<1>0a. /\ w[Len(w)] = m /\ Carries(w, s.log, s.sequence, a, d)
       /\ m \in Messages /\ m.kind = "attached" /\ m.id = 0 /\ m.epoch = epoch
  BY <1>00, <1>0, MessageTypes
<1> HIDE DEF a, m
<1>1. Carries(q, s.log, s.sequence, a, a)
  <2>1. Carries(<<>>, s.log, s.sequence, a, a)
    BY <1>0, CarriesNothing
  <2>2. Extends(<<>>, q, {n \in Messages : n.kind = "driver"}) /\ <<>> \in Seq(Messages)
    BY <1>00, ElementOfSeq DEF Extends
  <2>3. \A n \in {n \in Messages : n.kind = "driver"} : n.kind \notin {"event", "snapshot", "attached"}
    OBVIOUS
  <2>4. QED
    BY <1>00, <1>0, <2>1, <2>2, <2>3, CarriesQuiet, ZenonT(30)
<1>2. /\ t.queue \in Seq(Messages) /\ Len(t.queue) = Len(q) + x
      /\ \A k \in 1 .. Len(q) : t.queue[k] = q[k]
      /\ \A k \in 1 .. x : t.queue[Len(q) + k] = w[k]
      /\ \E z \in 0 .. Len(s.log) : Carries(t.queue, s.log, s.sequence, a, z) /\ (x = Len(w) => z = d)
  <2> DEFINE u == t.queue
             log == s.log
             n == s.sequence
             v == q \o SubSeq(w, 1, x)
  <2>1. u = v /\ Carries(q, log, n, a, a) /\ Carries(w, log, n, a, d)
    BY <1>00, <1>0a, <1>1
  <2> HIDE DEF u, log, n
  <2>2. /\ v \in Seq(Messages) /\ Len(v) = Len(q) + x
        /\ \A k \in 1 .. Len(q) : v[k] = q[k]
        /\ \A k \in 1 .. x : v[Len(q) + k] = w[k]
        /\ \E z \in 0 .. Len(log) : Carries(v, log, n, a, z) /\ (x = Len(w) => z = d)
    BY <1>00, <2>1, CarriesConcat
  <2> HIDE DEF v
  <2>3. QED
    BY <2>1, <2>2 DEF u, log, n
<1>3. Len(q) \in Nat /\ Len(w) \in Nat /\ x \in Nat /\ x <= Len(w)
  BY <1>00
<1>4. ASSUME NEW k \in 1 .. Len(t.queue)
      PROVE  \/ k \in 1 .. Len(q) /\ t.queue[k] = q[k] /\ t.queue[k].kind = "driver"
             \/ k > Len(q) /\ k # Len(q) + Len(w) /\ t.queue[k].kind \in {"event", "snapshot"}
             \/ k = Len(q) + Len(w) /\ t.queue[k] = m
  <2>1. CASE k \in 1 .. Len(q)
    BY <1>00, <1>2, <2>1
  <2>2. CASE k \notin 1 .. Len(q)
    <3>1. k - Len(q) \in 1 .. x /\ Len(q) + (k - Len(q)) = k /\ k - Len(q) \in 1 .. Len(w) /\ k > Len(q)
      BY <1>2, <1>3, <2>2
    <3>2. t.queue[k] = w[k - Len(q)] /\ (k - Len(q) = Len(w) <=> k = Len(q) + Len(w))
      BY <1>2, <1>3, <3>1
    <3>3. QED
      BY <1>00, <1>0a, <3>1, <3>2
  <2>3. QED
    BY <2>1, <2>2
<1>5. Follows(t, d, r)
  BY <1>2 DEF Follows, a
<1>6. ASSUME t.subscribed PROVE Tells(t.queue, r.lease, i, t.driver)
  <2> DEFINE M == {n \in Messages : n.kind \in {"event", "snapshot"}} \cup {m}
  <2>1. x = Len(w) /\ Holds(t.driver, i, epoch) /\ Len(q) + Len(w) \in Len(q) + 1 .. Len(t.queue)
    BY <1>00, <1>2, <1>3, <1>6
  <2>2. Len(q) <= Len(t.queue) /\ \A k \in Len(q) + 1 .. Len(t.queue) : k \in 1 .. Len(t.queue) /\ k \notin 1 .. Len(q)
    BY <1>2, <1>3
  <2>3. \A k \in Len(q) + 1 .. Len(t.queue) : t.queue[k] \in M
    BY <1>2, <1>4, <2>2, ElementOfSeq
  <2>4. Extends(q, t.queue, M)
    BY <1>2, <2>2, <2>3 DEF Extends
  <2>5. \A n \in M : n.kind \in Marks => Holds(t.driver, i, Says(n, i))
    BY <1>0a, <2>1 DEF Marks, Says
  <2>6. \E j \in Len(q) + 1 .. Len(t.queue) : t.queue[j].kind \in {"driver", "attached"}
    <3>1. t.queue[Len(q) + Len(w)] = m
      BY <1>3, <1>4, <2>1, <2>2
    <3>2. t.queue[Len(q) + Len(w)].kind \in {"driver", "attached"}
      BY <1>0a, <3>1
    <3>3. QED
      BY <2>1, <3>2
  <2> HIDE DEF M
  <2>7. QED
    BY <1>00, <1>2, <2>4, <2>5, <2>6, TellsAnew, ZenonT(30)
<1>7. Boxed(t, <<>>, r)
  BY DEF Boxed
<1>8. Attended(t, r)
  BY <1>0 DEF Attended, IsJoining
<1>9. Answered(t, r)
  <2>1. ASSUME NEW k \in 1 .. Len(t.queue), t.queue[k].kind = "attached"
        PROVE  /\ k = Len(q) + Len(w) /\ t.queue[k] = m
               /\ t.queue[k].epoch = 0 => r.mode = "view" /\ \A j \in 1 .. k - 1 : t.queue[j].kind # "driver"
    <3>1. k = Len(q) + Len(w) /\ t.queue[k] = m
      BY <1>4, <2>1
    <3>2. ASSUME t.queue[k].epoch = 0 PROVE r.mode = "view" /\ \A j \in 1 .. k - 1 : t.queue[j].kind # "driver"
      <4>1. r.mode = "view" /\ q = <<>> /\ Len(q) = 0
        BY <1>0a, <3>1, <3>2
      <4>2. ASSUME NEW j \in 1 .. k - 1 PROVE t.queue[j].kind # "driver"
        <5>1. j \in 1 .. Len(t.queue) /\ j \notin 1 .. Len(q)
          BY <1>2, <1>3, <4>1
        <5>2. QED
          BY <1>0a, <1>4, <5>1
      <4>3. QED
        BY <4>1, <4>2
    <3>3. QED
      BY <3>1, <3>2
  <2>2. Rejected(0).kind = "rejected"
    BY DEF Rejected
  <2>3. \A k \in 1 .. Len(t.queue) : t.queue[k] # Rejected(0)
    BY <1>00, <1>0a, <1>4, <2>2, ZenonT(30)
  <2>4. \A k, j \in 1 .. Len(t.queue) : t.queue[k].kind = "attached" /\ t.queue[j].kind = "attached" => j = k
    BY <2>1
  <2>5. QED
    BY <1>0, <2>1, <2>3, <2>4 DEF Answered
<1>10. QED
  BY <1>0, <1>2, <1>5, <1>6, <1>7, <1>8, <1>9 DEF Reads, Told

\* The attachment is refused, or the connection has no room.
LEMMA ReadsRefused ==
  ASSUME NEW i \in Pumps, NEW s, NEW t, NEW box, NEW r, NEW d,
         Reads(s, d, box, r, i), IsFirst(s, box, r), UpTo(s.log, r.cursor) \in 0 .. Len(s.log), r.mode = "drive",
         t.log = s.log, t.sequence = s.sequence, ~t.subscribed,
         t.queue = <<>> \/ t.queue = <<Rejected(0)>>
  PROVE  Reads(t, d, <<>>, r, i)
<1>0. /\ Dated(t.log, t.sequence) /\ IsJoining(r)
      /\ UpTo(s.log, r.cursor) \in 0 .. Len(s.log)
      /\ Rejected(0) \in Messages /\ Rejected(0).kind = "rejected"
  BY MessageTypes DEF Reads, IsFirst
<1>1. /\ t.queue \in Seq(Messages) /\ Extends(<<>>, t.queue, {Rejected(0)}) /\ <<>> \in Seq(Messages)
      /\ \A k \in 1 .. Len(t.queue) : t.queue[k] = Rejected(0) /\ Len(t.queue) = 1
  <2>1. CASE t.queue = <<>>
    BY <2>1 DEF Extends
  <2>2. CASE t.queue = <<Rejected(0)>>
    <3> DEFINE m == Rejected(0)
    <3>1. m \in Messages /\ t.queue = <<m>>
      BY <1>0, <2>2
    <3> HIDE DEF m
    <3>2. t.queue \in Seq(Messages) /\ Len(t.queue) = 1 /\ t.queue[1] = m /\ Len(<<>>) = 0 /\ <<>> \in Seq(Messages)
      BY <3>1
    <3>3. \A k \in 1 .. Len(t.queue) : t.queue[k] = m
      BY <3>2
    <3>4. QED
      BY <3>2, <3>3 DEF Extends, m
  <2>3. QED
    BY <2>1, <2>2
<1>2. Follows(t, d, r)
  <2> DEFINE a == UpTo(s.log, r.cursor)
  <2>1. Carries(<<>>, s.log, s.sequence, a, a) /\ a \in 0 .. Len(s.log)
    BY <1>0, CarriesNothing
  <2>2. \A n \in {Rejected(0)} : n.kind \notin {"event", "snapshot", "attached"}
    BY <1>0
  <2> HIDE DEF a
  <2>3. Carries(t.queue, s.log, s.sequence, a, a)
    BY <1>1, <2>1, <2>2, CarriesQuiet
  <2>4. QED
    BY <2>1, <2>3 DEF Follows, a
<1>3. Boxed(t, <<>>, r) /\ Attended(t, r) /\ Answered(t, r)
  BY <1>0, <1>1 DEF Boxed, Attended, Answered, IsJoining, Marks
<1>4. QED
  BY <1>0, <1>1, <1>2, <1>3 DEF Reads, Told

LEMMA RequestFields ==
  ASSUME NEW q \in Requests
  PROVE  /\ q.kind \in {"attach", "acquire", "release", "command", "closed"}
         /\ q.kind = "attach" => q.mode \in Modes /\ q.after \in Int
         /\ q.kind \in {"acquire", "release", "command"} => q.id \in Nat /\ q.id # 0 /\ q.epoch \in Nat
BY DEF Requests

\* What the leader does when the attachment is not refused.
LEMMA AttachIs ==
  ASSUME NEW h, Sound(h), Dated(h.log, h.sequence), NEW c \in Connections, IsOpen(h, c),
         NEW q \in Requests, q.kind = "attach", ~(q.mode = "drive" /\ IsBusy(h, c, q.force)),
         NEW order, order \in SetToSeqs(h.subscribers \cup {c})
  PROVE  \E f, j, epoch, w :
           /\ IsGranted(h, f, c, q.mode) /\ Visits(order, f)
           /\ j = IF f.driver = h.driver THEN f ELSE Broadcast(f, DriverChanged(f.driver), order)
           /\ epoch = (IF q.mode = "drive" THEN f.driver.epoch ELSE 0) /\ epoch \in Nat
           /\ w = Append(ReplayOrSnapshot(h, q.after), Attached(h.sequence, epoch))
           /\ w \in Seq(Messages) /\ IsWelcome(w, h.log, h.sequence, UpTo(h.log, q.after), epoch)
           /\ HandleAttach(h, c, q, order) = SendAll(j, c, w)
<1>1. q.mode \in Modes /\ q.after \in Int
  BY RequestFields
<1>2. PICK f : /\ IsGranted(h, f, c, q.mode) /\ Granted(h, c, q.mode).driver = f.driver /\ Visits(order, f)
               /\ Join(h, c, q.mode, order) = IF f.driver = h.driver THEN f
                                              ELSE Broadcast(f, DriverChanged(f.driver), order)
  BY <1>1, JoinIs
<1> DEFINE j == Join(h, c, q.mode, order)
           epoch == IF q.mode = "drive" THEN f.driver.epoch ELSE 0
           w == Append(ReplayOrSnapshot(h, q.after), Attached(h.sequence, epoch))
<1>3. HandleAttach(h, c, q, order) = SendAll(j, c, w)
  <2>1. (IF q.mode = "drive" THEN Granted(h, c, q.mode).driver.epoch ELSE 0) = epoch
    BY <1>2
  <2> DEFINE e == Granted(h, c, q.mode).driver.epoch
  <2>2. HandleAttach(h, c, q, order) =
          SendAll(j, c, Append(ReplayOrSnapshot(h, q.after), Attached(h.sequence, IF q.mode = "drive" THEN e ELSE 0)))
    BY DEF HandleAttach
  <2>3. QED
    BY <2>1, <2>2
<1>4. epoch \in Nat
  <2>1. f.driver \in Leases
    BY <1>2, HostFields DEF Sound, IsGranted
  <2>2. QED
    BY <2>1, LeaseFields
<1>5. w \in Seq(Messages) /\ IsWelcome(w, h.log, h.sequence, UpTo(h.log, q.after), epoch)
  <2> HIDE DEF epoch
  <2>1. IsWelcome(w, h.log, h.sequence, UpTo(h.log, q.after), epoch)
    BY <1>1, <1>4, WelcomeIs
  <2> HIDE DEF w
  <2>2. QED
    BY <2>1 DEF IsWelcome
<1> HIDE DEF j, epoch, w
<1>6. j = (IF f.driver = h.driver THEN f ELSE Broadcast(f, DriverChanged(f.driver), order))
  BY <1>2 DEF j
<1>7. epoch = (IF q.mode = "drive" THEN f.driver.epoch ELSE 0)
  BY DEF epoch
<1>8. w = Append(ReplayOrSnapshot(h, q.after), Attached(h.sequence, epoch))
  BY DEF w
<1>9. QED
  BY <1>2, <1>3, <1>4, <1>5, <1>6, <1>7, <1>8

LEMMA SendAllOther ==
  ASSUME NEW h, Sound(h), NEW c \in Connections, NEW messages \in Seq(Messages), NEW k, k # c,
         NEW i \in Pumps, IsOf(h, k, i), NEW d, NEW box, NEW r, Reads(Seat(h, k), d, box, r, i)
  PROVE  Reads(Seat(SendAll(h, c, messages), k), d, box, r, i)
<1> DEFINE g == SendAll(h, c, messages)
<1>0. k \in Connections \ {c}
  BY DEF IsOf
<1>0a. Spares(h, g, c)
  BY SendAllSpares
<1> HIDE DEF g
<1>1. /\ Frame(h, g)
      /\ Extends(h.outbound[k], g.outbound[k], {Freed})
      /\ k \notin g.subscribers => g.outbound[k] = h.outbound[k]
  BY <1>0, <1>0a DEF Spares
<1>2. k \notin h.subscribers => g.outbound[k] = h.outbound[k]
  <2> HIDE DEF g
  <2>1. QED
    BY <1>1 DEF Frame
<1> HIDE DEF g
<1>3. Reads(Seat(g, k), d, box, r, i)
  BY <1>1, <1>2, FrameReads
<1>4. QED
  BY <1>3 DEF g

LEMMA GrowsSame ==
  ASSUME NEW log, NEW n, Dated(log, n)
  PROVE  Grows(log, n, log, n)
<1>1. n \in Nat /\ Len(log) \in Nat
  BY DEF Dated
<1>2. QED
  BY <1>1 DEF Grows

\* What every handler keeps of the host.
LEMMA FrameKeeps ==
  ASSUME NEW h, Sound(h), Dated(h.log, h.sequence), NEW f, Sound(f), f.log = h.log, f.sequence = h.sequence,
         f.owner = h.owner, NEW g, Frame(f, g),
         \A k \in Connections : ~IsOpen(h, k) => g.outbound[k] \in {h.outbound[k], <<>>}
  PROVE  Keeps(h, g)
<1>1. Sound(g)
  BY FrameSound
<1>2. Grows(h.log, h.sequence, g.log, g.sequence)
  BY GrowsSame DEF Frame
<1>3. QED
  BY <1>1, <1>2 DEF Keeps, Frame

LEMMA SendKeeps ==
  ASSUME NEW h, Sound(h), Dated(h.log, h.sequence), NEW c \in Connections, NEW m \in Messages
  PROVE  Keeps(h, Send(h, c, m))
<1> DEFINE g == Send(h, c, m)
<1>1. /\ Frame(h, g) /\ (~IsOpen(h, c) => g = h)
      /\ \A k \in Connections \ {c} : k \notin g.subscribers => g.outbound[k] = h.outbound[k]
  BY SendIs
<1> HIDE DEF g
<1>2. \A k \in Connections : ~IsOpen(h, k) => g.outbound[k] \in {h.outbound[k], <<>>}
  <2>1. ASSUME NEW k \in Connections, ~IsOpen(h, k) PROVE k \notin g.subscribers
    BY <1>1, <2>1 DEF Frame, Sound
  <2>2. QED
    BY <1>1, <2>1
<1>3. QED
  BY <1>1, <1>2, FrameKeeps DEF g

LEMMA KeepsTrans ==
  ASSUME NEW h, NEW g, NEW u, Keeps(h, g), Keeps(g, u)
  PROVE  Keeps(h, u)
<1>1. Sound(u)
  BY DEF Keeps
<1>2. Grows(h.log, h.sequence, u.log, u.sequence)
  <2>1. Grows(h.log, h.sequence, g.log, g.sequence) /\ Grows(g.log, g.sequence, u.log, u.sequence)
    BY DEF Keeps
  <2> DEFINE p == h.log
             q == g.log
             s == u.log
             a == h.sequence
             b == g.sequence
             e == u.sequence
  <2> HIDE DEF p, q, s, a, b, e
  <2>2. Grows(p, a, q, b) /\ Grows(q, b, s, e)
    BY <2>1 DEF p, q, s, a, b, e
  <2>3. /\ a \in Nat /\ b \in Nat /\ e \in Nat /\ a <= b /\ b <= e
        /\ Len(p) \in Nat /\ Len(q) \in Nat /\ Len(s) \in Nat /\ Len(p) <= Len(q) /\ Len(q) <= Len(s)
        /\ \A k \in 1 .. Len(s) : s[k] \in Nat
    BY <2>2, ElementOfSeq DEF Grows, Dated
  <2>4. \A k \in 1 .. Len(p) : s[k] = p[k]
    <3>1. \A k \in 1 .. Len(p) : k \in 1 .. Len(q)
      BY <2>3
    <3>2. QED
      BY <2>2, <3>1 DEF Grows
  <2>5. ASSUME NEW k \in Len(p) + 1 .. Len(s) PROVE s[k] > a
    <3>1. CASE k <= Len(q)
      <4>1. k \in Len(p) + 1 .. Len(q) /\ k \in 1 .. Len(q)
        BY <2>3, <3>1
      <4>2. QED
        BY <2>2, <4>1 DEF Grows
    <3>2. CASE ~(k <= Len(q))
      <4>1. k \in Len(q) + 1 .. Len(s) /\ k \in 1 .. Len(s)
        BY <2>3, <3>2
      <4>2. s[k] > b /\ s[k] \in Nat
        BY <2>2, <2>3, <4>1 DEF Grows
      <4>3. QED
        BY <2>3, <4>2
    <3>3. QED
      BY <3>1, <3>2
  <2>6. Grows(p, a, s, e)
    <3>1. a <= e /\ Len(p) <= Len(s)
      BY <2>3
    <3>2. QED
      BY <2>2, <2>4, <2>5, <3>1 DEF Grows
  <2>7. QED
    BY <2>6 DEF p, q, s, a, b, e
<1>3. \A k \in Connections : /\ u.owner[k] \in {h.owner[k], NoClient}
                             /\ ~IsOpen(h, k) => u.outbound[k] \in {h.outbound[k], <<>>}
  BY DEF Keeps, IsOpen
<1>4. QED
  BY <1>1, <1>2, <1>3 DEF Keeps

LEMMA JoinKeeps ==
  ASSUME NEW h, Sound(h), Dated(h.log, h.sequence), NEW c \in Connections, IsOpen(h, c), NEW mode \in Modes,
         NEW f, IsGranted(h, f, c, mode), NEW order, Visits(order, f),
         NEW g, g = IF f.driver = h.driver THEN f ELSE Broadcast(f, DriverChanged(f.driver), order)
  PROVE  Keeps(h, g)
<1>1. Frame(f, g) /\ \A k \in Connections : k \notin f.subscribers => g.outbound[k] = h.outbound[k]
  BY JoinFrame
<1>2. \A k \in Connections : ~IsOpen(h, k) => k \notin f.subscribers
  BY DEF IsGranted, Sound
<1>3. QED
  BY <1>1, <1>2, FrameKeeps DEF IsGranted

LEMMA AttachKeeps ==
  ASSUME NEW h, Sound(h), Dated(h.log, h.sequence), NEW c \in Connections,
         NEW q \in Requests, q.kind = "attach", NEW order, order \in SetToSeqs(h.subscribers \cup {c})
  PROVE  Keeps(h, HandleAttach(h, c, q, order))
<1> DEFINE g == HandleAttach(h, c, q, order)
<1>1. CASE ~IsOpen(h, c)
  <2>1. g = h
    BY <1>1 DEF HandleAttach
  <2>2. QED
    BY <2>1, FrameSame, FrameKeeps
<1>2. CASE IsOpen(h, c) /\ q.mode = "drive" /\ IsBusy(h, c, q.force)
  <2>1. g = Send(h, c, Rejected(0)) /\ Rejected(0) \in Messages
    BY <1>2, MessageTypes DEF HandleAttach
  <2>2. QED
    BY <2>1, SendKeeps
<1>3. CASE IsOpen(h, c) /\ ~(q.mode = "drive" /\ IsBusy(h, c, q.force))
  <2>1. PICK f, j, epoch, w :
           /\ IsGranted(h, f, c, q.mode) /\ Visits(order, f)
           /\ j = IF f.driver = h.driver THEN f ELSE Broadcast(f, DriverChanged(f.driver), order)
           /\ epoch = (IF q.mode = "drive" THEN f.driver.epoch ELSE 0) /\ epoch \in Nat
           /\ w = Append(ReplayOrSnapshot(h, q.after), Attached(h.sequence, epoch))
           /\ w \in Seq(Messages) /\ IsWelcome(w, h.log, h.sequence, UpTo(h.log, q.after), epoch)
           /\ g = SendAll(j, c, w)
    BY <1>3, AttachIs
  <2> HIDE DEF g
  <2>1a. q.mode \in Modes
    BY RequestFields
  <2>2. Keeps(h, j)
    BY <1>3, <2>1, <2>1a, JoinKeeps
  <2>3. Sound(j) /\ Dated(j.log, j.sequence)
    BY <2>2 DEF Keeps, Grows
  <2> DEFINE u == SendAll(j, c, w)
  <2>3a. Spares(j, u, c) /\ (~IsOpen(j, c) => u = j)
    BY <2>1, <2>3, SendAllSpares
  <2>5. g = u
    BY <2>1
  <2> HIDE DEF u
  <2>4. /\ Frame(j, u) /\ (~IsOpen(j, c) => u = j)
        /\ \A k \in Connections \ {c} : k \notin u.subscribers => u.outbound[k] = j.outbound[k]
    BY <2>3a DEF Spares
  <2>6. \A k \in Connections : ~IsOpen(j, k) => u.outbound[k] \in {j.outbound[k], <<>>}
    <3>1. ASSUME NEW k \in Connections, ~IsOpen(j, k) PROVE k \notin u.subscribers
      BY <2>3, <2>4, <3>1 DEF Frame, Sound
    <3>2. QED
      BY <2>4, <3>1
  <2>7. Keeps(j, u)
    BY <2>3, <2>4, <2>6, FrameKeeps
  <2>8. Keeps(h, g)
    BY <2>2, <2>5, <2>7, KeepsTrans
  <2>9. QED
    BY <2>8 DEF g
<1>4. QED
  BY <1>1, <1>2, <1>3

LEMMA ShortTail ==
  ASSUME NEW box \in Seq(Requests), Len(box) = 1
  PROVE  Tail(box) = <<>>
<1>1. Tail(box) \in Seq(Requests) /\ Len(Tail(box)) = 0
  OBVIOUS
<1>2. QED
  BY <1>1, EmptySeq

LEMMA AttachOther ==
  ASSUME NEW h, Sound(h), Dated(h.log, h.sequence), NEW c \in Connections,
         NEW q \in Requests, q.kind = "attach", NEW order, order \in SetToSeqs(h.subscribers \cup {c}),
         NEW k, k # c, NEW i \in Pumps, IsOf(h, k, i), NEW d, NEW box, NEW r, Reads(Seat(h, k), d, box, r, i)
  PROVE  Reads(Seat(HandleAttach(h, c, q, order), k), d, box, r, i)
<1> DEFINE g == HandleAttach(h, c, q, order)
<1>1. CASE ~IsOpen(h, c)
  BY <1>1 DEF HandleAttach
<1>2. CASE IsOpen(h, c) /\ q.mode = "drive" /\ IsBusy(h, c, q.force)
  <2>1. g = Send(h, c, Rejected(0)) /\ Rejected(0) \in Messages
    BY <1>2, MessageTypes DEF HandleAttach
  <2>2. Reads(Seat(Send(h, c, Rejected(0)), k), d, box, r, i)
    BY <2>1, SendOther
  <2>3. QED
    BY <2>1, <2>2
<1>3. CASE IsOpen(h, c) /\ ~(q.mode = "drive" /\ IsBusy(h, c, q.force))
  <2>1. PICK f, j, epoch, w :
           /\ IsGranted(h, f, c, q.mode) /\ Visits(order, f)
           /\ j = IF f.driver = h.driver THEN f ELSE Broadcast(f, DriverChanged(f.driver), order)
           /\ epoch = (IF q.mode = "drive" THEN f.driver.epoch ELSE 0) /\ epoch \in Nat
           /\ w = Append(ReplayOrSnapshot(h, q.after), Attached(h.sequence, epoch))
           /\ w \in Seq(Messages) /\ IsWelcome(w, h.log, h.sequence, UpTo(h.log, q.after), epoch)
           /\ g = SendAll(j, c, w)
    BY <1>3, AttachIs
  <2> HIDE DEF g
  <2>2. q.mode \in Modes
    BY RequestFields
  <2>3. Reads(Seat(j, k), d, box, r, i)
    BY <2>1, <2>2, JoinReads
  <2>4. Frame(f, j) /\ Sound(j)
    BY <2>1, <2>2, JoinFrame
  <2>5. IsOf(j, k, i)
    <3>1. IsOf(f, k, i)
      BY <2>1 DEF IsOf, IsGranted
    <3>2. QED
      BY <2>4, <3>1, FrameIsOf
  <2>6. Reads(Seat(SendAll(j, c, w), k), d, box, r, i)
    BY <2>1, <2>3, <2>4, <2>5, SendAllOther
  <2>7. QED
    BY <2>1, <2>6 DEF g
<1>4. QED
  BY <1>1, <1>2, <1>3

\* The connection that asks.
LEMMA AttachOwn ==
  ASSUME NEW h, Sound(h), Dated(h.log, h.sequence), NEW c \in Connections,
         NEW q \in Requests, q.kind = "attach", NEW order, order \in SetToSeqs(h.subscribers \cup {c}),
         NEW i \in Pumps, IsOf(h, c, i), NEW box \in Seq(Requests), box # <<>>, Head(box) = q,
         NEW r, r.cursor \in Int, NEW d, d = Len(h.log), Reads(Seat(h, c), d, box, r, i)
  PROVE  Reads(Seat(HandleAttach(h, c, q, order), c), d, Tail(box), r, i)
<1> DEFINE g == HandleAttach(h, c, q, order)
           s == Seat(h, c)
           t == Seat(g, c)
<1>1. CASE ~IsOpen(h, c)
  <2>1. g = h
    BY <1>1 DEF HandleAttach
  <2>2. Reads(s, d, Tail(box), r, i)
    BY ReadsTaken
  <2>3. QED
    BY <2>1, <2>2
<1>2. ASSUME IsOpen(h, c)
      PROVE  /\ IsFirst(s, box, r) /\ Tail(box) = <<>> /\ q.mode = r.mode /\ q.after = r.cursor
             /\ UpTo(s.log, r.cursor) \in 0 .. Len(s.log) /\ s.log = h.log /\ s.sequence = h.sequence
             /\ h.outbound[c] = <<>> /\ c \notin h.subscribers /\ h.owner[c] = i
  <2>1. /\ s.log = h.log /\ s.sequence = h.sequence /\ s.queue = h.outbound[c] /\ s.open
        /\ (s.subscribed <=> c \in h.subscribers) /\ Reads(s, d, box, r, i)
    BY <1>2, SeatFields
  <2> HIDE DEF s
  <2>2. 1 \in 1 .. Len(box) /\ box[1] = q
    OBVIOUS
  <2>3. IsFirst(s, box, r)
    BY <2>1, <2>2 DEF Reads, Boxed
  <2>4. Len(box) = 1 /\ q.mode = r.mode /\ q.after = r.cursor /\ s.queue = <<>> /\ ~s.subscribed
    BY <2>2, <2>3 DEF IsFirst
  <2>5. Tail(box) = <<>>
    BY <2>4, ShortTail
  <2>6. UpTo(s.log, r.cursor) \in 0 .. Len(s.log)
    BY <2>1, UpToIs
  <2>7. h.owner[c] = i
    BY <1>2 DEF IsOf, IsOpen
  <2>8. QED
    BY <2>1, <2>3, <2>4, <2>5, <2>6, <2>7
<1>3. CASE IsOpen(h, c) /\ q.mode = "drive" /\ IsBusy(h, c, q.force)
  <2> DEFINE m == Rejected(0)
             u == Send(h, c, m)
  <2>1. g = u /\ m \in Messages
    BY <1>3, MessageTypes DEF HandleAttach
  <2>2. /\ Frame(h, u)
        /\ IsOpen(u, c) => u.outbound[c] = Append(h.outbound[c], m)
        /\ ~IsOpen(u, c) => u.outbound[c] = h.outbound[c]
    BY <2>1, SendIs
  <2> HIDE DEF u, g
  <2>3. /\ t.log = h.log /\ t.sequence = h.sequence /\ ~t.subscribed
        /\ t.queue = <<>> \/ t.queue = <<m>>
    <3>1. Append(<<>>, m) = <<m>>
      OBVIOUS
    <3>2. g.log = h.log /\ g.sequence = h.sequence /\ c \notin g.subscribers
      BY <1>2, <1>3, <2>1, <2>2 DEF Frame
    <3> HIDE DEF m
    <3>3. g.outbound[c] = <<>> \/ g.outbound[c] = <<m>>
      BY <1>2, <1>3, <2>1, <2>2, <3>1
    <3>4. QED
      BY <3>2, <3>3, SeatFields
  <2>4. t.log = s.log /\ t.sequence = s.sequence /\ IsFirst(s, box, r) /\ r.mode = "drive" /\ Reads(s, d, box, r, i)
        /\ UpTo(s.log, r.cursor) \in 0 .. Len(s.log)
    BY <1>2, <1>3, <2>3
  <2>4a. ~t.subscribed /\ (t.queue = <<>> \/ t.queue = <<Rejected(0)>>)
    BY <2>3
  <2> HIDE DEF s, t
  <2>5. Reads(t, d, <<>>, r, i)
    BY <2>4, <2>4a, ReadsRefused
  <2>6. QED
    BY <1>2, <1>3, <2>5 DEF t, g
<1>4. CASE IsOpen(h, c) /\ ~(q.mode = "drive" /\ IsBusy(h, c, q.force))
  <2>1. PICK f, j, epoch, w :
           /\ IsGranted(h, f, c, q.mode) /\ Visits(order, f)
           /\ j = IF f.driver = h.driver THEN f ELSE Broadcast(f, DriverChanged(f.driver), order)
           /\ epoch = (IF q.mode = "drive" THEN f.driver.epoch ELSE 0) /\ epoch \in Nat
           /\ w = Append(ReplayOrSnapshot(h, q.after), Attached(h.sequence, epoch))
           /\ w \in Seq(Messages) /\ IsWelcome(w, h.log, h.sequence, UpTo(h.log, q.after), epoch)
           /\ g = SendAll(j, c, w)
    BY <1>4, AttachIs
  <2>1a. q.mode \in Modes /\ (q.mode = "drive" \/ q.mode = "view") /\ q.after \in Int
    BY RequestFields DEF Modes
  <2> HIDE DEF g
  <2>2. Frame(f, j) /\ Sound(j)
    BY <2>1, <2>1a, JoinFrame
  <2> DEFINE p == j.outbound[c]
  <2>3. AreDrivers(p) /\ (r.mode = "view" => p = <<>>)
    <3>1. CASE f.driver = h.driver
      <4>1. p = <<>>
        BY <1>2, <1>4, <2>1, <3>1 DEF IsGranted
      <4>2. QED
        BY <4>1 DEF AreDrivers
    <3>2. CASE f.driver # h.driver
      <4> DEFINE m == DriverChanged(f.driver)
      <4>1. f.driver \in Leases /\ Sound(f) /\ c \in f.subscribers /\ f.outbound = h.outbound
        BY <2>1, HostFields DEF IsGranted, Sound
      <4>2. m \in Messages /\ m.kind = "driver" /\ Freed.kind = "driver" /\ j = Broadcast(f, m, order)
        BY <2>1, <3>2, <4>1, MessageTypes
      <4> HIDE DEF m
      <4>3. Heard(f, j, c, m)
        BY <2>1, <4>1, <4>2, BroadcastIs
      <4>4. Extends(<<>>, p, {m, Freed})
        BY <1>2, <1>4, <4>1, <4>3 DEF Heard
      <4>5. p \in Seq(Messages)
        BY <2>2, HostFields DEF Sound
      <4>6. \A k \in 1 .. Len(p) : p[k] \in {m, Freed}
        BY <4>4 DEF Extends
      <4>7. r.mode # "view"
        BY <1>2, <1>4, <2>1, <3>2 DEF IsGranted
      <4>8. QED
        BY <4>2, <4>5, <4>6, <4>7 DEF AreDrivers
    <3>3. QED
      BY <3>1, <3>2
  <2>5. epoch = 0 => r.mode = "view"
    <3>1. q.mode = "drive" => f.driver.epoch > 0
      BY <2>1 DEF IsGranted
    <3>2. QED
      BY <1>2, <1>4, <2>1, <2>1a, <3>1
  <2> DEFINE u == SendAll(j, c, w)
  <2>6. g = u
    BY <2>1
  <2>7. Frame(j, u) /\ (~IsOpen(j, c) => u = j)
    BY <2>1, <2>2, SendAllSpares DEF Spares
  <2>7a. SentAll(j, u, c, w)
    BY <2>1, <2>2, SendAllSpares
  <2> HIDE DEF u
  <2>8. IsOpen(j, c) => \E n \in 0 .. Len(w) :
           /\ u.outbound[c] = p \o SubSeq(w, 1, n)
           /\ IsOpen(u, c) => n = Len(w) /\ u.owner = j.owner /\ u.driver = j.driver
    BY <2>7a DEF SentAll
  <2>9. /\ u.log = h.log /\ u.sequence = h.sequence
        /\ c \in u.subscribers <=> IsOpen(u, c)
        /\ IsOpen(u, c) => IsOpen(j, c)
    <3>1. f.log = h.log /\ f.sequence = h.sequence /\ c \in f.subscribers
      BY <2>1 DEF IsGranted
    <3>2. IsOpen(u, c) => IsOpen(j, c)
      BY <2>7 DEF Frame, IsOpen
    <3>3. QED
      BY <2>2, <2>7, <3>1, <3>2 DEF Frame
  <2>10. PICK x \in 0 .. Len(w) :
           /\ u.outbound[c] = p \o SubSeq(w, 1, x)
           /\ IsOpen(u, c) => x = Len(w) /\ u.driver = j.driver
    <3>1. CASE IsOpen(j, c)
      BY <2>8, <3>1
    <3>2. CASE ~IsOpen(j, c)
      <4>1. u = j /\ ~IsOpen(u, c) /\ 0 \in 0 .. Len(w)
        BY <2>1, <2>7, <3>2
      <4>2. p = p \o SubSeq(w, 1, 0)
        <5>1. SubSeq(w, 1, 0) = <<>>
          BY <2>1
        <5> HIDE DEF p
        <5>2. QED
          BY <2>3, <5>1 DEF AreDrivers
      <4>3. QED
        BY <4>1, <4>2
    <3>3. QED
      BY <3>1, <3>2
  <2>11. IsOpen(u, c) => Holds(u.driver, i, epoch)
    <3>1. ASSUME IsOpen(u, c), epoch # 0 PROVE u.driver = [owner |-> i, epoch |-> epoch]
      <4>1. /\ q.mode = "drive" /\ epoch = f.driver.epoch /\ f.driver.owner = h.owner[c] /\ f.owner = h.owner
            /\ c \in f.subscribers /\ f.driver \in Leases
        BY <2>1, <2>1a, <3>1, HostFields DEF IsGranted, Sound
      <4>2. j.driver = f.driver
        BY <2>2, <2>9, <3>1, <4>1, JoinHolds
      <4>3. u.driver = f.driver /\ f.driver.owner = i
        BY <1>2, <1>4, <2>10, <3>1, <4>1, <4>2
      <4>4. QED
        BY <4>1, <4>3, LeaseFields
    <3>2. QED
      BY <3>1 DEF Holds
  <2> HIDE DEF p
  <2>12. /\ t.log = h.log /\ t.sequence = h.sequence /\ t.queue = p \o SubSeq(w, 1, x)
         /\ t.driver = u.driver /\ (t.open <=> IsOpen(u, c)) /\ (t.subscribed <=> IsOpen(u, c))
    <3>1. /\ t.log = g.log /\ t.sequence = g.sequence /\ t.queue = g.outbound[c] /\ t.driver = g.driver
          /\ (t.open <=> IsOpen(g, c)) /\ (t.subscribed <=> c \in g.subscribers)
      BY SeatFields
    <3> HIDE DEF t
    <3>2. QED
      BY <2>6, <2>9, <2>10, <3>1
  <2>13. /\ t.open => x = Len(w) /\ t.subscribed /\ Holds(t.driver, i, epoch)
         /\ t.subscribed => t.open
    BY <2>10, <2>11, <2>12, SMTT(30)
  <2>14. /\ d = Len(s.log) /\ Reads(s, d, box, r, i) /\ IsFirst(s, box, r) /\ UpTo(s.log, r.cursor) \in 0 .. Len(s.log)
         /\ t.log = s.log /\ t.sequence = s.sequence /\ IsWelcome(w, s.log, s.sequence, UpTo(s.log, r.cursor), epoch)
    BY <1>2, <1>4, <2>1, <2>12
  <2> HIDE DEF s, t
  <2>15. Reads(t, d, <<>>, r, i)
    <3>1. IsAfter(t.queue, p, w, x)
      BY <2>10, <2>12 DEF IsAfter
    <3>2. QED
      BY <2>1, <2>3, <2>5, <2>13, <2>14, <3>1, ReadsWelcome
  <2>16. QED
    BY <1>2, <1>4, <2>15 DEF t, g
<1>5. QED
  BY <1>1, <1>3, <1>4

-----------------------------------------------------------------------------
(* The other requests are handled *)

NoAttach(box) == \A x \in 1 .. Len(box) : box[x].kind # "attach"

\* The boxes before and after request q of connection c is taken: of connection k.
Turn(c, q, k, box, b) ==
  IF k = c THEN box \in Seq(Requests) /\ box # <<>> /\ Head(box) = q /\ b = Tail(box) ELSE b = box

LEMMA TurnReads ==
  ASSUME NEW c, NEW q, NEW k, NEW box, NEW b, Turn(c, q, k, box, b),
         NEW s, NEW d, NEW r, NEW i, Reads(s, d, box, r, i)
  PROVE  Reads(s, d, b, r, i)
BY ReadsTaken DEF Turn

LEMMA OperationOwn ==
  ASSUME NEW h, Sound(h), NEW c \in Connections, IsOpen(h, c),
         NEW q, q.kind \in {"acquire", "release", "command"}, NEW box, NEW b, Turn(c, q, c, box, b),
         NEW i \in Pumps, IsOf(h, c, i), NEW d, NEW r, Reads(Seat(h, c), d, box, r, i)
  PROVE  /\ ~IsJoining(r) /\ NoAttach(b) /\ h.owner[c] = i
         /\ q.kind = "acquire" => c \in h.subscribers
<1>1. /\ box \in Seq(Requests) /\ Len(box) \in Nat /\ 1 \in 1 .. Len(box) /\ box[1] = q
      /\ Len(b) = Len(box) - 1 /\ \A x \in 1 .. Len(b) : b[x] = box[x + 1] /\ x + 1 \in 1 .. Len(box)
  BY DEF Turn
<1> DEFINE s == Seat(h, c)
<1>2. s.open /\ (s.subscribed <=> c \in h.subscribers) /\ Boxed(s, box, r)
  BY SeatFields DEF Reads
<1> HIDE DEF s
<1>3. ~IsJoining(r) /\ \A x \in 1 .. Len(box) : box[x].kind # "attach"
  BY <1>1, <1>2 DEF Boxed, IsFirst
<1>4. NoAttach(b)
  BY <1>1, <1>3 DEF NoAttach
<1>5. q.kind = "acquire" => c \in h.subscribers
  BY <1>1, <1>2 DEF Boxed
<1>6. QED
  BY <1>3, <1>4, <1>5 DEF IsOf, IsOpen

\* The answer, to connection c.
LEMMA AnswerReads ==
  ASSUME NEW h, Sound(h), NEW c \in Connections, NEW m \in Messages, m.kind \in {"accepted", "rejected", "driven"},
         m # Rejected(0), NEW k, NEW i \in Pumps, IsOf(h, k, i), NEW d, NEW box, NEW r, Reads(Seat(h, k), d, box, r, i),
         k = c => /\ ~IsJoining(r) /\ NoAttach(box)
                  /\ m.kind = "driven" /\ IsOpen(h, c) => c \in h.subscribers /\ Holds(h.driver, i, Says(m, i))
  PROVE  Reads(Seat(Send(h, c, m), k), d, box, r, i)
<1>1. CASE k # c
  BY <1>1, SendOther
<1>2. CASE k = c
  <2>1. \A x \in 1 .. Len(h.outbound[k]) : h.outbound[k][x] # Rejected(0)
    BY <1>2, SeatFields DEF Reads, Answered
  <2>2. \A x \in 1 .. Len(box) : box[x].kind # "attach"
    BY <1>2 DEF NoAttach
  <2>3. m.kind = "driven" /\ IsOpen(h, k) => k \in h.subscribers /\ Holds(h.driver, i, Says(m, i))
    BY <1>2
  <2>4. Reads(Seat(Send(h, k, m), k), d, box, r, i)
    BY <2>1, <2>2, <2>3, SendOwn
  <2>5. QED
    BY <1>2, <2>4
<1>3. QED
  BY <1>1, <1>2

LEMMA AnswerTypes ==
  ASSUME NEW id \in Nat, id # 0
  PROVE  /\ Accepted(id) # Rejected(0) /\ Rejected(id) # Rejected(0)
         /\ \A l : Driver(id, l) # Rejected(0)
         /\ Accepted(id) \in Messages /\ Accepted(id).kind = "accepted"
         /\ Rejected(id) \in Messages /\ Rejected(id).kind = "rejected"
<1>1. Accepted(id).kind = "accepted" /\ Rejected(0).kind = "rejected" /\ Rejected(id).id = id /\ Rejected(0).id = 0
  BY DEF Accepted, Rejected
<1>2. \A l : Driver(id, l).kind = "driven"
  BY DEF Driver
<1>3. QED
  BY <1>1, <1>2, MessageTypes

\* What the handling of request q of connection c does to connection k.
Serves(h, g, c, q, n) ==
  /\ Keeps(h, g)
  /\ \A k, i, box, b, r :
       /\ i \in Pumps /\ IsOf(h, k, i) /\ r.cursor \in Int /\ r.cursor <= h.sequence
       /\ Turn(c, q, k, box, b) /\ Reads(Seat(h, k), Len(h.log), box, r, i)
       => Reads(Seat(g, k), Len(g.log), b, r, i)

\* A request of a connection that is closed does nothing.
LEMMA ServesNothing ==
  ASSUME NEW h, Sound(h), Dated(h.log, h.sequence), NEW c, NEW q, NEW n
  PROVE  Serves(h, h, c, q, n)
<1>1. Keeps(h, h)
  BY FrameSame, FrameKeeps
<1>2. QED
  BY <1>1, TurnReads DEF Serves

LEMMA ServesAttach ==
  ASSUME NEW h, Sound(h), Dated(h.log, h.sequence), NEW c \in Connections,
         NEW q \in Requests, q.kind = "attach", NEW order, order \in SetToSeqs(h.subscribers \cup {c}), NEW n
  PROVE  Serves(h, HandleAttach(h, c, q, order), c, q, n)
<1> DEFINE g == HandleAttach(h, c, q, order)
<1>1. Keeps(h, g)
  BY AttachKeeps
<1>2. g.log = h.log
  <2>1. CASE ~IsOpen(h, c)
    BY <2>1 DEF HandleAttach
  <2>2. CASE IsOpen(h, c) /\ q.mode = "drive" /\ IsBusy(h, c, q.force)
    <3> DEFINE m == Rejected(0)
               u == Send(h, c, m)
    <3>1. g = u /\ m \in Messages
      BY <2>2, MessageTypes DEF HandleAttach
    <3>2. Frame(h, u)
      BY <3>1, SendIs
    <3> HIDE DEF g, u
    <3>3. QED
      BY <3>1, <3>2 DEF Frame, g
  <2>3. CASE IsOpen(h, c) /\ ~(q.mode = "drive" /\ IsBusy(h, c, q.force))
    <3>1. PICK f, j, epoch, w :
             /\ IsGranted(h, f, c, q.mode) /\ Visits(order, f)
             /\ j = IF f.driver = h.driver THEN f ELSE Broadcast(f, DriverChanged(f.driver), order)
             /\ epoch = (IF q.mode = "drive" THEN f.driver.epoch ELSE 0) /\ epoch \in Nat
             /\ w = Append(ReplayOrSnapshot(h, q.after), Attached(h.sequence, epoch))
             /\ w \in Seq(Messages) /\ IsWelcome(w, h.log, h.sequence, UpTo(h.log, q.after), epoch)
             /\ g = SendAll(j, c, w)
      BY <2>3, AttachIs
    <3>1a. q.mode \in Modes
      BY RequestFields
    <3> HIDE DEF g
    <3>2. Frame(f, j) /\ Sound(j)
      BY <3>1, <3>1a, JoinFrame
    <3> DEFINE u == SendAll(j, c, w)
    <3>3. Frame(j, u)
      BY <3>1, <3>2, SendAllSpares DEF Spares
    <3>4. g = u
      BY <3>1
    <3> HIDE DEF u
    <3>5. g.log = h.log
      BY <3>1, <3>2, <3>3, <3>4 DEF Frame, IsGranted
    <3>6. QED
      BY <3>5 DEF g
  <2>4. QED
    BY <2>1, <2>2, <2>3
<1>3. ASSUME NEW k, NEW i, NEW box, NEW b, NEW r,
             i \in Pumps, IsOf(h, k, i), r.cursor \in Int, Turn(c, q, k, box, b), Reads(Seat(h, k), Len(h.log), box, r, i)
      PROVE  Reads(Seat(g, k), Len(g.log), b, r, i)
  <2>1. CASE k # c
    <3>1. Reads(Seat(g, k), Len(h.log), box, r, i)
      BY <1>3, <2>1, AttachOther
    <3> HIDE DEF g
    <3>2. QED
      BY <1>2, <1>3, <2>1, <3>1 DEF Turn
  <2>2. CASE k = c
    <3>1. box \in Seq(Requests) /\ box # <<>> /\ Head(box) = q /\ b = Tail(box)
      BY <1>3, <2>2 DEF Turn
    <3>2. IsOf(h, c, i) /\ Reads(Seat(h, c), Len(h.log), box, r, i)
      BY <1>3, <2>2
    <3>3. Reads(Seat(g, c), Len(h.log), Tail(box), r, i)
      BY <1>3, <3>1, <3>2, AttachOwn
    <3> HIDE DEF g
    <3>4. QED
      BY <1>2, <2>2, <3>1, <3>3
  <2>3. QED
    BY <2>1, <2>2
<1> HIDE DEF g
<1>4. Serves(h, g, c, q, n)
  BY <1>1, <1>3 DEF Serves
<1>5. QED
  BY <1>4 DEF g

\* The leader answers: g is Send(j, c, m), where j keeps what h promises.
LEMMA ServesAnswer ==
  ASSUME NEW h, Sound(h), Dated(h.log, h.sequence), NEW c \in Connections, IsOpen(h, c),
         NEW q \in Requests, q.kind \in {"acquire", "release", "command"}, NEW n,
         NEW j, Sound(j), Keeps(h, j),
         \A k, i, box, r : /\ i \in Pumps /\ IsOf(h, k, i) /\ r.cursor \in Int /\ r.cursor <= h.sequence
                           /\ k = c => (q.kind = "acquire" => c \in h.subscribers)
                           /\ Reads(Seat(h, k), Len(h.log), box, r, i)
                           => Reads(Seat(j, k), Len(j.log), box, r, i),
         NEW m \in Messages, m.kind \in {"accepted", "rejected", "driven"}, m # Rejected(0),
         m.kind = "driven" /\ IsOpen(j, c) => c \in j.subscribers /\ \A i \in Pumps : h.owner[c] = i => Holds(j.driver, i, Says(m, i))
  PROVE  Serves(h, Send(j, c, m), c, q, n)
<1> DEFINE g == Send(j, c, m)
<1>1. Dated(j.log, j.sequence)
  BY DEF Keeps, Grows
<1>2. Keeps(h, g) /\ g.log = j.log
  <2>1. Keeps(j, g) /\ Frame(j, g)
    BY <1>1, SendKeeps, SendIs
  <2> HIDE DEF g
  <2>2. QED
    BY <2>1, KeepsTrans DEF Frame
<1>3. ASSUME NEW k, NEW i, NEW box, NEW b, NEW r,
             i \in Pumps, IsOf(h, k, i), r.cursor \in Int, r.cursor <= h.sequence,
             Turn(c, q, k, box, b), Reads(Seat(h, k), Len(h.log), box, r, i)
      PROVE  Reads(Seat(g, k), Len(g.log), b, r, i)
  <2>1. Reads(Seat(h, k), Len(h.log), b, r, i)
    BY <1>3, TurnReads
  <2>2. k = c => ~IsJoining(r) /\ NoAttach(b) /\ h.owner[c] = i /\ (q.kind = "acquire" => c \in h.subscribers)
    <3>1. ASSUME k = c PROVE IsOf(h, c, i) /\ Turn(c, q, c, box, b) /\ Reads(Seat(h, c), Len(h.log), box, r, i)
      BY <1>3, <3>1
    <3>2. QED
      BY <1>3, <3>1, OperationOwn
  <2>3. Reads(Seat(j, k), Len(j.log), b, r, i)
    BY <1>3, <2>1, <2>2
  <2>4. IsOf(j, k, i)
    BY <1>3 DEF IsOf, Keeps
  <2>5. k = c => /\ ~IsJoining(r) /\ NoAttach(b)
                 /\ m.kind = "driven" /\ IsOpen(j, c) => c \in j.subscribers /\ Holds(j.driver, i, Says(m, i))
    BY <1>3, <2>2
  <2>6. Reads(Seat(g, k), Len(j.log), b, r, i)
    BY <1>3, <2>3, <2>4, <2>5, AnswerReads
  <2> HIDE DEF g
  <2>7. QED
    BY <1>2, <2>6
<1> HIDE DEF g
<1>4. Serves(h, g, c, q, n)
  BY <1>2, <1>3 DEF Serves
<1>5. QED
  BY <1>4 DEF g

\* An operation is refused, or was done before.
LEMMA ServesPlain ==
  ASSUME NEW h, Sound(h), Dated(h.log, h.sequence), NEW c \in Connections, IsOpen(h, c),
         NEW q \in Requests, q.kind \in {"acquire", "release", "command"}, NEW n,
         NEW m \in Messages, m.kind \in {"accepted", "rejected"}, m # Rejected(0)
  PROVE  Serves(h, Send(h, c, m), c, q, n)
<1>1. Keeps(h, h)
  BY FrameSame, FrameKeeps
<1>2. QED
  BY <1>1, ServesAnswer

LEMMA ServesAcquire ==
  ASSUME NEW h, Sound(h), Dated(h.log, h.sequence), NEW c \in Connections,
         NEW q \in Requests, q.kind = "acquire", NEW order, order \in SetToSeqs(h.subscribers \cup {c}), NEW n
  PROVE  Serves(h, HandleAcquire(h, c, q, order), c, q, n)
<1>0. q.id \in Nat /\ q.id # 0 /\ "drive" \in Modes
  BY RequestFields DEF Modes
<1>1. CASE ~IsOpen(h, c)
  <2>1. HandleAcquire(h, c, q, order) = h
    BY <1>1 DEF HandleAcquire
  <2>2. QED
    BY <2>1, ServesNothing
<1>2. CASE IsOpen(h, c) /\ IsBusy(h, c, q.force)
  <2> DEFINE m == Rejected(q.id)
  <2>1. HandleAcquire(h, c, q, order) = Send(h, c, m)
    BY <1>2 DEF HandleAcquire
  <2>2. m \in Messages /\ m.kind = "rejected" /\ m # Rejected(0)
    BY <1>0, AnswerTypes
  <2> HIDE DEF m
  <2>3. Serves(h, Send(h, c, m), c, q, n)
    BY <1>2, <2>2, ServesPlain
  <2>4. QED
    BY <2>1, <2>3
<1>3. CASE IsOpen(h, c) /\ ~IsBusy(h, c, q.force)
  <2> DEFINE j == Join(h, c, "drive", order)
  <2>1. PICK f : /\ IsGranted(h, f, c, "drive") /\ Granted(h, c, "drive").driver = f.driver /\ Visits(order, f)
                 /\ j = IF f.driver = h.driver THEN f ELSE Broadcast(f, DriverChanged(f.driver), order)
    BY <1>0, <1>3, JoinIs
  <2> DEFINE m == Driver(q.id, f.driver)
  <2>2. HandleAcquire(h, c, q, order) = Send(j, c, m)
    BY <1>3, <2>1 DEF HandleAcquire
  <2>3. f.driver \in Leases /\ f.driver.owner = h.owner[c] /\ f.driver.epoch > 0 /\ c \in f.subscribers /\ f.owner = h.owner
    BY <2>1, HostFields DEF IsGranted, Sound
  <2>4. m \in Messages /\ m.kind = "driven" /\ m.lease = f.driver /\ m # Rejected(0)
    BY <1>0, <2>3, MessageTypes, AnswerTypes
  <2> HIDE DEF j, m
  <2>5. Frame(f, j) /\ Sound(j)
    BY <1>0, <2>1, JoinFrame
  <2>6. Keeps(h, j)
    BY <1>0, <1>3, <2>1, JoinKeeps
  <2>7. IsOpen(j, c) => c \in j.subscribers /\ j.driver = f.driver
    BY <2>3, <2>5, JoinHolds
  <2>8. ASSUME IsOpen(j, c), NEW i \in Pumps, h.owner[c] = i PROVE Holds(j.driver, i, Says(m, i))
    <3>1. Says(m, i) = f.driver.epoch /\ j.driver = [owner |-> i, epoch |-> f.driver.epoch]
      BY <2>3, <2>4, <2>7, <2>8, LeaseFields DEF Says
    <3>2. QED
      BY <3>1 DEF Holds
  <2>9. ASSUME NEW k, NEW i, NEW box, NEW r,
               i \in Pumps, IsOf(h, k, i), k = c => c \in h.subscribers, Reads(Seat(h, k), Len(h.log), box, r, i)
        PROVE  Reads(Seat(j, k), Len(j.log), box, r, i)
    <3>1. Reads(Seat(j, k), Len(h.log), box, r, i)
      BY <1>0, <2>1, <2>9, JoinReads
    <3>2. j.log = h.log
      BY <2>1, <2>5 DEF Frame, IsGranted
    <3>3. QED
      BY <3>1, <3>2
  <2>10. Serves(h, Send(j, c, m), c, q, n)
    BY <1>3, <2>4, <2>5, <2>6, <2>7, <2>8, <2>9, ServesAnswer
  <2>11. QED
    BY <2>2, <2>10
<1>4. QED
  BY <1>1, <1>2, <1>3

LEMMA ServesRelease ==
  ASSUME NEW h, Sound(h), Dated(h.log, h.sequence), NEW c \in Connections,
         NEW q \in Requests, q.kind = "release", NEW order, order \in SetToSeqs(h.subscribers \cup {c}), NEW n
  PROVE  Serves(h, HandleRelease(h, c, q, order), c, q, n)
<1>0. q.id \in Nat /\ q.id # 0
  BY RequestFields
<1>1. CASE ~IsOpen(h, c)
  <2>1. HandleRelease(h, c, q, order) = h
    BY <1>1 DEF HandleRelease
  <2>2. QED
    BY <2>1, ServesNothing
<1>2. CASE IsOpen(h, c) /\ (c \notin h.subscribers \/ h.driver.owner # h.owner[c])
  <2> DEFINE m == Rejected(q.id)
  <2>1. HandleRelease(h, c, q, order) = Send(h, c, m)
    BY <1>2 DEF HandleRelease
  <2>2. m \in Messages /\ m.kind = "rejected" /\ m # Rejected(0)
    BY <1>0, AnswerTypes
  <2> HIDE DEF m
  <2>3. Serves(h, Send(h, c, m), c, q, n)
    BY <1>2, <2>2, ServesPlain
  <2>4. QED
    BY <2>1, <2>3
<1>3. CASE IsOpen(h, c) /\ ~(c \notin h.subscribers \/ h.driver.owner # h.owner[c])
  <2> DEFINE f == [h EXCEPT !.driver = NoLease]
             j == Broadcast(f, DriverChanged(NoLease), order)
             m == Driver(q.id, NoLease)
  <2>1. HandleRelease(h, c, q, order) = Send(j, c, m)
    BY <1>3 DEF HandleRelease
  <2>2. h \in Hosts /\ h.subscribers \in SUBSET Connections /\ NoLease \in Leases /\ NoLease.owner = NoClient
    BY HostFields, LeaseTypes DEF Sound
  <2>3. /\ f \in Hosts /\ f.driver = NoLease /\ f.owner = h.owner /\ f.subscribers = h.subscribers
        /\ f.log = h.log /\ f.sequence = h.sequence /\ f.outbound = h.outbound
    BY <2>2 DEF Hosts
  <2> HIDE DEF f
  <2>4. Sound(f)
    BY <2>3 DEF Sound, IsOpen
  <2>5. Visits(order, f)
    <3>1. h.subscribers \cup {c} \in SUBSET Connections /\ f.subscribers \subseteq h.subscribers \cup {c}
      BY <2>2, <2>3
    <3>2. QED
      BY <3>1, OrderVisits
  <2>6. Frame(f, j) /\ Hushed(f, j)
    <3>1. DriverChanged(NoLease) \in Messages
      BY <2>2, MessageTypes
    <3>2. QED
      BY <2>4, <2>5, <3>1, BroadcastIs, BroadcastHushed
  <2>7. m \in Messages /\ m.kind = "driven" /\ m.lease = NoLease /\ m # Rejected(0)
    BY <1>0, <2>2, MessageTypes, AnswerTypes
  <2>7a. Changes(h, f, NoLease, c)
    BY <2>3 DEF Changes
  <2>8. ASSUME NEW k, NEW i, NEW box, NEW r,
               i \in Pumps, IsOf(h, k, i), Reads(Seat(h, k), Len(h.log), box, r, i)
        PROVE  Reads(Seat(j, k), Len(h.log), box, r, i)
    <3>1. k # c \/ c \in h.subscribers
      BY <1>3
    <3>2. QED
      BY <2>4, <2>5, <2>7a, <2>8, <3>1, BroadcastReads
  <2> HIDE DEF j, m
  <2>9. Sound(j) /\ j.log = h.log
    BY <2>3, <2>4, <2>6, FrameSound DEF Frame
  <2>10. Keeps(h, j)
    <3>1. \A k \in Connections : ~IsOpen(h, k) => j.outbound[k] \in {h.outbound[k], <<>>}
      BY <2>3, <2>6 DEF Hushed, IsOpen
    <3>2. QED
      BY <2>3, <2>4, <2>6, <3>1, FrameKeeps
  <2>11. IsOpen(j, c) => c \in j.subscribers
    BY <1>3, <2>3, <2>6 DEF Frame
  <2>12. \A i \in Pumps : Holds(j.driver, i, Says(m, i))
    BY <2>2, <2>7, Constants DEF Says, Holds
  <2>13. Serves(h, Send(j, c, m), c, q, n)
    BY <1>3, <2>7, <2>8, <2>9, <2>10, <2>11, <2>12, ServesAnswer
  <2>14. QED
    BY <2>1, <2>13
<1>4. QED
  BY <1>1, <1>2, <1>3

LEMMA ServesCommand ==
  ASSUME NEW h, Sound(h), Dated(h.log, h.sequence), NEW c \in Connections,
         NEW q \in Requests, q.kind = "command", NEW order, order \in SetToSeqs(h.subscribers \cup {c}), NEW n \in Nat
  PROVE  Serves(h, HandleCommand(h, c, q, n, order), c, q, n)
<1>0. q.id \in Nat /\ q.id # 0
  BY RequestFields
<1>1. CASE ~IsOpen(h, c)
  <2>1. HandleCommand(h, c, q, n, order) = h
    BY <1>1 DEF HandleCommand
  <2>2. QED
    BY <2>1, ServesNothing
<1>2. CASE IsOpen(h, c) /\ ~Applies(h, c, q)
  <2> DEFINE m == IF c \in h.subscribers /\ IsDuplicate(h, q) THEN Accepted(q.id) ELSE Rejected(q.id)
  <2>1. HandleCommand(h, c, q, n, order) = Send(h, c, m)
    BY <1>2 DEF HandleCommand
  <2>2. m \in Messages /\ m.kind \in {"accepted", "rejected"} /\ m # Rejected(0)
    BY <1>0, AnswerTypes
  <2> HIDE DEF m
  <2>3. Serves(h, Send(h, c, m), c, q, n)
    BY <1>2, <2>2, ServesPlain
  <2>4. QED
    BY <2>1, <2>3
<1>3. CASE IsOpen(h, c) /\ Applies(h, c, q)
  <2> DEFINE f == [h EXCEPT !.committed = @ \cup {q.id}]
             j == Published(f, n, TRUE, order)
             m == Accepted(q.id)
  <2>1. HandleCommand(h, c, q, n, order) = Send(j, c, m)
    BY <1>3 DEF HandleCommand
  <2>2. h \in Hosts /\ h.subscribers \in SUBSET Connections
    BY HostFields DEF Sound
  <2>3. /\ f \in Hosts /\ f.driver = h.driver /\ f.owner = h.owner /\ f.subscribers = h.subscribers
        /\ f.log = h.log /\ f.sequence = h.sequence /\ f.outbound = h.outbound /\ f.epoch = h.epoch
    BY <1>0, <2>2 DEF Hosts
  <2> HIDE DEF f
  <2>4. Sound(f) /\ Dated(f.log, f.sequence)
    BY <2>3 DEF Sound, IsOpen
  <2>5. Visits(order, f)
    <3>1. h.subscribers \cup {c} \in SUBSET Connections /\ f.subscribers \subseteq h.subscribers \cup {c}
      BY <2>2, <2>3
    <3>2. QED
      BY <3>1, OrderVisits
  <2>6. /\ Sound(j) /\ Keeps(f, j)
        /\ \A k, i, box, r :
             i \in Pumps /\ IsOf(f, k, i) /\ r.cursor \in Int /\ r.cursor <= f.sequence
             /\ Reads(Seat(f, k), Len(f.log), box, r, i)
             => Reads(Seat(j, k), Len(j.log), box, r, i)
    BY <2>4, <2>5, PublishedKeeps
  <2>7. m \in Messages /\ m.kind = "accepted" /\ m # Rejected(0)
    BY <1>0, AnswerTypes
  <2> HIDE DEF j, m
  <2>8. Keeps(h, j)
    <3>1. Keeps(h, f)
      BY <2>3, <2>4, GrowsSame DEF Keeps
    <3>2. QED
      BY <2>6, <3>1, KeepsTrans
  <2>9. ASSUME NEW k, NEW i, NEW box, NEW r,
               i \in Pumps, IsOf(h, k, i), r.cursor \in Int, r.cursor <= h.sequence, Reads(Seat(h, k), Len(h.log), box, r, i)
        PROVE  Reads(Seat(j, k), Len(j.log), box, r, i)
    <3>1. Seat(f, k) = Seat(h, k)
      BY <2>3 DEF Seat, IsOpen
    <3>2. IsOf(f, k, i)
      BY <2>3, <2>9 DEF IsOf
    <3>3. QED
      BY <2>3, <2>6, <2>9, <3>1, <3>2
  <2>10. Serves(h, Send(j, c, m), c, q, n)
    BY <1>3, <2>6, <2>7, <2>8, <2>9, ServesAnswer
  <2>11. QED
    BY <2>1, <2>10
<1>4. QED
  BY <1>1, <1>2, <1>3

\* The end of a connection, which no pump has any more.
LEMMA ServesClosed ==
  ASSUME NEW h, Sound(h), Dated(h.log, h.sequence), NEW c \in Connections, NEW q, q.kind = "closed", NEW n
  PROVE  Serves(h, [Disconnect(h, c) EXCEPT !.outbound[c] = <<>>], c, q, n)
<1> DEFINE j == Disconnect(h, c)
           o == [j.outbound EXCEPT ![c] = <<>>]
           g == [j EXCEPT !.outbound[c] = <<>>]
<1>1. /\ Frame(h, j) /\ ~IsOpen(j, c)
      /\ \A k \in Connections : Extends(h.outbound[k], j.outbound[k], {Freed})
      /\ \A k \in Connections : k \notin j.subscribers => j.outbound[k] = h.outbound[k]
  BY DisconnectIs
<1> HIDE DEF j
<1>2. j \in Hosts /\ j.outbound \in [Connections -> Seq(Messages)] /\ <<>> \in Seq(Messages)
  BY <1>1, HostFields DEF Frame
<1>3. /\ o \in [Connections -> Seq(Messages)] /\ o[c] = <<>>
      /\ \A k \in Connections \ {c} : o[k] = j.outbound[k]
  BY <1>2
<1>4. g = [j EXCEPT !.outbound = o]
  BY <1>2 DEF Hosts
<1> HIDE DEF o, g
<1>5. /\ g \in Hosts /\ g.outbound = o /\ g.log = j.log /\ g.sequence = j.sequence /\ g.committed = j.committed
      /\ g.epoch = j.epoch /\ g.saved = j.saved /\ g.forgot = j.forgot
      /\ g.owner = j.owner /\ g.driver = j.driver /\ g.subscribers = j.subscribers
  BY <1>2, <1>3, <1>4 DEF Hosts
<1>6. Frame(h, g)
  BY <1>1, <1>5 DEF Frame, IsOpen
<1>7. \A k \in Connections : ~IsOpen(h, k) => g.outbound[k] \in {h.outbound[k], <<>>}
  <2>1. ASSUME NEW k \in Connections, ~IsOpen(h, k) PROVE k \notin j.subscribers
    BY <1>1, <2>1 DEF Frame, Sound
  <2>2. ASSUME NEW k \in Connections, ~IsOpen(h, k) PROVE g.outbound[k] \in {h.outbound[k], <<>>}
    BY <1>1, <1>3, <1>5, <2>1, <2>2
  <2>3. QED
    BY <2>2
<1>8. Keeps(h, g)
  BY <1>6, <1>7, FrameKeeps
<1>9. ASSUME NEW k, NEW i, NEW box, NEW b, NEW r,
             i \in Pumps, IsOf(h, k, i), Turn(c, q, k, box, b), Reads(Seat(h, k), Len(h.log), box, r, i)
      PROVE  Reads(Seat(g, k), Len(g.log), b, r, i)
  <2>1. CASE k = c
    <3>1. box \in Seq(Requests) /\ 1 \in 1 .. Len(box) /\ box[1] = q
      BY <1>9, <2>1 DEF Turn
    <3>2. QED
      BY <1>9, <3>1 DEF Reads, Boxed
  <2>2. CASE k # c
    <3>1. k \in Connections \ {c}
      BY <1>9, <2>2 DEF IsOf
    <3>2. g.outbound[k] = j.outbound[k] /\ g.log = h.log
      BY <1>3, <1>5, <1>6, <3>1 DEF Frame
    <3>3. Extends(h.outbound[k], g.outbound[k], {Freed})
      BY <1>1, <3>1, <3>2
    <3>4. k \notin h.subscribers => g.outbound[k] = h.outbound[k]
      BY <1>1, <3>1, <3>2 DEF Frame
    <3>5. Reads(Seat(g, k), Len(h.log), box, r, i)
      BY <1>6, <1>9, <3>3, <3>4, FrameReads
    <3>6. QED
      BY <1>9, <2>2, <3>2, <3>5 DEF Turn
  <2>3. QED
    BY <2>1, <2>2
<1>10. Serves(h, g, c, q, n)
  BY <1>8, <1>9 DEF Serves
<1>11. QED
  BY <1>10 DEF g, j

LEMMA ServesRequest ==
  ASSUME NEW h, Sound(h), Dated(h.log, h.sequence), NEW c \in Connections,
         NEW q \in Requests, NEW order, order \in SetToSeqs(h.subscribers \cup {c}), NEW n \in Nat
  PROVE  Serves(h, HandleRequest(h, c, q, n, order), c, q, n)
<1>1. CASE q.kind = "attach"
  BY <1>1, ServesAttach DEF HandleRequest
<1>2. CASE q.kind = "acquire"
  BY <1>2, ServesAcquire DEF HandleRequest
<1>3. CASE q.kind = "release"
  BY <1>3, ServesRelease DEF HandleRequest
<1>4. CASE q.kind = "command"
  BY <1>4, ServesCommand DEF HandleRequest
<1>5. CASE q.kind = "closed"
  BY <1>5, ServesClosed DEF HandleRequest
<1>6. QED
  BY <1>1, <1>2, <1>3, <1>4, <1>5, RequestFields

-----------------------------------------------------------------------------
(* What a pump does by itself: r becomes r2 *)

\* The client takes the head of the queue of its connection.
IsTaken(s, t) ==
  /\ t.log = s.log /\ t.sequence = s.sequence /\ t.driver = s.driver
  /\ (t.open <=> s.open) /\ (t.subscribed <=> s.subscribed)
  /\ s.queue # <<>> /\ t.queue = Tail(s.queue)

\* Message m moves what it shows, and what it believes.
IsMoved(s, m, r, r2) ==
  \A b \in 0 .. Len(s.log) :
    IsMove(s.log, s.sequence, m, UpTo(s.log, r.cursor), b) => UpTo(s.log, r2.cursor) = b

IsConvinced(m, r, r2, i) ==
  /\ m.kind \in {"driver", "attached"} => r2.lease = Says(m, i)
  /\ m.kind = "driven" => r2.lease \in {r.lease, Says(m, i)}
  /\ m.kind \notin Marks => r2.lease = r.lease

\* It goes on joining, or is answered.
IsDone(m, r, r2) ==
  /\ IsJoining(r2) => /\ r2.phase = r.phase /\ m.kind # "attached" /\ m # Rejected(0)
                      /\ m.kind # "driver" => r2.mode = r.mode
  /\ IsJoining(r) /\ ~IsJoining(r2) => m.kind = "attached" \/ m = Rejected(0)

LEMMA TakenFields ==
  ASSUME NEW s, NEW t, IsTaken(s, t), s.queue \in Seq(Messages)
  PROVE  /\ t.queue \in Seq(Messages) /\ Len(s.queue) \in Nat /\ Len(s.queue) > 0
         /\ Len(t.queue) = Len(s.queue) - 1 /\ Head(s.queue) = s.queue[1] /\ Head(s.queue) \in Messages
         /\ \A k \in 1 .. Len(t.queue) : t.queue[k] = s.queue[k + 1] /\ k + 1 \in 1 .. Len(s.queue)
<1>1. s.queue # <<>> /\ t.queue = Tail(s.queue)
  BY DEF IsTaken
<1>2. Len(s.queue) \in Nat /\ Len(s.queue) > 0 /\ t.queue \in Seq(Messages) /\ Head(s.queue) = s.queue[1]
  BY <1>1, HeadTailProperties, EmptySeq
<1>3. Len(t.queue) = Len(s.queue) - 1 /\ \A k \in 1 .. Len(t.queue) : t.queue[k] = s.queue[k + 1]
  BY <1>1, HeadTailProperties
<1>4. 1 \in 1 .. Len(s.queue)
  BY <1>2
<1>5. s.queue[1] \in Messages
  BY <1>4, ElementOfSeq
<1>6. QED
  BY <1>2, <1>3, <1>5, SMTT(30)

LEMMA TakenFollows ==
  ASSUME NEW s, NEW t, IsTaken(s, t), NEW d, NEW box, NEW r, NEW i, Reads(s, d, box, r, i),
         NEW r2, IsMoved(s, Head(s.queue), r, r2)
  PROVE  Follows(t, d, r2)
<1>1. s.queue \in Seq(Messages) /\ s.queue # <<>>
  BY DEF Reads, IsTaken
<1>2. PICK e \in 0 .. Len(s.log) :
        /\ Carries(s.queue, s.log, s.sequence, UpTo(s.log, r.cursor), e)
        /\ s.subscribed => e = d
  BY DEF Reads, Follows
<1>3. PICK b \in 0 .. Len(s.log) :
        /\ IsMove(s.log, s.sequence, Head(s.queue), UpTo(s.log, r.cursor), b)
        /\ Carries(Tail(s.queue), s.log, s.sequence, b, e)
  BY <1>1, <1>2, CarriesTail
<1>4. UpTo(s.log, r2.cursor) = b
  BY <1>3 DEF IsMoved
<1>5. QED
  BY <1>2, <1>3, <1>4 DEF Follows, IsTaken

LEMMA TakenTold ==
  ASSUME NEW s, NEW t, IsTaken(s, t), NEW d, NEW box, NEW r, NEW i, Reads(s, d, box, r, i),
         NEW r2, IsConvinced(Head(s.queue), r, r2, i)
  PROVE  Told(t, r2, i)
<1> SUFFICES ASSUME t.subscribed PROVE Tells(t.queue, r2.lease, i, t.driver)
  BY DEF Told
<1> DEFINE q == s.queue
           u == t.queue
           m == Head(s.queue)
<1>1. q \in Seq(Messages) /\ s.subscribed /\ t.driver = s.driver
  BY DEF Reads, IsTaken
<1>2. Tells(q, r.lease, i, s.driver)
  BY <1>1 DEF Reads, Told
<1>3. /\ Len(q) \in Nat /\ Len(q) > 0 /\ Len(u) = Len(q) - 1 /\ m = q[1]
      /\ \A k \in 1 .. Len(u) : u[k] = q[k + 1] /\ k + 1 \in 1 .. Len(q)
  BY <1>1, TakenFields
<1>4. IsConvinced(m, r, r2, i)
  OBVIOUS
<1> HIDE DEF q, u, m
<1>5. ASSUME NEW k \in 0 .. Len(u), IsLast(u, k) PROVE IsLast(q, k + 1)
  <2>1. ASSUME NEW j \in (k + 1) + 1 .. Len(q) PROVE q[j].kind \notin {"driver", "attached"}
    <3>1. j - 1 \in k + 1 .. Len(u) /\ j - 1 \in 1 .. Len(u) /\ (j - 1) + 1 = j
      BY <1>3, <1>5, <2>1
    <3>2. u[j - 1] = q[j]
      BY <1>3, <3>1
    <3>3. QED
      BY <1>5, <3>1, <3>2 DEF IsLast
  <2>2. QED
    BY <2>1 DEF IsLast
<1>6. ASSUME IsLast(u, 0) PROVE Holds(s.driver, i, r2.lease)
  <2>1. 0 \in 0 .. Len(u) /\ 0 + 1 = 1 /\ 1 \in 1 .. Len(q)
    BY <1>3
  <2>2. IsLast(q, 1)
    BY <1>5, <1>6, <2>1
  <2>3. CASE m.kind \in Marks /\ r2.lease = Says(m, i)
    BY <1>2, <1>3, <2>1, <2>2, <2>3 DEF Tells
  <2>4. CASE m.kind \notin {"driver", "attached"} /\ r2.lease = r.lease
    <3>1. \A j \in 0 + 1 .. Len(q) : j = 1 \/ j \in 1 + 1 .. Len(q)
      BY <1>3
    <3>2. IsLast(q, 0)
      BY <1>3, <2>2, <2>4, <3>1 DEF IsLast
    <3>3. QED
      BY <1>2, <2>4, <3>2 DEF Tells
  <2>5. QED
    BY <1>4, <2>3, <2>4 DEF IsConvinced, Marks
<1>7. ASSUME NEW k \in 1 .. Len(u), u[k].kind \in Marks, IsLast(u, k) PROVE Holds(s.driver, i, Says(u[k], i))
  <2>1. k \in 0 .. Len(u)
    BY <1>3
  <2>2. IsLast(q, k + 1) /\ u[k] = q[k + 1] /\ k + 1 \in 1 .. Len(q)
    BY <1>3, <1>5, <1>7, <2>1
  <2>3. QED
    BY <1>2, <1>7, <2>2 DEF Tells
<1>8. Tells(u, r2.lease, i, s.driver)
  BY <1>6, <1>7 DEF Tells
<1>9. QED
  BY <1>1, <1>8 DEF u

LEMMA TakenReads ==
  ASSUME NEW s, NEW t, IsTaken(s, t), NEW d, NEW box \in Seq(Requests), NEW r, NEW i, Reads(s, d, box, r, i),
         NEW m, m = Head(s.queue), NEW r2, IsMoved(s, m, r, r2), IsConvinced(m, r, r2, i), IsDone(m, r, r2),
         r2.phase \in {"ready", "waiting"} /\ s.open => s.subscribed \/ r2.lease # 0
  PROVE  /\ Reads(t, d, box, r2, i)
         /\ s.open => NoAttach(box)
<1>0. /\ t.queue \in Seq(Messages) /\ Len(s.queue) \in Nat /\ Len(s.queue) > 0
      /\ Len(t.queue) = Len(s.queue) - 1 /\ m = s.queue[1]
      /\ \A k \in 1 .. Len(t.queue) : t.queue[k] = s.queue[k + 1] /\ k + 1 \in 1 .. Len(s.queue)
      /\ 1 \in 1 .. Len(s.queue) /\ s.queue # <<>>
  BY TakenFields DEF Reads, IsTaken
<1>1. Follows(t, d, r2)
  BY TakenFollows
<1>2. Told(t, r2, i)
  BY TakenTold
<1>3. s.open => \A k \in 1 .. Len(box) : ~IsJoining(r) /\ box[k].kind # "attach"
  BY <1>0 DEF Reads, Boxed, IsFirst
<1>4. ASSUME s.open, NEW k \in 1 .. Len(box) PROVE ~IsJoining(r2)
  BY <1>3, <1>4 DEF IsDone, IsJoining
<1>5. Boxed(t, box, r2)
  BY <1>3, <1>4 DEF Reads, Boxed, IsTaken
<1>6. Attended(t, r2)
  BY <1>0 DEF Reads, Attended, IsTaken
<1>7. Answered(s, r)
  BY DEF Reads
<1>8. ASSUME NEW k \in 1 .. Len(t.queue) PROVE t.queue[k] # Rejected(0)
  <2>1. CASE t.queue[k] = Rejected(0)
    <3>1. Len(s.queue) = 1
      BY <1>0, <1>7, <2>1 DEF Answered
    <3>2. QED
      BY <1>0, <3>1
  <2>2. QED
    BY <2>1
<1>9. ASSUME NEW k \in 1 .. Len(t.queue), t.queue[k].kind = "attached"
      PROVE  /\ IsJoining(r2)
             /\ \A j \in 1 .. Len(t.queue) : t.queue[j].kind = "attached" => j = k
             /\ t.queue[k].epoch = 0 => r2.mode = "view" /\ \A j \in 1 .. k - 1 : t.queue[j].kind # "driver"
  <2>1. /\ k + 1 \in 1 .. Len(s.queue) /\ s.queue[k + 1] = t.queue[k] /\ s.queue[k + 1].kind = "attached"
        /\ k + 1 # 1
    BY <1>0, <1>9
  <2>2. /\ IsJoining(r)
        /\ \A j \in 1 .. Len(s.queue) : s.queue[j].kind = "attached" => j = k + 1
        /\ s.queue[k + 1].epoch = 0 => r.mode = "view" /\ \A j \in 1 .. (k + 1) - 1 : s.queue[j].kind # "driver"
    BY <1>7, <2>1 DEF Answered
  <2>3. m.kind # "attached"
    BY <1>0, <2>1, <2>2
  <2>4. m # Rejected(0)
    <3>1. CASE m = Rejected(0)
      <4>1. Len(s.queue) = 1
        BY <1>0, <1>7, <3>1 DEF Answered
      <4>2. QED
        BY <1>0, <4>1
    <3>2. QED
      BY <3>1
  <2>5. IsJoining(r2)
    BY <2>2, <2>3, <2>4 DEF IsDone
  <2>6. \A j \in 1 .. Len(t.queue) : t.queue[j].kind = "attached" => j = k
    <3>1. \A j \in 1 .. Len(t.queue) : t.queue[j].kind = "attached" => j + 1 = k + 1
      BY <1>0, <2>2
    <3>2. QED
      BY <3>1
  <2>7. ASSUME t.queue[k].epoch = 0 PROVE r2.mode = "view" /\ \A j \in 1 .. k - 1 : t.queue[j].kind # "driver"
    <3>1. /\ r.mode = "view" /\ 1 \in 1 .. (k + 1) - 1
          /\ \A j \in 1 .. (k + 1) - 1 : s.queue[j].kind # "driver"
      <4>1. 1 \in 1 .. (k + 1) - 1
        BY <1>0
      <4>2. s.queue[k + 1].epoch = 0
        BY <2>1, <2>7
      <4>3. QED
        BY <2>2, <4>1, <4>2
    <3>2. \A j \in 1 .. k - 1 : j + 1 \in 1 .. (k + 1) - 1 /\ j \in 1 .. Len(t.queue)
      BY <1>0
    <3>3. \A j \in 1 .. k - 1 : t.queue[j].kind # "driver"
      BY <1>0, <3>1, <3>2
    <3>4. m.kind # "driver"
      BY <1>0, <3>1
    <3>5. QED
      BY <2>5, <3>1, <3>3, <3>4 DEF IsDone
  <2>8. QED
    BY <2>5, <2>6, <2>7
<1>10. Answered(t, r2)
  BY <1>8, <1>9 DEF Answered
<1>11. NoAttach(box) \/ ~s.open
  BY <1>3 DEF NoAttach
<1>12. QED
  BY <1>0, <1>1, <1>2, <1>5, <1>6, <1>10, <1>11 DEF Reads, IsTaken

-----------------------------------------------------------------------------
(* What a pump does without reading *)

\* A pump that is not joining leaves an exchange.
LEMMA LeftReads ==
  ASSUME NEW s, NEW d, NEW box, NEW r, NEW i, Reads(s, d, box, r, i),
         ~IsJoining(r), NEW r2, ~IsJoining(r2), r2.cursor = r.cursor, r2.lease = r.lease,
         r2.phase \in {"ready", "waiting"} => r.phase \in {"ready", "waiting"}
  PROVE  Reads(s, d, box, r2, i)
<1>1. Follows(s, d, r2) /\ Told(s, r2, i)
  BY DEF Reads, Follows, Told
<1>2. Boxed(s, box, r2)
  BY DEF Reads, Boxed, IsFirst
<1>3. Attended(s, r2)
  BY DEF Reads, Attended
<1>4. Answered(s, r2)
  BY DEF Reads, Answered
<1>5. QED
  BY <1>1, <1>2, <1>3, <1>4 DEF Reads

\* Operation q is sent.
LEMMA SentReads ==
  ASSUME NEW s, NEW d, NEW box \in Seq(Requests), NEW r, NEW i, Reads(s, d, box, r, i), ~IsJoining(r),
         NEW q \in Requests, q.kind \in {"acquire", "release", "command"},
         q.kind = "acquire" /\ s.open => s.subscribed
  PROVE  Reads(s, d, Append(box, q), r, i) /\ Append(box, q) \in Seq(Requests)
<1> DEFINE b == Append(box, q)
<1>1. /\ b \in Seq(Requests) /\ Len(box) \in Nat /\ Len(b) = Len(box) + 1
      /\ \A k \in 1 .. Len(box) : b[k] = box[k]
      /\ b[Len(box) + 1] = q
  BY AppendProperties
<1> HIDE DEF b
<1>2. \A k \in 1 .. Len(b) : (k \in 1 .. Len(box) /\ b[k] = box[k]) \/ b[k] = q
  BY <1>1
<1>3. Boxed(s, box, r)
  BY DEF Reads
<1>4. s.open => \A k \in 1 .. Len(box) : box[k].kind # "attach"
  BY <1>3 DEF Boxed, IsFirst
<1>5. Boxed(s, b, r)
  BY <1>2, <1>3, <1>4 DEF Boxed
<1>6. QED
  BY <1>1, <1>5 DEF Reads, b

\* The connection has ended, and all was read.
LEMMA LostReads ==
  ASSUME NEW s, NEW d, NEW box, NEW r, NEW i, Reads(s, d, box, r, i),
         ~s.open, ~s.subscribed, s.queue = <<>>, NEW r2, r2.cursor = r.cursor
  PROVE  Reads(s, d, box, r2, i)
<1>1. Follows(s, d, r2) /\ Told(s, r2, i)
  BY DEF Reads, Follows, Told
<1>2. Boxed(s, box, r2)
  BY DEF Reads, Boxed
<1>3. Attended(s, r2)
  BY DEF Reads, Attended
<1>4. Len(s.queue) = 0
  OBVIOUS
<1>5. Answered(s, r2)
  BY <1>4 DEF Answered
<1>6. QED
  BY <1>1, <1>2, <1>3, <1>5 DEF Reads

\* A connection is opened, and an attachment asked for.
LEMMA OpenedReads ==
  ASSUME NEW s, Dated(s.log, s.sequence), s.queue = <<>>, ~s.subscribed, NEW d, NEW r, r.cursor \in Int, IsJoining(r), NEW i,
         NEW force
  PROVE  Reads(s, d, <<Attach(r.mode, force, r.cursor)>>, r, i)
<1> DEFINE q == Attach(r.mode, force, r.cursor)
           box == <<q>>
<1>0. Len(box) = 1 /\ box[1] = q /\ q.kind = "attach" /\ q.mode = r.mode /\ q.after = r.cursor
  BY DEF Attach
<1>1. s.queue \in Seq(Messages) /\ Len(s.queue) = 0
  OBVIOUS
<1>2. UpTo(s.log, r.cursor) \in 0 .. Len(s.log)
  BY UpToIs
<1>3. Follows(s, d, r)
  BY <1>2, CarriesNothing DEF Follows
<1> HIDE DEF q, box
<1>4. IsFirst(s, box, r)
  BY <1>0 DEF IsFirst
<1>5. Boxed(s, box, r)
  <2>1. \A k \in 1 .. Len(box) : box[k] = q
    BY <1>0
  <2>2. QED
    BY <1>0, <1>4, <2>1 DEF Boxed
<1>6. Attended(s, r)
  BY <1>1 DEF Attended, IsJoining
<1>7. Answered(s, r)
  BY <1>1 DEF Answered
<1>8. QED
  BY <1>1, <1>3, <1>5, <1>6, <1>7 DEF Reads, Told, q, box

-----------------------------------------------------------------------------
(* The state of a client *)

Operations == [kind : {"acquire", "release", "command"}, id : Nat \ {0}, force : BOOLEAN, epoch : Nat]

Phases == {"new", "joining", "ready", "waiting", "broken", "rejoining", "failed"}

ClientStates ==
  [phase : Phases, conn : Nat, mode : Modes, force : BOOLEAN, lease : Nat, cursor : Int,
   op : Operations \cup {NoRequest}, inflight : SUBSET Nat, attempt : Nat, tries : Nat,
   pending : Seq(Messages), buffered : Seq(Messages)]

IsClient(r) == r \in ClientStates /\ (r.phase = "new" <=> r.conn = 0)

\* A pump drives with a lease, and resends nothing but commands.
IsPump(r) ==
  /\ r.pending = <<>> /\ r.buffered = <<>>
  /\ r.phase \in {"ready", "broken"} => r.inflight = {}
  /\ r.phase = "new" => r.cursor = NoCursor
  /\ r.phase \in {"new", "joining", "ready"} => r.op = NoRequest
  /\ r.phase \in {"broken", "rejoining"} => r.op = NoRequest \/ r.op.kind = "command"
  /\ r.phase \in {"ready", "waiting", "broken", "rejoining"} /\ r.mode = "drive" => r.lease # 0

LEMMA ClientFields ==
  ASSUME NEW r \in ClientStates
  PROVE  /\ r.phase \in Phases /\ r.conn \in Nat /\ r.mode \in Modes /\ r.force \in BOOLEAN /\ r.lease \in Nat
         /\ r.cursor \in Int /\ r.op \in Operations \cup {NoRequest} /\ r.inflight \subseteq Nat
         /\ r.attempt \in Nat /\ r.tries \in Nat /\ r.pending \in Seq(Messages) /\ r.buffered \in Seq(Messages)
BY DEF ClientStates

LEMMA OperationFields ==
  ASSUME NEW q \in Operations \cup {NoRequest}
  PROVE  /\ q # NoRequest => q \in Operations
         /\ q.kind \in {"acquire", "release", "command"} => q \in Operations
         /\ q \in Operations => /\ q \in Requests /\ q.kind \in {"acquire", "release", "command"}
                                /\ q.id \in Nat \ {0} /\ q.force \in BOOLEAN /\ q.epoch \in Nat /\ q # NoRequest
BY DEF Operations, NoRequest, Requests

\* What is not about the connection, the queue and the lease.
Unmoved(r, r2) ==
  r2.conn = r.conn /\ r2.cursor = r.cursor /\ r2.lease = r.lease /\ r2.mode = r.mode /\ r2.force = r.force

LEMMA FinishedIs ==
  ASSUME NEW r \in ClientStates, NEW phase \in Phases
  PROVE  LET g == [Finished(r) EXCEPT !.phase = phase] IN
         /\ g \in ClientStates /\ Unmoved(r, g) /\ g.phase = phase /\ g.op = NoRequest /\ g.inflight = {}
         /\ g.pending = r.pending /\ g.buffered = r.buffered
BY DEF Finished, ClientStates, Unmoved

LEMMA RetryIs ==
  ASSUME NEW r \in ClientStates, NEW i
  PROVE  LET g == Retry(r, i) IN
         /\ g \in ClientStates /\ Unmoved(r, g) /\ g.phase \in {"broken", "ready"}
         /\ g.pending = r.pending /\ g.buffered = r.buffered
         /\ g.inflight \in {r.inflight, {}}
         /\ g.phase = "broken" => g.op = r.op /\ r.op # NoRequest /\ (i \notin Blocking => r.op.kind = "command")
         /\ g.phase = "ready" => g.op = NoRequest /\ g.inflight = {}
<1>1. CASE CanRetry(r, i)
  <2>1. r.attempt + 1 \in Nat /\ 0 \in Nat /\ "broken" \in Phases
    BY ClientFields DEF Phases
  <2>2. r.op # NoRequest /\ (i \notin Blocking => r.op.kind = "command")
    BY <1>1 DEF CanRetry
  <2>3. Retry(r, i) = [r EXCEPT !.phase = "broken", !.attempt = r.attempt + 1, !.tries = 0]
    BY <1>1 DEF Retry
  <2>4. QED
    BY <2>1, <2>2, <2>3, ZenonT(30) DEF ClientStates, Unmoved
<1>2. CASE ~CanRetry(r, i)
  <2>1. Retry(r, i) = [Finished(r) EXCEPT !.phase = "ready"]
    BY <1>2 DEF Retry
  <2>2. "ready" \in Phases
    BY DEF Phases
  <2>3. QED
    BY <2>1, <2>2, FinishedIs
<1>3. QED
  BY <1>1, <1>2

LEMMA RejoinFailedIs ==
  ASSUME NEW r \in ClientStates, NEW i
  PROVE  LET g == RejoinFailed(r, i) IN
         /\ g \in ClientStates /\ Unmoved(r, g) /\ g.phase \in {"broken", "ready", "failed"}
         /\ g.pending = r.pending /\ g.buffered \in {r.buffered, <<>>}
         /\ g.phase = "broken" => g.op = r.op /\ g.inflight = r.inflight
         /\ g.phase # "broken" => g.op = NoRequest /\ g.inflight = {}
<1>1. CASE i \in Pumps /\ r.tries + 1 < Attempts
  <2>1. r.tries + 1 \in Nat /\ "broken" \in Phases
    BY ClientFields DEF Phases
  <2>2. RejoinFailed(r, i) = [r EXCEPT !.phase = "broken", !.tries = r.tries + 1]
    BY <1>1 DEF RejoinFailed
  <2>3. QED
    BY <2>1, <2>2 DEF ClientStates, Unmoved
<1>2. CASE ~(i \in Pumps /\ r.tries + 1 < Attempts)
  BY <1>2, EmptySeq DEF RejoinFailed, Finished, ClientStates, Unmoved, Phases
<1>3. QED
  BY <1>1, <1>2

LEMMA ObserveDriverIs ==
  ASSUME NEW r \in ClientStates, NEW i \in Clients, NEW m \in Messages, m.kind \in {"driver", "driven"}
  PROVE  LET g == ObserveDriver(r, i, m.lease) IN
         /\ g \in ClientStates /\ g.lease = Says(m, i) /\ (g.mode = "drive" => g.lease # 0)
         /\ g.phase = r.phase /\ g.conn = r.conn /\ g.cursor = r.cursor /\ g.force = r.force /\ g.op = r.op
         /\ g.inflight = r.inflight /\ g.pending = r.pending /\ g.buffered = r.buffered
<1>1. m.lease \in Leases
  BY MessageFields
<1>2. m.lease.epoch \in Nat /\ (m.lease.owner = i => m.lease.epoch > 0)
  BY <1>1, LeaseFields, Constants
<1>3. m.kind # "attached"
  OBVIOUS
<1>4. Says(m, i) = IF m.lease.owner = i THEN m.lease.epoch ELSE 0
  BY <1>3 DEF Says
<1> DEFINE mode == IF m.lease.owner = i THEN "drive" ELSE "view"
<1>5. Says(m, i) \in Nat /\ mode \in Modes /\ (mode = "drive" => Says(m, i) # 0)
  BY <1>2, <1>4 DEF Modes
<1>6. ObserveDriver(r, i, m.lease) = [r EXCEPT !.lease = Says(m, i), !.mode = mode]
  BY <1>4 DEF ObserveDriver
<1> HIDE DEF mode
<1>7. QED
  BY <1>5, <1>6 DEF ClientStates

LEMMA AcknowledgeIs ==
  ASSUME NEW r \in ClientStates, NEW i \in Clients, NEW m \in Messages
  PROVE  LET g == Acknowledge(r, i, m) IN
         /\ g \in ClientStates /\ g.phase = r.phase /\ g.conn = r.conn /\ g.op = r.op
         /\ g.inflight = r.inflight /\ g.pending = r.pending /\ g.buffered = r.buffered
         /\ g.cursor = IF m.kind \in {"event", "snapshot"} THEN Max2(r.cursor, m.at) ELSE r.cursor
         /\ m.kind = "driver" => g.lease = Says(m, i) /\ (g.mode = "drive" => g.lease # 0)
         /\ m.kind # "driver" => g.lease = r.lease /\ g.mode = r.mode
<1>1. CASE m.kind \in {"event", "snapshot"}
  <2>1. m.at \in Nat
    BY <1>1, MessageFields
  <2>2. r.cursor \in Int /\ Max2(r.cursor, m.at) \in Int
    BY <2>1, ClientFields DEF Max2
  <2>3. Acknowledge(r, i, m) = [r EXCEPT !.cursor = Max2(r.cursor, m.at)]
    BY <1>1 DEF Acknowledge
  <2>4. QED
    BY <1>1, <2>2, <2>3 DEF ClientStates
<1>2. CASE m.kind = "driver"
  <2>1. Acknowledge(r, i, m) = ObserveDriver(r, i, m.lease)
    BY <1>2 DEF Acknowledge
  <2>2. QED
    BY <1>2, <2>1, ObserveDriverIs
<1>3. CASE m.kind \notin {"event", "snapshot", "driver"}
  <2>1. Acknowledge(r, i, m) = r
    BY <1>3 DEF Acknowledge
  <2>2. QED
    BY <1>3, <2>1
<1>4. QED
  BY <1>1, <1>2, <1>3

LEMMA ObserveResultIs ==
  ASSUME NEW r \in ClientStates, NEW i \in Clients, NEW m \in Messages, NEW op \in Operations \cup {NoRequest}
  PROVE  LET g == ObserveResult(r, i, op, m) IN
         /\ g \in ClientStates /\ g.phase = r.phase /\ g.conn = r.conn /\ g.op = r.op /\ g.cursor = r.cursor
         /\ g.inflight = r.inflight /\ g.pending = r.pending /\ g.buffered = r.buffered
         /\ m.kind = "driven" => g.lease = Says(m, i) /\ (g.mode = "drive" => g.lease # 0)
         /\ m.kind # "driven" => g.lease = r.lease /\ g.mode = r.mode
<1>1. CASE m.kind = "driven"
  <2> DEFINE g == ObserveDriver(r, i, m.lease)
             force == IF op.kind = "acquire" /\ m.lease.owner = i THEN op.force ELSE g.force
  <2>1. /\ g \in ClientStates /\ g.lease = Says(m, i) /\ (g.mode = "drive" => g.lease # 0)
        /\ g.phase = r.phase /\ g.conn = r.conn /\ g.cursor = r.cursor /\ g.force = r.force /\ g.op = r.op
        /\ g.inflight = r.inflight /\ g.pending = r.pending /\ g.buffered = r.buffered
    BY <1>1, ObserveDriverIs
  <2>2. force \in BOOLEAN
    BY <2>1, ClientFields, OperationFields
  <2>3. ObserveResult(r, i, op, m) = [g EXCEPT !.force = force]
    BY <1>1 DEF ObserveResult
  <2> HIDE DEF g, force
  <2>4. QED
    BY <1>1, <2>1, <2>2, <2>3 DEF ClientStates
<1>2. CASE m.kind # "driven"
  BY <1>2 DEF ObserveResult
<1>3. QED
  BY <1>1, <1>2

LEMMA UnbufferedIs ==
  ASSUME NEW r \in ClientStates
  PROVE  LET g == Unbuffered(r) IN
         /\ g \in ClientStates /\ Unmoved(r, g) /\ g.phase = r.phase /\ g.op = r.op /\ g.buffered = <<>>
         /\ r.pending = <<>> /\ r.buffered = <<>> => g.pending = <<>>
<1> DEFINE all == r.pending \o r.buffered
<1>0. r.pending \in Seq(Messages) /\ r.buffered \in Seq(Messages)
  BY ClientFields
<1>1. all \in Seq(Messages) /\ Len(all) \in Nat /\ (r.pending = <<>> /\ r.buffered = <<>> => all = <<>>)
  <2>1. all \in Seq(Messages)
    BY <1>0, ConcatProperties
  <2>2. r.pending = <<>> /\ r.buffered = <<>> => all = <<>>
    OBVIOUS
  <2>3. QED
    BY <2>1, <2>2, LenProperties
<1> DEFINE kept == IF Len(all) > PendingCapacity THEN SubSeq(all, 1, PendingCapacity) ELSE all
<1>5. Unbuffered(r) = [r EXCEPT !.buffered = <<>>, !.pending = kept]
  BY DEF Unbuffered
<1> HIDE DEF all
<1>2. PendingCapacity \in Nat
  BY Constants
<1>3. kept \in Seq(Messages)
  <2>1. CASE Len(all) > PendingCapacity
    <3>1. \A j \in 1 .. PendingCapacity : j \in 1 .. Len(all)
      BY <1>1, <1>2, <2>1
    <3>2. \A j \in 1 .. PendingCapacity : all[j] \in Messages
      BY <1>1, <3>1, ElementOfSeq
    <3>3. PendingCapacity \in Int /\ 1 \in Int
      BY <1>2
    <3>3a. SubSeq(all, 1, PendingCapacity) \in Seq(Messages)
      BY ONLY <3>2, <3>3, SubSeqProperties
    <3>4. QED
      BY <2>1, <3>3a
  <2>2. QED
    BY <1>1, <2>1
<1>4. r.pending = <<>> /\ r.buffered = <<>> => kept = <<>>
  <2>1. all = <<>> => Len(all) = 0
    OBVIOUS
  <2>2. QED
    BY <1>1, <1>2, <2>1
<1> HIDE DEF kept
<1>6. QED
  BY <1>3, <1>4, <1>5, EmptySeq DEF ClientStates, Unmoved

LEMMA RefreshedIs ==
  ASSUME NEW r \in ClientStates, NEW i
  PROVE  LET g == Refreshed(r, i) IN
         /\ g \in ClientStates /\ Unmoved(r, g)
         /\ g.pending = r.pending /\ g.buffered = r.buffered
         /\ r.op # NoRequest => g.op \in Operations
         /\ i \notin Blocking => g.op = r.op
<1>1. CASE i \in Blocking /\ r.op # NoRequest /\ r.op.kind = "command"
  <2>1. r.op \in Operations /\ r.lease \in Nat
    BY <1>1, ClientFields, OperationFields
  <2>2. [r.op EXCEPT !.epoch = r.lease] \in Operations
    BY <2>1 DEF Operations
  <2>3. Refreshed(r, i) = [r EXCEPT !.op = [r.op EXCEPT !.epoch = r.lease]]
    BY <1>1 DEF Refreshed
  <2>4. QED
    BY <1>1, <2>2, <2>3 DEF ClientStates, Unmoved
<1>2. CASE ~(i \in Blocking /\ r.op # NoRequest /\ r.op.kind = "command")
  <2>1. Refreshed(r, i) = r
    BY <1>2 DEF Refreshed
  <2>2. r.op # NoRequest => r.op \in Operations
    BY ClientFields, OperationFields
  <2>3. QED
    BY <2>1, <2>2 DEF ClientStates, Unmoved
<1>3. QED
  BY <1>1, <1>2

\* The attachment is answered.
LEMMA Attach0Is ==
  ASSUME NEW r \in ClientStates, NEW m \in Messages, m.kind = "attached"
  PROVE  LET g == [Attach0(r, m) EXCEPT !.tries = 0] IN
         /\ g \in ClientStates /\ g.conn = r.conn /\ g.phase = r.phase /\ g.op = r.op /\ g.inflight = {}
         /\ g.pending = r.pending /\ g.buffered = r.buffered /\ g.mode = r.mode
         /\ g.cursor = m.at /\ g.lease = m.epoch /\ \A i : g.lease = Says(m, i)
<1>1. m.at \in Int /\ m.epoch \in Nat /\ {} \subseteq Nat /\ 0 \in Nat
  BY MessageFields
<1>2. \A i : Says(m, i) = m.epoch
  BY DEF Says
<1>3. [Attach0(r, m) EXCEPT !.tries = 0]
        = [r EXCEPT !.cursor = m.at, !.lease = m.epoch, !.inflight = {}, !.tries = 0]
  BY DEF Attach0
<1> DEFINE g == [r EXCEPT !.cursor = m.at, !.lease = m.epoch, !.inflight = {}, !.tries = 0]
<1>4. /\ g \in ClientStates /\ g.conn = r.conn /\ g.phase = r.phase /\ g.op = r.op /\ g.inflight = {}
      /\ g.pending = r.pending /\ g.buffered = r.buffered /\ g.mode = r.mode
      /\ g.cursor = m.at /\ g.lease = m.epoch
  BY <1>1 DEF ClientStates
<1> HIDE DEF g
<1>5. QED
  BY <1>2, <1>3, <1>4 DEF g

-----------------------------------------------------------------------------
(* The position of a viewer *)

LEMMA CursorIs ==
  ASSUME NEW log, NEW n, Dated(log, n), NEW m \in Messages, NEW cursor \in Int, cursor <= n,
         NEW b \in 0 .. Len(log), IsMove(log, n, m, UpTo(log, cursor), b),
         NEW later, later = IF m.kind \in {"event", "snapshot"} THEN Max2(cursor, m.at)
                            ELSE IF m.kind = "attached" THEN m.at ELSE cursor
  PROVE  later \in Int /\ later <= n /\ UpTo(log, later) = b
<1> DEFINE a == UpTo(log, cursor)
<1>0. /\ Len(log) \in Nat /\ n \in Nat /\ \A k \in 1 .. Len(log) : log[k] \in Nat /\ log[k] <= n
      /\ a \in 0 .. Len(log) /\ \A k \in a + 1 .. Len(log) : log[k] > cursor
      /\ IsMove(log, n, m, a, b)
  <2>1. Len(log) \in Nat /\ n \in Nat /\ \A k \in 1 .. Len(log) : log[k] \in Nat /\ log[k] <= n
    BY DEF Dated
  <2>2. a \in 0 .. Len(log) /\ \A k \in a + 1 .. Len(log) : log[k] > cursor
    BY UpToIs
  <2>3. IsMove(log, n, m, a, b)
    OBVIOUS
  <2>4. QED
    BY <2>1, <2>2, <2>3
<1> HIDE DEF a
<1>1. CASE m.kind = "event"
  <2>1. b = a + 1 /\ b <= Len(log) /\ log[b] = m.at
    BY <1>0, <1>1 DEF IsMove
  <2>2. b \in 1 .. Len(log) /\ b \in a + 1 .. Len(log)
    BY <1>0, <2>1
  <2>3. m.at > cursor /\ m.at \in Nat /\ m.at <= n
    BY <1>0, <2>1, <2>2
  <2>4. later = m.at
    BY <1>1, <2>3 DEF Max2
  <2>5. UpTo(log, m.at) = b
    BY <2>1, <2>2, UpToEvent
  <2>6. QED
    BY <2>3, <2>4, <2>5
<1>2. CASE m.kind = "snapshot"
  <2>1. m.at <= n /\ b = UpTo(log, m.at) /\ a <= b /\ m.at \in Nat
    BY <1>0, <1>2, MessageFields DEF IsMove
  <2>2. CASE cursor > m.at
    <3>1. later = cursor
      BY <1>2, <2>1, <2>2 DEF Max2
    <3>2. b <= a
      BY <2>1, <2>2, UpToMonotone DEF a
    <3>3. a = b
      BY <1>0, <2>1, <3>2
    <3>4. QED
      BY <3>1, <3>3 DEF a
  <2>3. CASE ~(cursor > m.at)
    <3>1. later = m.at
      BY <1>2, <2>1, <2>3 DEF Max2
    <3>2. QED
      BY <2>1, <3>1
  <2>4. QED
    BY <2>2, <2>3
<1>3. CASE m.kind = "attached"
  <2>1. m.at <= n /\ b = a /\ UpTo(log, m.at) = a /\ later = m.at /\ m.at \in Nat
    BY <1>0, <1>3, MessageFields DEF IsMove
  <2>2. QED
    BY <2>1
<1>4. CASE m.kind \notin {"event", "snapshot", "attached"}
  <2>1. b = a /\ later = cursor
    BY <1>0, <1>4 DEF IsMove
  <2>2. QED
    BY <2>1 DEF a
<1>5. QED
  BY <1>1, <1>2, <1>3, <1>4

LEMMA ShownIs ==
  ASSUME Dated(host.log, host.sequence), NEW m \in Messages, NEW a \in 0 .. Len(host.log), NEW b \in 0 .. Len(host.log),
         IsMove(host.log, host.sequence, m, a, b)
  PROVE  a <= b /\ Shown(SubSeq(host.log, 1, a), m) = SubSeq(host.log, 1, b)
<1>0. host.log \in Seq(Nat) /\ Len(host.log) \in Nat
  BY DEF Dated
<1>1. CASE m.kind = "event"
  <2>1. b = a + 1 /\ b <= Len(host.log) /\ host.log[b] = m.at
    BY <1>1 DEF IsMove
  <2>2. SubSeq(host.log, 1, a + 1) = Append(SubSeq(host.log, 1, a), host.log[a + 1])
    BY <1>0, <2>1
  <2>3. Shown(SubSeq(host.log, 1, a), m) = Append(SubSeq(host.log, 1, a), m.at)
    BY <1>1 DEF Shown
  <2>4. SubSeq(host.log, 1, b) = Append(SubSeq(host.log, 1, a), m.at)
    BY <2>1, <2>2
  <2>5. a <= b
    BY <2>1
  <2>6. Shown(SubSeq(host.log, 1, a), m) = SubSeq(host.log, 1, b)
    BY ONLY <2>3, <2>4
  <2>7. QED
    BY <2>5, <2>6
<1>2. CASE m.kind = "snapshot"
  <2>1. b = UpTo(host.log, m.at) /\ a <= b
    BY <1>2 DEF IsMove
  <2>2. Shown(SubSeq(host.log, 1, a), m) = SubSeq(host.log, 1, UpTo(host.log, m.at))
    BY <1>2 DEF Shown
  <2>3. QED
    BY <2>1, <2>2
<1>3. CASE m.kind \notin {"event", "snapshot"}
  <2>1. b = a
    BY <1>3 DEF IsMove
  <2>2. QED
    BY <1>3, <2>1 DEF Shown
<1>4. QED
  BY <1>1, <1>2, <1>3

-----------------------------------------------------------------------------
(* The invariant *)

\* Pump i, whose state is r and whose surface shows v, and its connection.
Attends(h, inb, ct, r, v, i) ==
  /\ IsPump(r)
  /\ r.cursor <= h.sequence /\ v = SubSeq(h.log, 1, UpTo(h.log, r.cursor))
  /\ r.conn # 0 /\ r.conn \notin ct => Reads(Seat(h, r.conn), Len(h.log), inb[r.conn], r, i)

\* A connection is of one client; those that will be opened are as new.
Placed ==
  /\ \A i \in Clients : /\ client[i].conn <= opened
                        /\ client[i].conn # 0 => host.owner[client[i].conn] \in {i, NoClient}
  /\ \A i, j \in Clients : i # j /\ client[i].conn # 0 => client[i].conn # client[j].conn
  /\ \A c \in Connections :
       c > opened => ~IsOpen(host, c) /\ host.outbound[c] = <<>> /\ inbox[c] = <<>> /\ c \notin cut

IInv ==
  /\ Sound(host) /\ Dated(host.log, host.sequence)
  /\ inbox \in [Connections -> Seq(Requests)] /\ cut \subseteq Connections
  /\ client \in [Clients -> ClientStates] /\ \A i \in Clients : IsClient(client[i])
  /\ view = [i \in Clients |-> view[i]]
  /\ opened \in Nat /\ opened <= MaxConnections /\ work \in Nat
  /\ Placed
  /\ \A i \in Pumps : Attends(host, inbox, cut, client[i], view[i], i)

LEMMA Placing ==
  ASSUME IInv, NEW i \in Clients, client[i].conn # 0
  PROVE  client[i].conn \in Connections /\ IsOf(host, client[i].conn, i)
<1>1. client[i].conn \in Nat /\ client[i].conn <= opened /\ opened <= MaxConnections /\ opened \in Nat
  BY ClientFields DEF IInv, Placed
<1>2. client[i].conn \in Connections
  BY <1>1, Constants DEF Connections
<1>3. QED
  BY <1>2 DEF IInv, Placed, IsOf

LEMMA InitInv == Init => IInv
<1> SUFFICES ASSUME Init PROVE IInv
  OBVIOUS
<1>0. /\ host = [owner |-> [c \in Connections |-> NoClient], subscribers |-> {},
             driver |-> NoLease, epoch |-> 0, saved |-> 0, sequence |-> 0,
             log |-> <<>>, committed |-> {}, outbound |-> [c \in Connections |-> <<>>],
             forgot |-> FALSE]
      /\ inbox = [c \in Connections |-> <<>>] /\ cut = {}
      /\ client = [i \in Clients |-> NewClient] /\ view = [i \in Clients |-> <<>>]
      /\ opened = 0 /\ work = 0
  BY DEF Init
<1>1. host \in Hosts
  BY <1>0, LeaseTypes DEF Hosts
<1>2. Sound(host)
  BY <1>0, <1>1 DEF Sound
<1>3. Dated(<<>>, 0)
  BY DEF Dated
<1>4. /\ NewClient \in ClientStates /\ NewClient.phase = "new" /\ NewClient.conn = 0 /\ NewClient.cursor = -1
      /\ IsPump(NewClient)
  BY DEF NewClient, ClientStates, Phases, Modes, NoCursor, IsPump
<1>5. IsClient(NewClient)
  BY <1>4 DEF IsClient
<1>6. Placed
  BY <1>0, <1>4, Constants DEF Placed, IsOpen
<1>7. UpTo(<<>>, -1) = 0
  <2>1. UpTo(<<>>, -1) \in 0 .. Len(<<>>)
    BY <1>3, UpToIs
  <2>2. QED
    BY <2>1
<1>8. ASSUME NEW i \in Pumps PROVE Attends(host, inbox, cut, client[i], view[i], i)
  <2>1. client[i] = NewClient /\ view[i] = <<>>
    BY <1>0, <1>8, Constants
  <2>2. SubSeq(<<>>, 1, 0) = <<>>
    OBVIOUS
  <2>3. host.log = <<>> /\ host.sequence = 0 /\ -1 <= 0
    BY <1>0
  <2>4. QED
    BY <1>4, <1>7, <2>1, <2>2, <2>3 DEF Attends
<1>9. MaxConnections \in Nat
  BY Constants
<1>9a. (\A i \in Clients : IsClient(client[i])) /\ view = [i \in Clients |-> view[i]]
  BY <1>0, <1>5
<1>9b. opened \in Nat /\ opened <= MaxConnections /\ work \in Nat
  BY <1>0, <1>9
<1>9c. Dated(host.log, host.sequence)
  BY <1>0, <1>3
<1>10. inbox \in [Connections -> Seq(Requests)] /\ cut \subseteq Connections /\ client \in [Clients -> ClientStates]
  BY <1>0, <1>4
<1>11. QED
  BY <1>2, <1>6, <1>8, <1>9a, <1>9b, <1>9c, <1>10 DEF IInv

-----------------------------------------------------------------------------
(* What steps mean for the feed *)

FeedStep == Feed!Next \/ UNCHANGED Feed!feed

LEMMA FeedGrows ==
  ASSUME Grows(host.log, host.sequence, host'.log, host'.sequence), UNCHANGED view
  PROVE  FeedStep
<1> DEFINE s == host.log
           t == host'.log
<1>1. /\ s \in Seq(Nat) /\ t \in Seq(Nat) /\ Len(s) \in Nat /\ Len(t) \in Nat /\ Len(s) <= Len(t)
      /\ \A k \in 1 .. Len(s) : t[k] = s[k]
  BY SMTT(30) DEF Grows, Dated
<1>2. [i \in Pumps |-> view[i]]' = [i \in Pumps |-> view[i]]
  OBVIOUS
<1>3. SubSeq(t, 1, Len(s)) = s
  <2> DEFINE b == SubSeq(t, 1, Len(s))
  <2>1. \A k \in 1 .. Len(s) : k \in 1 .. Len(t)
    BY <1>1
  <2>2. \A k \in 1 .. Len(s) : t[k] \in Nat
    BY <1>1, <2>1, ElementOfSeq
  <2>3. 1 \in Int /\ Len(s) \in Int
    BY <1>1
  <2>4. /\ b \in Seq(Nat) /\ Len(b) = IF 1 <= Len(s) THEN Len(s) - 1 + 1 ELSE 0
        /\ \A k \in 1 .. Len(s) - 1 + 1 : b[k] = t[1 + k - 1]
    BY ONLY <2>2, <2>3, SubSeqProperties
  <2> HIDE DEF b
  <2>5. Len(b) = Len(s)
    BY <1>1, <2>4
  <2>6. ASSUME NEW k \in 1 .. Len(s) PROVE b[k] = s[k]
    <3>1. k \in 1 .. Len(s) - 1 + 1 /\ 1 + k - 1 = k
      BY <1>1, <2>6
    <3>2. QED
      BY <1>1, <2>4, <2>6, <3>1
  <2>7. b = s
    BY <1>1, <2>4, <2>5, <2>6, SeqEqual
  <2>8. QED
    BY <2>7 DEF b
<1> HIDE DEF s, t
<1>4. CASE Len(t) = Len(s)
  <2>1. t = s
    BY <1>1, <1>4, SeqEqual
  <2>2. QED
    BY <1>2, <2>1 DEF FeedStep, Feed!feed, s, t
<1>5. CASE Len(t) # Len(s)
  BY <1>1, <1>2, <1>3, <1>5 DEF FeedStep, Feed!Next, Feed!Publish, s, t
<1>6. QED
  BY <1>4, <1>5

LEMMA FeedShows ==
  ASSUME IInv, UNCHANGED host.log, NEW i \in Pumps, NEW a \in 0 .. Len(host.log), NEW b \in 0 .. Len(host.log),
         a <= b, view[i] = SubSeq(host.log, 1, a), view' = [view EXCEPT ![i] = SubSeq(host.log, 1, b)]
  PROVE  FeedStep
<1> DEFINE v == [j \in Pumps |-> view[j]]
<1>0. /\ view = [j \in Clients |-> view[j]] /\ Pumps \subseteq Clients /\ host.log \in Seq(Nat)
  BY Constants DEF IInv, Dated
<1>1. v' = [v EXCEPT ![i] = SubSeq(host.log, 1, b)]
  BY <1>0
<1>2. CASE a = b
  <2>1. v' = v
    BY <1>1, <1>2
  <2>2. QED
    BY <2>1 DEF FeedStep, Feed!feed
<1>3. CASE a # b
  <2>1. \A k \in 1 .. a : host.log[k] \in Nat
    BY <1>0, SMTT(30)
  <2>2. Len(SubSeq(host.log, 1, a)) = a
    <3>1. a \in Nat /\ 1 \in Int /\ a \in Int
      OBVIOUS
    <3>2. Len(SubSeq(host.log, 1, a)) = IF 1 <= a THEN a - 1 + 1 ELSE 0
      BY ONLY <2>1, <3>1, SubSeqProperties
    <3>3. QED
      BY <3>1, <3>2
  <2>3. v[i] = SubSeq(host.log, 1, a)
    OBVIOUS
  <2>4. b \in Len(v[i]) + 1 .. Len(host.log)
    BY <1>0, <1>3, <2>2, <2>3
  <2>5. QED
    BY <1>1, <2>4 DEF FeedStep, Feed!Next, Feed!Show
<1>4. QED
  BY <1>2, <1>3

LEMMA FeedStays ==
  ASSUME IInv, UNCHANGED host.log, NEW i \in Clients, i \notin Pumps, NEW v, view' = [view EXCEPT ![i] = v]
  PROVE  FeedStep
<1>0. view = [j \in Clients |-> view[j]] /\ Pumps \subseteq Clients
  BY Constants DEF IInv
<1>1. [j \in Pumps |-> view[j]]' = [j \in Pumps |-> view[j]]
  BY <1>0
<1>2. QED
  BY <1>1 DEF FeedStep, Feed!feed

-----------------------------------------------------------------------------
(* Steps of the leader *)

\* Clients and their surfaces are as before.
LEMMA LeaderStep ==
  ASSUME IInv, Keeps(host, host'), UNCHANGED <<cut, client, view, opened>>, work' \in Nat,
         inbox' \in [Connections -> Seq(Requests)],
         \A c \in Connections : inbox[c] = <<>> => inbox'[c] = <<>>,
         \A i \in Pumps :
           /\ client[i].conn # 0 /\ client[i].conn \notin cut
           /\ Reads(Seat(host, client[i].conn), Len(host.log), inbox[client[i].conn], client[i], i)
           => Reads(Seat(host', client[i].conn), Len(host'.log), inbox'[client[i].conn], client[i], i)
  PROVE  IInv' /\ FeedStep
<1>1. Sound(host') /\ Grows(host.log, host.sequence, host'.log, host'.sequence)
  BY DEF Keeps
<1>2. \A k \in Connections : /\ host'.owner[k] \in {host.owner[k], NoClient}
                             /\ ~IsOpen(host, k) => host'.outbound[k] \in {host.outbound[k], <<>>}
  BY DEF Keeps
<1>3. Placed'
  <2>1. ASSUME NEW i \in Clients
        PROVE  /\ client[i].conn <= opened
               /\ client[i].conn # 0 => host'.owner[client[i].conn] \in {i, NoClient}
    <3>1. client[i].conn # 0 => client[i].conn \in Connections /\ host.owner[client[i].conn] \in {i, NoClient}
      BY Placing DEF IsOf
    <3>2. client[i].conn # 0 => host'.owner[client[i].conn] \in {host.owner[client[i].conn], NoClient}
      BY <1>2, <3>1
    <3>3. QED
      BY <3>1, <3>2 DEF IInv, Placed
  <2>2. ASSUME NEW c \in Connections, c > opened
        PROVE  ~IsOpen(host', c) /\ host'.outbound[c] = <<>> /\ inbox'[c] = <<>> /\ c \notin cut
    <3>1. ~IsOpen(host, c) /\ host.outbound[c] = <<>> /\ inbox[c] = <<>> /\ c \notin cut
      BY <2>2 DEF IInv, Placed
    <3>2. host'.owner[c] \in {host.owner[c], NoClient}
      BY <1>2
    <3>3. QED
      BY <1>2, <3>1, <3>2 DEF IsOpen
  <2>3. \A i, j \in Clients : i # j /\ client[i].conn # 0 => client[i].conn # client[j].conn
    BY DEF IInv, Placed
  <2>4. client' = client /\ opened' = opened /\ cut' = cut
    OBVIOUS
  <2>5. QED
    BY <2>1, <2>2, <2>3, <2>4 DEF Placed
<1>4. ASSUME NEW i \in Pumps PROVE Attends(host', inbox', cut, client[i], view[i], i)
  <2> DEFINE r == client[i]
  <2>1. Attends(host, inbox, cut, r, view[i], i) /\ r \in ClientStates
    BY Constants DEF IInv
  <2>2. r.cursor \in Int /\ r.cursor <= host.sequence
    BY <2>1, ClientFields DEF Attends
  <2>3. UpTo(host'.log, r.cursor) = UpTo(host.log, r.cursor)
    BY <1>1, <2>2, UpToLater DEF Grows
  <2>4. r.cursor <= host'.sequence
    <3>1. host.sequence \in Nat /\ host'.sequence \in Nat /\ host.sequence <= host'.sequence
      BY <1>1 DEF Grows, Dated
    <3>2. QED
      BY <2>2, <3>1
  <2>5. SubSeq(host'.log, 1, UpTo(host.log, r.cursor)) = SubSeq(host.log, 1, UpTo(host.log, r.cursor))
    <3> DEFINE u == UpTo(host.log, r.cursor)
               a == SubSeq(host'.log, 1, u)
               b == SubSeq(host.log, 1, u)
    <3>1. /\ Len(host.log) \in Nat /\ Len(host.log) <= Len(host'.log) /\ Len(host'.log) \in Nat
          /\ \A k \in 1 .. Len(host.log) : host'.log[k] = host.log[k] /\ host.log[k] \in Nat
      BY <1>1, SMTT(30) DEF Grows, Dated
    <3>2. u \in 0 .. Len(host.log)
      BY <2>2, UpToIs DEF IInv
    <3> HIDE DEF u
    <3>3. u \in Int /\ 1 \in Int /\ \A k \in 1 .. u : host.log[k] \in Nat /\ host'.log[k] \in Nat
      BY <3>1, <3>2
    <3>4. /\ a \in Seq(Nat) /\ b \in Seq(Nat)
          /\ Len(a) = IF 1 <= u THEN u - 1 + 1 ELSE 0
          /\ Len(b) = IF 1 <= u THEN u - 1 + 1 ELSE 0
          /\ \A k \in 1 .. u - 1 + 1 : a[k] = host'.log[1 + k - 1]
          /\ \A k \in 1 .. u - 1 + 1 : b[k] = host.log[1 + k - 1]
      BY ONLY <3>3, SubSeqProperties
    <3> HIDE DEF a, b
    <3>5. Len(a) = u /\ Len(b) = u
      BY <3>2, <3>4
    <3>6. \A k \in 1 .. u : k \in 1 .. u - 1 + 1 /\ 1 + k - 1 = k /\ k \in 1 .. Len(host.log)
      BY <3>1, <3>2
    <3>7. \A k \in 1 .. u : a[k] = b[k]
      BY <3>1, <3>4, <3>6
    <3>8. a = b
      BY <3>4, <3>5, <3>7, SeqEqual
    <3>9. QED
      BY <3>8 DEF a, b, u
  <2>6. QED
    BY <2>1, <2>3, <2>4, <2>5 DEF Attends
<1>5. Dated(host'.log, host'.sequence)
  BY <1>1 DEF Grows
<1>6. client' = client /\ view' = view /\ opened' = opened /\ cut' = cut
  OBVIOUS
<1>7. \A i \in Pumps : Attends(host', inbox', cut', client'[i], view'[i], i)
  BY <1>4, <1>6
<1>8. IInv'
  BY <1>1, <1>3, <1>5, <1>6, <1>7 DEF IInv
<1>9. FeedStep
  BY <1>1, <1>6, FeedGrows
<1>10. QED
  BY <1>8, <1>9

LEMMA HandleInv ==
  ASSUME IInv, NEW c \in Connections, Handle(c)
  PROVE  IInv' /\ FeedStep
<1> DEFINE q == Head(inbox[c])
<1>1. PICK order \in SetToSeqs(host.subscribers \cup {c}), n \in EventCounts \cup {0} :
        host' = HandleRequest(host, c, q, n, order)
  BY DEF Handle
<1>2. /\ inbox[c] # <<>> /\ inbox[c] \in Seq(Requests) /\ inbox' = [inbox EXCEPT ![c] = Tail(inbox[c])]
      /\ UNCHANGED <<cut, client, view, opened, work>>
  BY DEF Handle, IInv
<1>3. q \in Requests /\ Tail(inbox[c]) \in Seq(Requests)
  BY <1>2, HeadTailProperties
<1>4. n \in Nat
  BY <1>1, DeliveryAssumption
<1>5. Sound(host) /\ Dated(host.log, host.sequence)
  BY DEF IInv
<1>6. Serves(host, host', c, q, n)
  BY <1>1, <1>3, <1>4, <1>5, ServesRequest
<1>7. ASSUME NEW k \in Connections PROVE Turn(c, q, k, inbox[k], inbox'[k])
  BY <1>2 DEF Turn, IInv
<1> HIDE DEF q
<1>8. ASSUME NEW i \in Pumps, client[i].conn # 0,
             Reads(Seat(host, client[i].conn), Len(host.log), inbox[client[i].conn], client[i], i)
      PROVE  Reads(Seat(host', client[i].conn), Len(host'.log), inbox'[client[i].conn], client[i], i)
  <2> DEFINE r == client[i]
             k == client[i].conn
  <2>1. k \in Connections /\ IsOf(host, k, i)
    BY <1>8, Placing, Constants
  <2>2. r \in ClientStates /\ r.cursor <= host.sequence
    BY Constants DEF IInv, Attends
  <2>3. r.cursor \in Int
    BY <2>2, ClientFields
  <2>4. Turn(c, q, k, inbox[k], inbox'[k])
    BY <1>7, <2>1
  <2>5. Reads(Seat(host, k), Len(host.log), inbox[k], r, i)
    BY <1>8
  <2> HIDE DEF r, k
  <2>6. Reads(Seat(host', k), Len(host'.log), inbox'[k], r, i)
    BY <1>6, <2>1, <2>2, <2>3, <2>4, <2>5 DEF Serves
  <2>7. QED
    BY <2>6 DEF r, k
<1>9. Keeps(host, host')
  BY <1>6 DEF Serves
<1>10. inbox' \in [Connections -> Seq(Requests)] /\ \A k \in Connections : inbox[k] = <<>> => inbox'[k] = <<>>
  BY <1>2, <1>3 DEF IInv
<1>11. work' \in Nat
  BY <1>2 DEF IInv
<1>12. QED
  BY <1>2, <1>8, <1>9, <1>10, <1>11, LeaderStep

LEMMA PublishInv ==
  ASSUME IInv, Publish
  PROVE  IInv' /\ FeedStep
<1>1. PICK order \in SetToSeqs(host.subscribers), n \in EventCounts \ {0} :
        host' = Published(host, n, FALSE, order)
  BY DEF Publish
<1>2. UNCHANGED <<inbox, cut, client, view, opened>> /\ work' = work + 1
  BY DEF Publish, Works
<1>3. n \in Nat
  BY <1>1, DeliveryAssumption
<1>4. Sound(host) /\ Dated(host.log, host.sequence) /\ host.subscribers \in SUBSET Connections /\ work \in Nat
  BY HostFields DEF IInv, Sound
<1>5. Visits(order, host)
  BY <1>1, <1>4, OrderVisits
<1>6. /\ Keeps(host, host')
      /\ \A k, i, box, r :
           i \in Pumps /\ IsOf(host, k, i) /\ r.cursor \in Int /\ r.cursor <= host.sequence
           /\ Reads(Seat(host, k), Len(host.log), box, r, i)
           => Reads(Seat(host', k), Len(host'.log), box, r, i)
  BY <1>1, <1>3, <1>4, <1>5, PublishedKeeps
<1>7. ASSUME NEW i \in Pumps, client[i].conn # 0,
             Reads(Seat(host, client[i].conn), Len(host.log), inbox[client[i].conn], client[i], i)
      PROVE  Reads(Seat(host', client[i].conn), Len(host'.log), inbox'[client[i].conn], client[i], i)
  <2>1. IsOf(host, client[i].conn, i)
    BY <1>7, Placing, Constants
  <2>2. client[i] \in ClientStates /\ client[i].cursor <= host.sequence
    BY Constants DEF IInv, Attends
  <2>3. client[i].cursor \in Int
    BY <2>2, ClientFields
  <2>4. Reads(Seat(host', client[i].conn), Len(host'.log), inbox[client[i].conn], client[i], i)
    BY <1>6, <1>7, <2>1, <2>2, <2>3
  <2>5. QED
    BY <1>2, <2>4
<1>8. inbox' \in [Connections -> Seq(Requests)] /\ work' \in Nat
  BY <1>2, <1>4 DEF IInv
<1>9. \A c \in Connections : inbox[c] = <<>> => inbox'[c] = <<>>
  BY <1>2
<1>10. QED
  BY <1>2, <1>6, <1>7, <1>8, <1>9, LeaderStep

LEMMA ReplaceLeaderInv ==
  ASSUME IInv, ReplaceLeader
  PROVE  IInv' /\ FeedStep
<1>1. PICK epoch \in host.saved .. host.epoch :
        host' = [host EXCEPT !.owner = [c \in Connections |-> NoClient], !.subscribers = {},
                             !.driver = NoLease, !.epoch = epoch + 1, !.saved = epoch + 1,
                             !.forgot = @ \/ epoch < host.epoch,
                             !.outbound = [c \in Connections |-> <<>>]]
  BY Zenon DEF ReplaceLeader
<1>2. UNCHANGED <<cut, client, view, opened>> /\ work' = work + 1 /\ inbox' = [c \in Connections |-> <<>>]
  BY DEF ReplaceLeader, Works
<1>3. host \in Hosts /\ Dated(host.log, host.sequence) /\ work \in Nat
  BY DEF IInv, Sound
<1>4. epoch + 1 \in Nat /\ host.saved \in Nat
  BY <1>1, <1>3, HostFields
<1>5. /\ host' \in Hosts /\ host'.log = host.log /\ host'.sequence = host.sequence /\ host'.driver = NoLease
      /\ host'.subscribers = {} /\ host'.owner = [c \in Connections |-> NoClient]
      /\ host'.outbound = [c \in Connections |-> <<>>]
  <2>1. (host.forgot \/ epoch < host.epoch) \in BOOLEAN
    OBVIOUS
  <2> DEFINE o == [c \in Connections |-> NoClient]
             b == [c \in Connections |-> <<>>]
             f == host.forgot \/ epoch < host.epoch
  <2>2. o \in [Connections -> Clients \cup {NoClient}] /\ b \in [Connections -> Seq(Messages)] /\ NoLease \in Leases
    BY LeaseTypes
  <2>3. host' = [host EXCEPT !.owner = o, !.subscribers = {}, !.driver = NoLease, !.epoch = epoch + 1,
                             !.saved = epoch + 1, !.forgot = f, !.outbound = b]
    BY <1>1
  <2>4. f \in BOOLEAN
    OBVIOUS
  <2> HIDE DEF o, b, f
  <2>5. QED
    BY <1>3, <1>4, <2>2, <2>3, <2>4 DEF Hosts, o, b
<1>6. Sound(host')
  BY <1>5 DEF Sound
<1>7. Grows(host.log, host.sequence, host'.log, host'.sequence)
  BY <1>3, <1>5, GrowsSame
<1>8. Keeps(host, host')
  BY <1>5, <1>6, <1>7 DEF Keeps
<1>9. ASSUME NEW i \in Pumps, client[i].conn # 0,
             Reads(Seat(host, client[i].conn), Len(host.log), inbox[client[i].conn], client[i], i)
      PROVE  Reads(Seat(host', client[i].conn), Len(host'.log), inbox'[client[i].conn], client[i], i)
  <2> DEFINE k == client[i].conn
             s == Seat(host', k)
  <2>1. k \in Connections
    BY <1>9, Placing, Constants
  <2>2. s.queue = <<>> /\ ~s.open /\ ~s.subscribed /\ s.log = host.log /\ s.sequence = host.sequence /\ inbox'[k] = <<>>
    BY <1>2, <1>5, <2>1, SeatFields DEF IsOpen
  <2>3. client[i].cursor \in Int
    BY ClientFields, Constants DEF IInv
  <2> HIDE DEF s
  <2>4. s.queue \in Seq(Messages) /\ Len(s.queue) = 0
    BY <2>2
  <2>5. UpTo(s.log, client[i].cursor) \in 0 .. Len(s.log)
    BY <1>3, <2>2, <2>3, UpToIs
  <2>6. Follows(s, Len(host'.log), client[i])
    BY <2>2, <2>5, CarriesNothing DEF Follows
  <2>7. Told(s, client[i], i) /\ Attended(s, client[i]) /\ Answered(s, client[i])
    BY <2>2, <2>4 DEF Told, Attended, Answered
  <2>8. Boxed(s, <<>>, client[i])
    BY <2>2 DEF Boxed
  <2>9. Reads(s, Len(host'.log), <<>>, client[i], i)
    BY <1>3, <2>2, <2>4, <2>6, <2>7, <2>8 DEF Reads
  <2>10. QED
    BY <2>2, <2>9 DEF s
<1>10. inbox' \in [Connections -> Seq(Requests)] /\ work' \in Nat /\ \A c \in Connections : inbox'[c] = <<>>
  BY <1>2, <1>3
<1>11. QED
  BY <1>2, <1>8, <1>9, <1>10, LeaderStep

-----------------------------------------------------------------------------
(* Steps of a client, on its connection *)

\* g is h, but for what is queued for c.
Nearby(h, g, c) ==
  /\ g \in Hosts /\ g.owner = h.owner /\ g.subscribers = h.subscribers /\ g.driver = h.driver
  /\ g.epoch = h.epoch /\ g.sequence = h.sequence /\ g.log = h.log
  /\ \A k \in Connections \ {c} : g.outbound[k] = h.outbound[k]

LEMMA NearbySame ==
  ASSUME NEW h \in Hosts, NEW c
  PROVE  Nearby(h, h, c)
BY DEF Nearby

\* Queue q for c.
LEMMA QueuedIs ==
  ASSUME NEW h \in Hosts, NEW c \in Connections, NEW q \in Seq(Messages)
  PROVE  /\ Nearby(h, [h EXCEPT !.outbound[c] = q], c)
         /\ [h EXCEPT !.outbound[c] = q].outbound[c] = q
<1> DEFINE b == [h.outbound EXCEPT ![c] = q]
<1>1. b \in [Connections -> Seq(Messages)] /\ b[c] = q /\ \A k \in Connections \ {c} : b[k] = h.outbound[k]
  BY HostFields
<1>2. [h EXCEPT !.outbound[c] = q] = [h EXCEPT !.outbound = b]
  OBVIOUS
<1> HIDE DEF b
<1>3. [h EXCEPT !.outbound = b] \in Hosts
  BY <1>1 DEF Hosts
<1>4. QED
  BY <1>1, <1>2, <1>3 DEF Nearby, Hosts

LEMMA NearbySound ==
  ASSUME NEW h, Sound(h), NEW g, NEW c, Nearby(h, g, c)
  PROVE  Sound(g)
BY DEF Sound, Nearby, IsOpen

LEMMA NearbySeat ==
  ASSUME NEW h, NEW g, NEW c, Nearby(h, g, c), NEW k \in Connections \ {c}
  PROVE  Seat(g, k) = Seat(h, k)
BY DEF Nearby, Seat, IsOpen

LEMMA ClientStep ==
  ASSUME IInv, NEW i \in Clients, NEW t, NEW c, c = client[i].conn, c # 0, IsClient(t), t.conn = c,
         client' = [client EXCEPT ![i] = t], Nearby(host, host', c),
         inbox' \in [Connections -> Seq(Requests)], \A k \in Connections \ {c} : inbox'[k] = inbox[k],
         cut' \in {cut, cut \cup {c}}, opened' = opened, work' \in Nat,
         view' = [j \in Clients |-> view'[j]], \A j \in Clients \ {i} : view'[j] = view[j],
         i \in Pumps => Attends(host', inbox', cut', t, view'[i], i)
  PROVE  IInv'
<1>1. c \in Connections /\ c <= opened
  BY Placing DEF IInv, Placed
<1>2. Sound(host') /\ Dated(host'.log, host'.sequence)
  BY NearbySound DEF IInv, Nearby
<1>3. client' \in [Clients -> ClientStates] /\ client'[i] = t /\ \A j \in Clients \ {i} : client'[j] = client[j]
  BY DEF IInv, IsClient
<1>4. \A j \in Clients : IsClient(client'[j])
  BY <1>3 DEF IInv
<1>5. \A j \in Clients : client'[j].conn = client[j].conn
  BY <1>3
<1>6. cut' \subseteq Connections /\ cut \subseteq cut' /\ cut' \subseteq cut \cup {c}
  BY <1>1 DEF IInv
<1>7. Placed'
  <2>1. ASSUME NEW k \in Connections, k > opened
        PROVE  ~IsOpen(host', k) /\ host'.outbound[k] = <<>> /\ inbox'[k] = <<>> /\ k \notin cut'
    <3>1. k # c
      BY <1>1, <2>1, Constants DEF IInv
    <3>2. k \in Connections \ {c} /\ k \notin cut'
      BY <1>6, <2>1, <3>1 DEF IInv, Placed
    <3>3. QED
      BY <2>1, <3>2 DEF IInv, Placed, Nearby, IsOpen
  <2>2. \A j \in Clients : /\ client[j].conn <= opened
                           /\ client[j].conn # 0 => host'.owner[client[j].conn] \in {j, NoClient}
    BY DEF IInv, Placed, Nearby
  <2>3. \A j, x \in Clients : j # x /\ client[j].conn # 0 => client[j].conn # client[x].conn
    BY DEF IInv, Placed
  <2>4. QED
    BY <1>5, <2>1, <2>2, <2>3 DEF Placed
<1>8. ASSUME NEW j \in Pumps PROVE Attends(host', inbox', cut', client'[j], view'[j], j)
  <2>1. CASE j = i
    BY <1>3, <2>1
  <2>2. CASE j # i
    <3> DEFINE r == client[j]
               k == r.conn
    <3>1. j \in Clients \ {i} /\ client'[j] = r /\ view'[j] = view[j] /\ Attends(host, inbox, cut, r, view[j], j)
      BY <1>3, <2>2, Constants DEF IInv
    <3>2. ASSUME k # 0, k \notin cut' PROVE Reads(Seat(host', k), Len(host'.log), inbox'[k], r, j)
      <4>1. k \in Connections
        BY <3>1, <3>2, Placing
      <4>2. k # c
        BY <3>1, <3>2 DEF IInv, Placed
      <4>3. k \in Connections \ {c}
        BY <4>1, <4>2
      <4>4. inbox'[k] = inbox[k] /\ Seat(host', k) = Seat(host, k) /\ host'.log = host.log
        <5> HIDE DEF k
        <5>1. Seat(host', k) = Seat(host, k)
          BY <4>3, NearbySeat
        <5>2. QED
          BY <4>3, <5>1 DEF Nearby
      <4>5. Reads(Seat(host, k), Len(host.log), inbox[k], r, j)
        BY <1>6, <3>1, <3>2 DEF Attends
      <4>6. QED
        BY <4>4, <4>5
    <3>3. host'.log = host.log /\ host'.sequence = host.sequence
      BY DEF Nearby
    <3>4. QED
      BY <3>1, <3>2, <3>3 DEF Attends
  <2>3. QED
    BY <2>1, <2>2
<1>9. opened' \in Nat /\ opened' <= MaxConnections
  BY DEF IInv
<1>10. QED
  BY <1>2, <1>3, <1>4, <1>6, <1>7, <1>8, <1>9 DEF IInv

LEMMA FeedSame ==
  ASSUME IInv, UNCHANGED view, host'.log = host.log, host'.sequence = host.sequence
  PROVE  FeedStep
<1>1. Grows(host.log, host.sequence, host'.log, host'.sequence)
  BY GrowsSame DEF IInv
<1>2. QED
  BY <1>1, FeedGrows

-----------------------------------------------------------------------------
(* A client reads *)

LEMMA TakenIs ==
  ASSUME IInv, NEW i \in Clients, HasArrived(i)
  PROVE  LET c == client[i].conn IN
         /\ c \in Connections /\ c # 0 /\ c \notin cut /\ client[i] \in ClientStates /\ client[i].phase # "new"
         /\ client[i].phase # "failed" /\ client[i].phase # "broken"
         /\ Nearby(host, Taken(i), c) /\ Arriving(i) \in Messages /\ Arriving(i) = Head(host.outbound[c])
         /\ IsTaken(Seat(host, c), Seat(Taken(i), c))
<1> DEFINE c == client[i].conn
           q == host.outbound[c]
<1>1. /\ client[i] \in ClientStates /\ client[i].phase \in {"joining", "ready", "waiting", "rejoining"} /\ c # 0
      /\ c \notin cut /\ q # <<>> /\ host \in Hosts
  BY DEF HasArrived, IInv, IsClient, Sound
<1>2. c \in Connections
  BY <1>1, Placing
<1>3. q \in Seq(Messages)
  BY <1>1, <1>2, HostFields
<1>4. Tail(q) \in Seq(Messages) /\ Head(q) \in Messages
  BY <1>1, <1>3, HeadTailProperties
<1>5. Taken(i) = [host EXCEPT !.outbound[c] = Tail(q)]
  BY DEF Taken
<1> HIDE DEF q
<1>6. Nearby(host, Taken(i), c) /\ Taken(i).outbound[c] = Tail(q)
  <2> DEFINE x == Tail(q)
  <2>1. x \in Seq(Messages) /\ Taken(i) = [host EXCEPT !.outbound[c] = x] /\ host \in Hosts /\ c \in Connections
    BY <1>1, <1>2, <1>4, <1>5
  <2> HIDE DEF x, c
  <2>2. Nearby(host, Taken(i), c) /\ Taken(i).outbound[c] = x
    BY <2>1, QueuedIs
  <2>3. QED
    BY <2>2 DEF x
<1>7. IsTaken(Seat(host, c), Seat(Taken(i), c))
  BY <1>1, <1>6, SeatFields DEF IsTaken, Nearby, IsOpen, q
<1>8. QED
  BY <1>1, <1>2, <1>4, <1>6, <1>7 DEF Arriving, q

\* A pump reads m, and is t after it.
LEMMA PumpReads ==
  ASSUME IInv, NEW i \in Pumps, HasArrived(i), NEW r, r = client[i], NEW m, m = Arriving(i), NEW t,
         t.cursor = IF m.kind \in {"event", "snapshot"} THEN Max2(r.cursor, m.at)
                    ELSE IF m.kind = "attached" THEN m.at ELSE r.cursor,
         IsConvinced(m, r, t, i), IsDone(m, r, t),
         t.phase \in {"ready", "waiting"} /\ IsOpen(host, r.conn) => r.conn \in host.subscribers \/ t.lease # 0
  PROVE  LET s == Seat(host, r.conn)
             u == Seat(Taken(i), r.conn)
             log == host.log
             a == UpTo(log, r.cursor)
             b == UpTo(log, t.cursor)
         IN
         /\ Reads(s, Len(log), inbox[r.conn], r, i) /\ Reads(u, Len(log), inbox[r.conn], t, i)
         /\ IsOpen(host, r.conn) => NoAttach(inbox[r.conn])
         /\ t.cursor \in Int /\ t.cursor <= host.sequence
         /\ a \in 0 .. Len(log) /\ b \in 0 .. Len(log) /\ a <= b
         /\ view[i] = SubSeq(log, 1, a) /\ Shown(view[i], m) = SubSeq(log, 1, b)
         /\ m.kind \notin {"event", "snapshot"} => a = b
<1> DEFINE c == r.conn
           s == Seat(host, c)
           u == Seat(Taken(i), c)
           log == host.log
           a == UpTo(log, r.cursor)
<1>1. /\ c \in Connections /\ c # 0 /\ c \notin cut /\ r \in ClientStates
      /\ Nearby(host, Taken(i), c) /\ m \in Messages /\ m = Head(host.outbound[c])
      /\ IsTaken(s, u)
  BY TakenIs, Constants, SMTT(30)
<1>2. Attends(host, inbox, cut, r, view[i], i) /\ Dated(log, host.sequence) /\ inbox[c] \in Seq(Requests)
  BY <1>1 DEF IInv
<1>3. r.cursor \in Int /\ r.cursor <= host.sequence /\ view[i] = SubSeq(log, 1, a) /\ Reads(s, Len(log), inbox[c], r, i)
  BY <1>1, <1>2, ClientFields DEF Attends
<1>4. /\ s.queue = host.outbound[c] /\ s.log = log /\ s.sequence = host.sequence
      /\ (s.open <=> IsOpen(host, c)) /\ (s.subscribed <=> c \in host.subscribers)
  BY SeatFields, SMTT(30)
<1> HIDE DEF s, u
<1>5. s.queue \in Seq(Messages) /\ s.queue # <<>> /\ Head(s.queue) = m
  BY <1>1, <1>3, <1>4 DEF Reads, IsTaken
<1>6. PICK e \in 0 .. Len(log) : Carries(s.queue, log, host.sequence, a, e)
  BY <1>3, <1>4 DEF Reads, Follows
<1>7. PICK b \in 0 .. Len(log) : IsMove(log, host.sequence, m, a, b)
  BY <1>5, <1>6, CarriesTail
<1>8a. ASSUME NEW x \in 0 .. Len(log), IsMove(log, host.sequence, m, a, x)
       PROVE  t.cursor \in Int /\ t.cursor <= host.sequence /\ UpTo(log, t.cursor) = x
  <2> DEFINE l == t.cursor
             k == r.cursor
             n == host.sequence
  <2>1. /\ l = IF m.kind \in {"event", "snapshot"} THEN Max2(k, m.at) ELSE IF m.kind = "attached" THEN m.at ELSE k
        /\ Dated(log, n) /\ m \in Messages /\ k \in Int /\ k <= n /\ IsMove(log, n, m, UpTo(log, k), x)
    BY <1>1, <1>2, <1>3, <1>8a
  <2> HIDE DEF l, k, n, log
  <2>2. l \in Int /\ l <= n /\ UpTo(log, l) = x
    BY <1>8a, <2>1, CursorIs
  <2>3. QED
    BY <2>2, SMTT(30) DEF l, n
<1>8. t.cursor \in Int /\ t.cursor <= host.sequence /\ UpTo(log, t.cursor) = b
  BY <1>7, <1>8a
<1>9. IsMoved(s, m, r, t)
  <2>1. ASSUME NEW x \in 0 .. Len(log), IsMove(log, host.sequence, m, a, x) PROVE UpTo(log, t.cursor) = x
    BY <1>8a, <2>1
  <2>2. QED
    BY <1>4, <2>1 DEF IsMoved
<1>10. Reads(u, Len(log), inbox[c], t, i) /\ (s.open => NoAttach(inbox[c]))
  <2>1. t.phase \in {"ready", "waiting"} /\ s.open => s.subscribed \/ t.lease # 0
    BY <1>4
  <2>2. m = Head(s.queue)
    BY <1>5
  <2> DEFINE box == inbox[c]
             d == Len(log)
  <2>3. box \in Seq(Requests) /\ Reads(s, d, box, r, i)
    BY <1>2, <1>3, SMTT(30)
  <2> HIDE DEF box, d
  <2>4. Reads(u, d, box, t, i) /\ (s.open => NoAttach(box))
    BY <1>1, <1>9, <2>1, <2>2, <2>3, TakenReads
  <2>5. QED
    BY <2>4 DEF box, d
<1>11. a \in 0 .. Len(log)
  BY <1>2, <1>3, UpToIs, Zenon
<1>12. a <= b /\ Shown(SubSeq(log, 1, a), m) = SubSeq(log, 1, b)
  BY <1>1, <1>2, <1>7, <1>11, ShownIs, Zenon
<1>13. m.kind \notin {"event", "snapshot"} => a = b
  BY <1>7 DEF IsMove
<1>14. QED
  BY <1>3, <1>4, <1>8, <1>10, <1>11, <1>12, <1>13 DEF s, u

\* The requests of connection c after one more, or none.
IsMore(inb, inb2, c, q) ==
  inb2 = inb \/ (q \in Requests /\ q.kind = "command" /\ inb2 = [inb EXCEPT ![c] = Append(inb[c], q)])

LEMMA MoreIs ==
  ASSUME NEW inb \in [Connections -> Seq(Requests)], NEW c \in Connections, NEW q, NEW inb2, IsMore(inb, inb2, c, q)
  PROVE  inb2 \in [Connections -> Seq(Requests)] /\ \A k \in Connections \ {c} : inb2[k] = inb[k]
<1>1. CASE inb2 = inb
  BY <1>1
<1>2. CASE q \in Requests /\ inb2 = [inb EXCEPT ![c] = Append(inb[c], q)]
  <2>1. Append(inb[c], q) \in Seq(Requests)
    BY <1>2, AppendProperties
  <2>2. QED
    BY <1>2, <2>1
<1>3. QED
  BY <1>1, <1>2 DEF IsMore

\* What client i shows after the step.
IsShown(v, v2, i, m) == v2 = v \/ v2 = [v EXCEPT ![i] = Shown(v[i], m)]

LEMMA ShownOnly ==
  ASSUME IInv, NEW i \in Clients, NEW m, IsShown(view, view', i, m)
  PROVE  /\ view' = [j \in Clients |-> view'[j]] /\ \A j \in Clients \ {i} : view'[j] = view[j]
         /\ view'[i] \in {view[i], Shown(view[i], m)}
<1> DEFINE x == Shown(view[i], m)
<1>1. view = [j \in Clients |-> view[j]] /\ (view' = view \/ view' = [view EXCEPT ![i] = x])
  BY DEF IInv, IsShown
<1> HIDE DEF x
<1>2. /\ view' = [j \in Clients |-> view'[j]] /\ \A j \in Clients \ {i} : view'[j] = view[j]
      /\ view'[i] \in {view[i], x}
  BY <1>1
<1>3. QED
  BY <1>2 DEF x

\* Pump i reads m, and is t after it.
LEMMA PumpStep ==
  ASSUME IInv, NEW i \in Pumps, HasArrived(i), NEW r, r = client[i], NEW m, m = Arriving(i), NEW t,
         t.cursor = IF m.kind \in {"event", "snapshot"} THEN Max2(r.cursor, m.at)
                    ELSE IF m.kind = "attached" THEN m.at ELSE r.cursor,
         IsConvinced(m, r, t, i), IsDone(m, r, t),
         t.phase \in {"ready", "waiting"} /\ IsOpen(host, r.conn) => r.conn \in host.subscribers \/ t.lease # 0,
         IsClient(t), IsPump(t), t.conn = r.conn,
         host' = Taken(i), client' = [client EXCEPT ![i] = t], UNCHANGED <<cut, opened, work>>,
         NEW q, IsMore(inbox, inbox', r.conn, q), inbox' = inbox \/ ~IsJoining(t),
         IsShown(view, view', i, m), m.kind \in {"event", "snapshot"} => view' = [view EXCEPT ![i] = Shown(view[i], m)]
  PROVE  IInv' /\ FeedStep
<1> DEFINE c == r.conn
           s == Seat(host, c)
           u == Seat(host', c)
           log == host.log
           a == UpTo(log, r.cursor)
           b == UpTo(log, t.cursor)
<1>0. i \in Clients
  BY Constants
<1>1. c \in Connections /\ c # 0 /\ c \notin cut /\ Nearby(host, host', c) /\ m \in Messages
  BY <1>0, TakenIs
<1>2. /\ Reads(u, Len(log), inbox[c], t, i)
      /\ t.cursor \in Int /\ t.cursor <= host.sequence
      /\ a \in 0 .. Len(log) /\ b \in 0 .. Len(log) /\ a <= b
      /\ view[i] = SubSeq(log, 1, a) /\ Shown(view[i], m) = SubSeq(log, 1, b)
      /\ m.kind \notin {"event", "snapshot"} => a = b
  BY PumpReads
<1>3. inbox \in [Connections -> Seq(Requests)] /\ work \in Nat
  BY DEF IInv
<1>4. inbox' \in [Connections -> Seq(Requests)] /\ \A k \in Connections \ {c} : inbox'[k] = inbox[k]
  BY <1>1, <1>3, MoreIs
<1> HIDE DEF u
<1>5. Reads(u, Len(log), inbox'[c], t, i)
  <2>1. CASE inbox' = inbox
    BY <1>2, <2>1
  <2>2. CASE inbox' # inbox
    <3>1. q \in Requests /\ q.kind = "command" /\ inbox'[c] = Append(inbox[c], q) /\ ~IsJoining(t) /\ inbox[c] \in Seq(Requests)
      BY <1>1, <1>3, <2>2 DEF IsMore
    <3>2. Reads(u, Len(log), Append(inbox[c], q), t, i)
      BY <1>2, <3>1, SentReads
    <3>3. QED
      BY <3>1, <3>2
  <2>3. QED
    BY <2>1, <2>2
<1>6. view' = [view EXCEPT ![i] = SubSeq(log, 1, b)]
  <2>1. CASE view' = [view EXCEPT ![i] = Shown(view[i], m)]
    BY <1>2, <2>1
  <2>2. CASE view' = view /\ m.kind \notin {"event", "snapshot"}
    <3>1. view[i] = SubSeq(log, 1, b) /\ view = [j \in Clients |-> view[j]]
      BY <1>2, <2>2 DEF IInv
    <3> DEFINE x == SubSeq(log, 1, b)
    <3>2. view[i] = x /\ view = [j \in Clients |-> view[j]]
      BY <3>1
    <3> HIDE DEF x
    <3>3. view' = [view EXCEPT ![i] = x]
      BY <1>0, <2>2, <3>2
    <3>4. QED
      BY <3>3 DEF x
  <2>3. QED
    BY <2>1, <2>2 DEF IsShown
<1>7. /\ view' = [j \in Clients |-> view'[j]] /\ \A j \in Clients \ {i} : view'[j] = view[j]
      /\ view'[i] = SubSeq(log, 1, b)
  <2> DEFINE x == SubSeq(log, 1, b)
  <2>1. view' = [view EXCEPT ![i] = x] /\ view = [j \in Clients |-> view[j]]
    BY <1>6 DEF IInv
  <2> HIDE DEF x
  <2>2. view' = [j \in Clients |-> view'[j]] /\ (\A j \in Clients \ {i} : view'[j] = view[j]) /\ view'[i] = x
    BY <1>0, <2>1
  <2>3. QED
    BY <2>2 DEF x
<1>8. host'.log = host.log /\ host'.sequence = host.sequence
  BY <1>1 DEF Nearby
<1>9. Attends(host', inbox', cut', t, view'[i], i)
  BY <1>2, <1>5, <1>7, <1>8 DEF Attends, u
<1>10. IInv'
  BY <1>0, <1>1, <1>3, <1>4, <1>7, <1>9, ClientStep
<1>11. FeedStep
  BY <1>2, <1>6, <1>8, FeedShows
<1>12. QED
  BY <1>10, <1>11

\* A client that is not a pump.
LEMMA OtherStep ==
  ASSUME IInv, NEW i \in Clients, i \notin Pumps, NEW c, c = client[i].conn, c # 0, NEW t, IsClient(t), t.conn = c,
         client' = [client EXCEPT ![i] = t], Nearby(host, host', c),
         inbox' \in [Connections -> Seq(Requests)], \A k \in Connections \ {c} : inbox'[k] = inbox[k],
         cut' \in {cut, cut \cup {c}}, opened' = opened, work' \in Nat,
         NEW m, IsShown(view, view', i, m)
  PROVE  IInv' /\ FeedStep
<1>1. view' = [j \in Clients |-> view'[j]] /\ \A j \in Clients \ {i} : view'[j] = view[j]
  BY ShownOnly
<1>2. IInv'
  BY <1>1, ClientStep
<1>3. host'.log = host.log /\ host'.sequence = host.sequence
  BY DEF Nearby
<1>4. FeedStep
  <2>1. CASE view' = view
    BY <1>3, <2>1, FeedSame
  <2>2. CASE view' = [view EXCEPT ![i] = Shown(view[i], m)]
    BY <1>3, <2>2, FeedStays
  <2>3. QED
    BY <2>1, <2>2 DEF IsShown
<1>5. QED
  BY <1>2, <1>4

\* What a pump may have to read.
LEMMA PumpHears ==
  ASSUME IInv, NEW i \in Pumps, HasArrived(i), NEW r, r = client[i], NEW m, m = Arriving(i)
  PROVE  /\ IsPump(r) /\ r \in ClientStates /\ m \in Messages
         /\ m.kind = "attached" => IsJoining(r) /\ (m.epoch = 0 => r.mode = "view")
         /\ m = Rejected(0) => IsJoining(r) /\ r.mode = "drive"
         /\ m.kind \in Marks /\ IsOpen(host, r.conn) => r.conn \in host.subscribers
         /\ r.phase \in {"ready", "waiting"} /\ IsOpen(host, r.conn) => r.conn \in host.subscribers \/ r.lease # 0
<1> DEFINE c == r.conn
           s == Seat(host, c)
<1>1. /\ c \in Connections /\ c # 0 /\ c \notin cut /\ r \in ClientStates /\ m \in Messages /\ m = Head(host.outbound[c])
      /\ host.outbound[c] # <<>>
  BY TakenIs, Constants DEF HasArrived
<1>2. IsPump(r) /\ Reads(s, Len(host.log), inbox[c], r, i)
  BY <1>1 DEF IInv, Attends
<1>3. s.queue = host.outbound[c] /\ (s.open <=> IsOpen(host, c)) /\ (s.subscribed <=> c \in host.subscribers)
  BY SeatFields
<1> HIDE DEF s
<1>4. s.queue \in Seq(Messages) /\ Attended(s, r) /\ Answered(s, r)
  BY <1>2 DEF Reads
<1>5. 1 \in 1 .. Len(s.queue) /\ s.queue[1] = m
  BY <1>1, <1>3, <1>4
<1>6. QED
  BY <1>1, <1>2, <1>3, <1>4, <1>5 DEF Attended, Answered

LEMMA ReadPushInv ==
  ASSUME IInv, NEW i \in Clients, ReadPush(i)
  PROVE  IInv' /\ FeedStep
<1> DEFINE m == Arriving(i)
           r == client[i]
           c == r.conn
           g == Acknowledge(r, i, m)
<1>1. /\ HasArrived(i) /\ ~IsAnswer(r, m) /\ host' = Taken(i) /\ UNCHANGED <<inbox, cut, opened, work>>
  BY DEF ReadPush
<1>2. /\ c \in Connections /\ c # 0 /\ r \in ClientStates /\ r.phase # "new" /\ Nearby(host, host', c) /\ m \in Messages
  BY <1>1, TakenIs
<1>3. /\ g \in ClientStates /\ g.phase = r.phase /\ g.conn = r.conn /\ g.op = r.op
      /\ g.inflight = r.inflight /\ g.pending = r.pending /\ g.buffered = r.buffered
      /\ g.cursor = IF m.kind \in {"event", "snapshot"} THEN Max2(r.cursor, m.at) ELSE r.cursor
      /\ m.kind = "driver" => g.lease = Says(m, i) /\ (g.mode = "drive" => g.lease # 0)
      /\ m.kind # "driver" => g.lease = r.lease /\ g.mode = r.mode
  BY <1>2, AcknowledgeIs
<1>4. IsClient(g)
  BY <1>2, <1>3 DEF IsClient
<1>5. CASE i \in Pumps
  <2>1. /\ IsPump(r)
        /\ m.kind = "attached" => IsJoining(r)
        /\ m = Rejected(0) => IsJoining(r)
        /\ m.kind \in Marks /\ IsOpen(host, c) => c \in host.subscribers
        /\ r.phase \in {"ready", "waiting"} /\ IsOpen(host, c) => c \in host.subscribers \/ r.lease # 0
    BY <1>1, <1>5, PumpHears
  <2>2. IsJoining(r) => ~(~IsPush(m) /\ m.id = 0)
    BY <1>1 DEF IsAnswer, Awaited, IsJoining
  <2>3. m.kind # "attached" /\ m # Rejected(0)
    <3>1. CASE m.kind = "attached"
      BY <1>2, <2>1, <2>2, <3>1, MessageFields DEF IsPush
    <3>2. CASE m = Rejected(0)
      <4>1. m.kind = "rejected" /\ m.id = 0
        BY <3>2, MessageTypes
      <4>2. QED
        BY <2>1, <2>2, <3>2, <4>1 DEF IsPush
    <3>3. QED
      BY <3>1, <3>2
  <2>4. client' = [client EXCEPT ![i] = g] /\ view' = [view EXCEPT ![i] = Shown(view[i], m)]
    BY <1>5 DEF ReadPush
  <2> HIDE DEF g, m
  <2>5. g.cursor = IF m.kind \in {"event", "snapshot"} THEN Max2(r.cursor, m.at)
                   ELSE IF m.kind = "attached" THEN m.at ELSE r.cursor
    BY <1>3, <2>3
  <2>6. IsConvinced(m, r, g, i)
    BY <1>3, <2>3 DEF IsConvinced, Marks
  <2>7. IsDone(m, r, g)
    BY <1>3, <2>3 DEF IsDone, IsJoining
  <2>8. g.phase \in {"ready", "waiting"} /\ IsOpen(host, c) => c \in host.subscribers \/ g.lease # 0
    BY <1>3, <2>1 DEF Marks
  <2>9. IsPump(g)
    BY <1>2, <1>3, <2>1 DEF IsPump
  <2>10. IsMore(inbox, inbox', c, NoRequest) /\ IsShown(view, view', i, m)
    BY <1>1, <2>4 DEF IsMore, IsShown
  <2>11. QED
    BY <1>1, <1>3, <1>4, <1>5, <2>4, <2>5, <2>6, <2>7, <2>8, <2>9, <2>10, PumpStep DEF m
<1>6. CASE i \notin Pumps
  <2> DEFINE phase == IF r.phase = "joining" THEN "failed" ELSE "ready"
             kept == IF r.phase = "rejoining" THEN [r EXCEPT !.buffered = Append(@, m)]
                                              ELSE [r EXCEPT !.pending = Append(@, m)]
             t == IF r.phase = "ready" THEN g
                  ELSE IF r.phase # "rejoining" /\ Len(r.pending) >= PendingCapacity
                    THEN [Finished(r) EXCEPT !.phase = phase]
                    ELSE Acknowledge(kept, i, m)
  <2>1. client' = [client EXCEPT ![i] = t] /\ IsShown(view, view', i, m)
    BY <1>6 DEF ReadPush, IsShown
  <2>2. kept \in ClientStates /\ kept.phase = r.phase /\ kept.conn = r.conn
    <3>1. r.pending \in Seq(Messages) /\ r.buffered \in Seq(Messages)
      BY <1>2, ClientFields
    <3>2. Append(r.pending, m) \in Seq(Messages) /\ Append(r.buffered, m) \in Seq(Messages)
      BY <1>2, <3>1, AppendProperties
    <3> DEFINE x == Append(r.pending, m)
               y == Append(r.buffered, m)
    <3>3. kept = IF r.phase = "rejoining" THEN [r EXCEPT !.buffered = y] ELSE [r EXCEPT !.pending = x]
      OBVIOUS
    <3>4. x \in Seq(Messages) /\ y \in Seq(Messages)
      BY <3>2
    <3> HIDE DEF kept, x, y
    <3>5. QED
      BY <1>2, <3>3, <3>4 DEF ClientStates
  <2>3. Acknowledge(kept, i, m) \in ClientStates /\ Acknowledge(kept, i, m).phase = r.phase /\ Acknowledge(kept, i, m).conn = r.conn
    BY <1>2, <2>2, AcknowledgeIs, ZenonT(30)
  <2>4. phase \in Phases /\ phase # "new"
    BY DEF Phases
  <2> HIDE DEF phase
  <2>5. /\ [Finished(r) EXCEPT !.phase = phase] \in ClientStates
        /\ [Finished(r) EXCEPT !.phase = phase].phase = phase /\ [Finished(r) EXCEPT !.phase = phase].conn = r.conn
    BY <1>2, <2>4, FinishedIs DEF Unmoved
  <2> HIDE DEF kept, g
  <2>6. IsClient(t) /\ t.conn = c
    BY <1>2, <1>3, <2>3, <2>4, <2>5 DEF IsClient
  <2> HIDE DEF t, m
  <2>7. inbox' \in [Connections -> Seq(Requests)] /\ work' \in Nat /\ cut' = cut /\ opened' = opened /\ inbox' = inbox
    BY <1>1 DEF IInv
  <2>8. QED
    BY <1>2, <1>6, <2>1, <2>6, <2>7, OtherStep
<1>7. QED
  BY <1>5, <1>6

LEMMA ConsumeInv ==
  ASSUME IInv, NEW i \in Clients, Consume(i)
  PROVE  IInv' /\ FeedStep
<1> DEFINE r == client[i]
           c == r.conn
           m == Head(r.pending)
           t == [r EXCEPT !.pending = Tail(@)]
<1>1. /\ r.phase = "ready" /\ r.pending # <<>> /\ UNCHANGED <<host, inbox, cut, opened, work>>
      /\ client' = [client EXCEPT ![i] = t] /\ view' = [view EXCEPT ![i] = Shown(view[i], m)]
  BY DEF Consume, IInv
<1>2. r \in ClientStates /\ c # 0
  BY <1>1 DEF IInv, IsClient
<1>3. i \notin Pumps
  BY <1>1 DEF IInv, Attends, IsPump
<1>4. Tail(r.pending) \in Seq(Messages)
  BY <1>1, <1>2, ClientFields, HeadTailProperties
<1>5. IsClient(t) /\ t.conn = c
  <2> DEFINE x == Tail(r.pending)
  <2>1. t = [r EXCEPT !.pending = x] /\ x \in Seq(Messages)
    BY <1>4
  <2> HIDE DEF x, t
  <2>2. QED
    BY <1>1, <1>2, <2>1 DEF IsClient, ClientStates
<1>6. host' = host /\ Nearby(host, host', c)
  BY <1>1, NearbySame DEF IInv, Sound
<1>7. inbox' \in [Connections -> Seq(Requests)] /\ work' \in Nat /\ cut' = cut /\ opened' = opened /\ inbox' = inbox
  BY <1>1 DEF IInv
<1> HIDE DEF t, m
<1>8. IsShown(view, view', i, m)
  BY <1>1 DEF IsShown
<1>9. QED
  BY <1>1, <1>2, <1>3, <1>5, <1>6, <1>7, <1>8, OtherStep

\* The operation goes on after the attachment of r, which is as old before it.
LEMMA ResumeIs ==
  ASSUME IInv, NEW i \in Clients, NEW r \in ClientStates, r.conn # 0, r.conn \in Connections, NEW old, Resume(i, r, old)
  PROVE  \E t : /\ client' = [client EXCEPT ![i] = t] /\ IsClient(t) /\ Unmoved(r, t)
                /\ inbox' \in [Connections -> Seq(Requests)] /\ \A k \in Connections \ {r.conn} : inbox'[k] = inbox[k]
                /\ (t.phase = "ready" /\ t.op = NoRequest /\ t.inflight = {}) \/ t.phase = "waiting"
                /\ i \in Pumps /\ r.pending = <<>> /\ r.buffered = <<>> /\ (r.op = NoRequest \/ r.op.kind = "command") =>
                     t.pending = <<>> /\ t.buffered = <<>> /\ IsMore(inbox, inbox', r.conn, r.op)
<1> DEFINE g == Unbuffered(r)
           next == Refreshed(g, i)
<1>1. /\ g \in ClientStates /\ Unmoved(r, g) /\ g.phase = r.phase /\ g.op = r.op /\ g.buffered = <<>>
      /\ r.pending = <<>> /\ r.buffered = <<>> => g.pending = <<>>
  BY UnbufferedIs
<1>2. inbox \in [Connections -> Seq(Requests)]
  BY DEF IInv
<1>3. "ready" \in Phases /\ "waiting" \in Phases
  BY DEF Phases
<1>4. CASE client' = [client EXCEPT ![i] = [Finished(g) EXCEPT !.phase = "ready"]] /\ UNCHANGED inbox
  <2> DEFINE t == [Finished(g) EXCEPT !.phase = "ready"]
  <2>1. t \in ClientStates /\ Unmoved(g, t) /\ t.phase = "ready" /\ t.op = NoRequest /\ t.inflight = {} /\ t.pending = g.pending /\ t.buffered = g.buffered
    BY <1>1, <1>3, FinishedIs
  <2>2. client' = [client EXCEPT ![i] = t]
    BY <1>4
  <2> HIDE DEF t, g
  <2>3. IsClient(t) /\ Unmoved(r, t)
    BY <1>1, <2>1 DEF IsClient, Unmoved
  <2>4. IsMore(inbox, inbox', r.conn, r.op)
    BY <1>4 DEF IsMore
  <2>5. QED
    BY <1>1, <1>2, <1>4, <2>1, <2>2, <2>3, <2>4
<1>5. CASE /\ ~(r.op = NoRequest \/ Overflows(r) \/ (i \in Blocking /\ r.op.kind = "command" /\ r.lease = 0))
           /\ client' = [client EXCEPT ![i] = [next EXCEPT !.phase = "waiting", !.inflight = {r.op.id}]]
           /\ inbox' = [inbox EXCEPT ![r.conn] = Append(@, next.op)]
  <2> DEFINE ids == {r.op.id}
             t == [next EXCEPT !.phase = "waiting", !.inflight = ids]
  <2>1. r.op \in Operations /\ r.op # NoRequest
    BY <1>5, ClientFields, OperationFields
  <2>2. ids \in SUBSET Nat
    BY <2>1, OperationFields
  <2> DEFINE q == next.op
  <2>3. client' = [client EXCEPT ![i] = t] /\ inbox' = [inbox EXCEPT ![r.conn] = Append(inbox[r.conn], q)]
    BY <1>5, <1>2
  <2> HIDE DEF ids, g
  <2>4. /\ t \in ClientStates /\ Unmoved(g, t) /\ t.phase = "waiting"
        /\ t.pending = g.pending /\ t.buffered = g.buffered
        /\ t.op = q /\ (g.op # NoRequest => t.op \in Operations)
        /\ i \notin Blocking => t.op = g.op
    <3>1. /\ next \in ClientStates /\ Unmoved(g, next) /\ next.pending = g.pending /\ next.buffered = g.buffered
          /\ (g.op # NoRequest => next.op \in Operations) /\ (i \notin Blocking => next.op = g.op)
      BY <1>1, RefreshedIs
    <3> HIDE DEF next
    <3>2. t \in ClientStates /\ t.phase = "waiting" /\ t.pending = next.pending /\ t.buffered = next.buffered /\ t.op = next.op
      BY <1>3, <2>2, <3>1 DEF ClientStates
    <3>3. Unmoved(next, t)
      BY <3>1 DEF ClientStates, Unmoved
    <3>4. Unmoved(g, t)
      BY <3>1, <3>3 DEF Unmoved
    <3>5. QED
      BY <3>1, <3>2, <3>4
  <2> HIDE DEF t, q
  <2>5. q \in Operations /\ q \in Requests /\ (i \in Pumps => q = r.op)
    BY <1>1, <2>1, <2>4, OperationFields, Constants
  <2>6. IsClient(t) /\ Unmoved(r, t)
    BY <1>1, <2>4 DEF IsClient, Unmoved
  <2>7. Append(inbox[r.conn], q) \in Seq(Requests)
    BY <1>2, <2>5, AppendProperties
  <2>8. inbox' \in [Connections -> Seq(Requests)] /\ \A k \in Connections \ {r.conn} : inbox'[k] = inbox[k]
    BY <1>2, <2>3, <2>7
  <2>9. i \in Pumps /\ (r.op = NoRequest \/ r.op.kind = "command") => IsMore(inbox, inbox', r.conn, r.op)
    BY <2>1, <2>3, <2>5 DEF IsMore
  <2>10. QED
    BY <1>1, <2>3, <2>4, <2>6, <2>8, <2>9
<1>6. QED
  BY <1>4, <1>5 DEF Resume

LEMMA ReadAttachedInv ==
  ASSUME IInv, NEW i \in Clients, ReadAttached(i)
  PROVE  IInv' /\ FeedStep
<1> DEFINE m == Arriving(i)
           r == client[i]
           c == r.conn
<1>1. /\ HasArrived(i) /\ IsAnswer(r, m) /\ host' = Taken(i) /\ r.phase \in {"joining", "rejoining"}
      /\ UNCHANGED <<cut, view, opened, work>>
  BY DEF ReadAttached
<1>2. /\ c \in Connections /\ c # 0 /\ r \in ClientStates /\ Nearby(host, host', c) /\ m \in Messages
  BY <1>1, TakenIs
<1>3. ~IsPush(m) /\ m.id = 0
  BY <1>1 DEF IsAnswer, Awaited
<1>4. m.kind = "attached" \/ m = Rejected(0)
  BY <1>2, <1>3, MessageFields DEF IsPush
<1>4a. Rejected(0).kind = "rejected"
  BY DEF Rejected
<1>5. work' \in Nat /\ cut' = cut /\ opened' = opened /\ view' = view /\ inbox \in [Connections -> Seq(Requests)]
  BY <1>1 DEF IInv
<1>6. i \in Pumps =>
        /\ IsPump(r)
        /\ m.kind = "attached" => (m.epoch = 0 => r.mode = "view")
        /\ m = Rejected(0) => r.mode = "drive"
        /\ m.kind \in Marks /\ IsOpen(host, c) => c \in host.subscribers
  BY <1>1, PumpHears
<1>7. CASE m.kind = "attached"
  <2> DEFINE g == [Attach0(r, m) EXCEPT !.tries = 0]
  <2>1. /\ g \in ClientStates /\ g.conn = c /\ g.phase = r.phase /\ g.op = r.op
        /\ g.pending = r.pending /\ g.buffered = r.buffered /\ g.mode = r.mode
        /\ g.cursor = m.at /\ g.lease = m.epoch /\ \A j : g.lease = Says(m, j)
    BY <1>2, <1>7, Attach0Is
  <2>2. Resume(i, g, r)
    BY <1>7 DEF ReadAttached
  <2> HIDE DEF g
  <2>3. PICK t : /\ client' = [client EXCEPT ![i] = t] /\ IsClient(t) /\ Unmoved(g, t)
                 /\ inbox' \in [Connections -> Seq(Requests)] /\ \A k \in Connections \ {c} : inbox'[k] = inbox[k]
                 /\ (t.phase = "ready" /\ t.op = NoRequest /\ t.inflight = {}) \/ t.phase = "waiting"
                 /\ i \in Pumps /\ g.pending = <<>> /\ g.buffered = <<>> /\ (g.op = NoRequest \/ g.op.kind = "command") =>
                      t.pending = <<>> /\ t.buffered = <<>> /\ IsMore(inbox, inbox', c, g.op)
    <3>1. IInv /\ i \in Clients /\ g \in ClientStates /\ g.conn # 0 /\ g.conn \in Connections /\ Resume(i, g, r) /\ g.conn = c
      BY <1>2, <2>1, <2>2
    <3> HIDE DEF r, c
    <3>2. QED
      BY ONLY <3>1, ResumeIs, ZenonT(30)
  <2>4. t.conn = c /\ t.cursor = m.at /\ t.lease = m.epoch /\ t.lease = Says(m, i) /\ t.mode = r.mode
    BY <2>1, <2>3 DEF Unmoved
  <2> HIDE DEF m
  <2>5. CASE i \in Pumps
    <3>1. /\ IsPump(r) /\ (r.op = NoRequest \/ r.op.kind = "command")
      BY <1>1, <1>6, <2>5 DEF IsPump
    <3>2. t.pending = <<>> /\ t.buffered = <<>> /\ IsMore(inbox, inbox', c, g.op)
      BY <2>1, <2>3, <2>5, <3>1 DEF IsPump
    <3>3. IsPump(t)
      BY <1>6, <1>7, <2>3, <2>4, <2>5, <3>2 DEF IsPump, Modes
    <3>4. IsConvinced(m, r, t, i)
      BY <1>7, <2>4 DEF IsConvinced, Marks
    <3>5. IsDone(m, r, t) /\ ~IsJoining(t)
      BY <1>7, <2>3 DEF IsDone, IsJoining
    <3>6. t.phase \in {"ready", "waiting"} /\ IsOpen(host, c) => c \in host.subscribers \/ t.lease # 0
      BY <1>6, <1>7, <2>5 DEF Marks
    <3>7. /\ t.cursor = IF m.kind \in {"event", "snapshot"} THEN Max2(r.cursor, m.at)
                        ELSE IF m.kind = "attached" THEN m.at ELSE r.cursor
          /\ m.kind \notin {"event", "snapshot"} /\ IsShown(view, view', i, m)
      BY <1>5, <1>7, <2>4 DEF IsShown
    <3>8. QED
      BY <1>1, <2>3, <2>4, <2>5, <3>2, <3>3, <3>4, <3>5, <3>6, <3>7, PumpStep DEF m
  <2>6. CASE i \notin Pumps
    BY <1>2, <1>5, <2>3, <2>4, <2>6, OtherStep DEF IsShown
  <2>7. QED
    BY <2>5, <2>6
<1>8. CASE m = Rejected(0)
  <2> DEFINE g == [r EXCEPT !.inflight = {}]
             t == IF r.phase = "joining" THEN [r EXCEPT !.phase = "failed"] ELSE RejoinFailed(g, i)
  <2>1. client' = [client EXCEPT ![i] = t] /\ inbox' = inbox
    BY <1>4a, <1>8 DEF ReadAttached
  <2>2. /\ g \in ClientStates /\ Unmoved(r, g) /\ g.op = r.op /\ g.inflight = {}
        /\ g.pending = r.pending /\ g.buffered = r.buffered
    BY <1>2 DEF ClientStates, Unmoved
  <2>3. [r EXCEPT !.phase = "failed"] \in ClientStates
    BY <1>2 DEF ClientStates, Phases
  <2>4. /\ RejoinFailed(g, i) \in ClientStates /\ Unmoved(g, RejoinFailed(g, i))
        /\ RejoinFailed(g, i).phase \in {"broken", "ready", "failed"}
        /\ RejoinFailed(g, i).pending = g.pending /\ RejoinFailed(g, i).buffered \in {g.buffered, <<>>}
        /\ RejoinFailed(g, i).phase = "broken" => RejoinFailed(g, i).op = g.op /\ RejoinFailed(g, i).inflight = g.inflight
        /\ RejoinFailed(g, i).phase # "broken" => RejoinFailed(g, i).op = NoRequest /\ RejoinFailed(g, i).inflight = {}
    BY <2>2, RejoinFailedIs
  <2> HIDE DEF g
  <2>5. /\ t \in ClientStates /\ Unmoved(r, t) /\ t.phase \in {"broken", "ready", "failed"}
        /\ t.phase \in {"broken", "ready"} => r.phase = "rejoining"
        /\ t.phase = "broken" => t.op = r.op /\ t.inflight = {}
        /\ t.phase = "ready" => t.op = NoRequest /\ t.inflight = {}
        /\ r.buffered = <<>> => t.buffered = <<>>
        /\ t.pending = r.pending
    <3>1. CASE r.phase = "joining"
      BY <1>2, <2>3, <3>1 DEF Unmoved, ClientStates
    <3>2. CASE r.phase # "joining"
      <4>1. t = RejoinFailed(g, i) /\ r.phase = "rejoining"
        BY <1>1, <3>2
      <4> HIDE DEF t
      <4>2. QED
        BY <2>2, <2>4, <4>1 DEF Unmoved
    <3>3. QED
      BY <3>1, <3>2
  <2> HIDE DEF t
  <2>6. IsClient(t) /\ t.conn = c
    BY <1>2, <2>5 DEF IsClient, Unmoved
  <2> HIDE DEF m
  <2>7. CASE i \in Pumps
    <3>1. IsPump(r) /\ r.mode = "drive"
      BY <1>6, <1>8, <2>7
    <3>2. IsPump(t)
      BY <2>5, <3>1 DEF IsPump, Unmoved
    <3>3. IsConvinced(m, r, t, i)
      BY <1>4a, <1>8, <2>5 DEF IsConvinced, Marks, Unmoved
    <3>4. IsDone(m, r, t)
      BY <1>8, <2>5 DEF IsDone, IsJoining
    <3>5. t.phase \in {"ready", "waiting"} => t.lease # 0
      BY <2>5, <3>1 DEF IsPump, Unmoved
    <3>6. /\ t.cursor = IF m.kind \in {"event", "snapshot"} THEN Max2(r.cursor, m.at)
                        ELSE IF m.kind = "attached" THEN m.at ELSE r.cursor
          /\ m.kind \notin {"event", "snapshot"} /\ IsShown(view, view', i, m) /\ IsMore(inbox, inbox', c, NoRequest)
      BY <1>4a, <1>5, <1>8, <2>1, <2>5 DEF IsShown, IsMore, Unmoved
    <3>7. QED
      BY <1>1, <2>1, <2>6, <2>7, <3>2, <3>3, <3>4, <3>5, <3>6, PumpStep DEF m
  <2>8. CASE i \notin Pumps
    BY <1>2, <1>5, <2>1, <2>6, <2>8, OtherStep DEF IsShown
  <2>9. QED
    BY <2>7, <2>8
<1>9. QED
  BY <1>4, <1>7, <1>8

LEMMA ReadAnswerInv ==
  ASSUME IInv, NEW i \in Clients, ReadAnswer(i)
  PROVE  IInv' /\ FeedStep
<1> DEFINE m == Arriving(i)
           r == client[i]
           c == r.conn
           again == i \in Pumps /\ m.kind = "rejected" /\ CanRetry(r, i)
           g == [r EXCEPT !.inflight = {}]
           f == [Finished(r) EXCEPT !.phase = "ready"]
           t == IF again THEN Retry(g, i) ELSE ObserveResult(f, i, r.op, m)
<1>1. /\ HasArrived(i) /\ IsAnswer(r, m) /\ host' = Taken(i) /\ r.phase = "waiting"
      /\ client' = [client EXCEPT ![i] = t]
      /\ UNCHANGED <<inbox, cut, view, opened, work>>
  BY DEF ReadAnswer
<1>2. /\ c \in Connections /\ c # 0 /\ r \in ClientStates /\ Nearby(host, host', c) /\ m \in Messages
  BY <1>1, TakenIs
<1>3. work' \in Nat /\ cut' = cut /\ opened' = opened /\ view' = view /\ inbox' = inbox /\ inbox \in [Connections -> Seq(Requests)]
  BY <1>1 DEF IInv
<1>4. /\ g \in ClientStates /\ Unmoved(r, g) /\ g.op = r.op /\ g.inflight = {}
      /\ g.pending = r.pending /\ g.buffered = r.buffered
  BY <1>2 DEF ClientStates, Unmoved
<1>5. "ready" \in Phases
  BY DEF Phases
<1>6. /\ f \in ClientStates /\ Unmoved(r, f) /\ f.phase = "ready" /\ f.op = NoRequest /\ f.inflight = {} /\ f.pending = r.pending /\ f.buffered = r.buffered
  BY <1>2, <1>5, FinishedIs
<1> HIDE DEF f, g, m
<1>7. /\ Retry(g, i) \in ClientStates /\ Unmoved(g, Retry(g, i)) /\ Retry(g, i).phase \in {"broken", "ready"}
      /\ Retry(g, i).pending = g.pending /\ Retry(g, i).buffered = g.buffered
      /\ Retry(g, i).inflight \in {g.inflight, {}}
      /\ Retry(g, i).phase = "broken" => Retry(g, i).op = g.op /\ (i \notin Blocking => g.op.kind = "command")
      /\ Retry(g, i).phase = "ready" => Retry(g, i).op = NoRequest /\ Retry(g, i).inflight = {}
  BY <1>4, RetryIs
<1>8. r.op \in Operations \cup {NoRequest}
  BY <1>2, ClientFields
<1> DEFINE o == ObserveResult(f, i, r.op, m)
<1>9. /\ o \in ClientStates /\ o.phase = f.phase /\ o.conn = f.conn /\ o.op = f.op /\ o.cursor = f.cursor
      /\ o.inflight = f.inflight /\ o.pending = f.pending /\ o.buffered = f.buffered
      /\ m.kind = "driven" => o.lease = Says(m, i) /\ (o.mode = "drive" => o.lease # 0)
      /\ m.kind # "driven" => o.lease = f.lease /\ o.mode = f.mode
  BY <1>2, <1>6, <1>8, ObserveResultIs
<1> HIDE DEF o
<1>10. /\ t \in ClientStates /\ t.conn = c /\ t.cursor = r.cursor /\ t.phase \in {"broken", "ready"}
       /\ t.pending = r.pending /\ t.buffered = r.buffered
       /\ t.phase = "broken" => again /\ t.op = r.op /\ t.inflight = {} /\ (i \notin Blocking => t.op.kind = "command")
       /\ t.phase = "ready" => t.op = NoRequest /\ t.inflight = {}
       /\ m.kind = "driven" => t.lease = Says(m, i) /\ (t.mode = "drive" => t.lease # 0)
       /\ m.kind # "driven" => t.lease = r.lease /\ t.mode = r.mode
  <2>1. CASE again
    <3>1. t = Retry(g, i) /\ m.kind # "driven"
      BY <2>1
    <3> HIDE DEF t
    <3>2. QED
      BY <1>4, <1>7, <2>1, <3>1 DEF Unmoved
  <2>2. CASE ~again
    <3>1. t = o
      BY <2>2 DEF o
    <3> HIDE DEF t
    <3>2. QED
      BY <1>6, <1>9, <3>1 DEF Unmoved
  <2>3. QED
    BY <2>1, <2>2
<1> HIDE DEF t
<1>11. IsClient(t)
  BY <1>2, <1>10 DEF IsClient
<1>12. CASE i \in Pumps
  <2>1. /\ IsPump(r)
        /\ m.kind = "attached" => IsJoining(r)
        /\ m = Rejected(0) => IsJoining(r)
        /\ m.kind \in Marks /\ IsOpen(host, c) => c \in host.subscribers
        /\ r.phase \in {"ready", "waiting"} /\ IsOpen(host, c) => c \in host.subscribers \/ r.lease # 0
    BY <1>1, <1>12, PumpHears DEF m
  <2>2. ~IsJoining(r) /\ ~IsJoining(t)
    BY <1>1, <1>10 DEF IsJoining
  <2>3. m.kind # "attached" /\ m.kind \notin {"event", "snapshot", "driver"}
    BY <1>1, <2>1, <2>2 DEF IsAnswer, IsPush, m
  <2>4. IsPump(t)
    BY <1>1, <1>10, <1>12, <2>1, Constants DEF IsPump
  <2>5. IsConvinced(m, r, t, i)
    BY <1>10, <2>3 DEF IsConvinced, Marks
  <2>6. IsDone(m, r, t)
    BY <2>2 DEF IsDone
  <2>7. t.phase \in {"ready", "waiting"} /\ IsOpen(host, c) => c \in host.subscribers \/ t.lease # 0
    BY <1>1, <1>10, <2>1 DEF Marks
  <2>8. /\ t.cursor = IF m.kind \in {"event", "snapshot"} THEN Max2(r.cursor, m.at)
                      ELSE IF m.kind = "attached" THEN m.at ELSE r.cursor
        /\ IsShown(view, view', i, m) /\ IsMore(inbox, inbox', c, NoRequest)
    BY <1>3, <1>10, <2>3 DEF IsShown, IsMore
  <2>9. QED
    BY <1>1, <1>10, <1>11, <1>12, <2>3, <2>4, <2>5, <2>6, <2>7, <2>8, PumpStep DEF m
<1>13. CASE i \notin Pumps
  <2>1. IsShown(view, view', i, m)
    BY <1>3 DEF IsShown
  <2>2. QED
    BY <1>1, <1>2, <1>3, <1>10, <1>11, <1>13, <2>1, OtherStep
<1>14. QED
  BY <1>12, <1>13

-----------------------------------------------------------------------------
(* Steps of a client that does not read *)

LEMMA AloneStep ==
  ASSUME IInv, NEW i \in Clients, NEW r, r = client[i], r.conn # 0, NEW t, IsClient(t), t.conn = r.conn,
         client' = [client EXCEPT ![i] = t], Nearby(host, host', r.conn), UNCHANGED view,
         inbox' \in [Connections -> Seq(Requests)], \A k \in Connections \ {r.conn} : inbox'[k] = inbox[k],
         cut' \in {cut, cut \cup {r.conn}}, opened' = opened, work' \in Nat,
         i \in Pumps /\ IsPump(r) =>
           /\ IsPump(t) /\ t.cursor = r.cursor
           /\ r.conn \notin cut' /\ Reads(Seat(host, r.conn), Len(host.log), inbox[r.conn], r, i)
              => Reads(Seat(host', r.conn), Len(host.log), inbox'[r.conn], t, i)
  PROVE  IInv' /\ FeedStep
<1>1. host'.log = host.log /\ host'.sequence = host.sequence
  BY DEF Nearby
<1>2. ASSUME i \in Pumps PROVE Attends(host', inbox', cut', t, view'[i], i)
  <2>1. Attends(host, inbox, cut, r, view[i], i)
    BY <1>2 DEF IInv
  <2>2. IsPump(t) /\ t.cursor = r.cursor /\ r.cursor <= host.sequence /\ view[i] = SubSeq(host.log, 1, UpTo(host.log, r.cursor))
    BY <1>2, <2>1 DEF Attends
  <2>3. ASSUME r.conn \notin cut' PROVE Reads(Seat(host', r.conn), Len(host.log), inbox'[r.conn], t, i)
    <3>1. r.conn \notin cut
      BY <2>3
    <3>2. QED
      BY <1>2, <2>1, <2>3, <3>1 DEF Attends
  <2>4. QED
    BY <1>1, <2>2, <2>3 DEF Attends
<1>3. view' = [j \in Clients |-> view'[j]] /\ \A j \in Clients \ {i} : view'[j] = view[j]
  BY DEF IInv
<1>4. IInv'
  BY <1>2, <1>3, ClientStep
<1>5. FeedStep
  BY <1>1, FeedSame
<1>6. QED
  BY <1>4, <1>5

LEMMA LostInv ==
  ASSUME IInv, NEW i \in Clients, Lost(i)
  PROVE  IInv' /\ FeedStep
<1> DEFINE r == client[i]
           c == r.conn
           g == [r EXCEPT !.inflight = {}]
           t == CASE r.phase = "joining" -> [r EXCEPT !.phase = "failed"]
                  [] r.phase = "ready" -> [r EXCEPT !.phase = "broken", !.tries = 0]
                  [] r.phase = "waiting" -> Retry(g, i)
                  [] r.phase = "rejoining" -> RejoinFailed(g, i)
<1>1. /\ r.phase \in {"joining", "ready", "waiting", "rejoining"}
      /\ c \in cut \/ (~IsOpen(host, c) /\ host.outbound[c] = <<>>)
      /\ client' = [client EXCEPT ![i] = t] /\ UNCHANGED <<host, inbox, cut, view, opened, work>>
  BY DEF Lost
<1>2. r \in ClientStates /\ c # 0 /\ host \in Hosts /\ inbox \in [Connections -> Seq(Requests)] /\ work \in Nat
  BY <1>1 DEF IInv, IsClient, Sound
<1>3. c \in Connections
  BY <1>2, Placing
<1>4. /\ g \in ClientStates /\ Unmoved(r, g) /\ g.op = r.op /\ g.inflight = {}
      /\ g.pending = r.pending /\ g.buffered = r.buffered
  BY <1>2 DEF ClientStates, Unmoved
<1> HIDE DEF g
<1>5. /\ t \in ClientStates /\ Unmoved(r, t) /\ t.phase \in {"failed", "broken", "ready"} /\ t.pending = r.pending
      /\ t.buffered \in {r.buffered, <<>>}
      /\ t.phase = "ready" => t.op = NoRequest /\ t.inflight = {} /\ r.phase # "joining"
      /\ t.phase = "broken" =>
           /\ t.op = r.op /\ r.phase # "joining" /\ t.inflight \in {r.inflight, {}}
           /\ r.phase # "ready" => t.inflight = {}
           /\ r.phase = "waiting" /\ i \notin Blocking => r.op.kind = "command"
  <2>1. CASE r.phase = "joining"
    <3>1. t = [r EXCEPT !.phase = "failed"] /\ "failed" \in Phases
      BY <2>1 DEF Phases
    <3> HIDE DEF t
    <3>2. QED
      BY <1>2, <3>1 DEF ClientStates, Unmoved
  <2>2. CASE r.phase = "ready"
    <3>1. t = [r EXCEPT !.phase = "broken", !.tries = 0] /\ "broken" \in Phases /\ 0 \in Nat
      BY <2>2 DEF Phases
    <3> HIDE DEF t
    <3>2. QED
      BY <1>2, <2>2, <3>1 DEF ClientStates, Unmoved
  <2>3. CASE r.phase = "waiting"
    <3>1. t = Retry(g, i)
      BY <2>3
    <3> HIDE DEF t
    <3>2. /\ t \in ClientStates /\ Unmoved(g, t) /\ t.phase \in {"broken", "ready"}
          /\ t.pending = g.pending /\ t.buffered = g.buffered /\ t.inflight \in {g.inflight, {}}
          /\ t.phase = "broken" => t.op = g.op /\ (i \notin Blocking => g.op.kind = "command")
          /\ t.phase = "ready" => t.op = NoRequest /\ t.inflight = {}
      BY <1>4, <3>1, RetryIs
    <3>3. QED
      BY <1>4, <2>3, <3>2 DEF Unmoved
  <2>4. CASE r.phase = "rejoining"
    <3>1. t = RejoinFailed(g, i)
      BY <2>4
    <3> HIDE DEF t
    <3>2. /\ t \in ClientStates /\ Unmoved(g, t) /\ t.phase \in {"broken", "ready", "failed"}
          /\ t.pending = g.pending /\ t.buffered \in {g.buffered, <<>>}
          /\ t.phase = "broken" => t.op = g.op /\ t.inflight = g.inflight
          /\ t.phase # "broken" => t.op = NoRequest /\ t.inflight = {}
      BY <1>4, <3>1, RejoinFailedIs
    <3>3. QED
      BY <1>4, <2>4, <3>2 DEF Unmoved
  <2>5. QED
    BY <1>1, <2>1, <2>2, <2>3, <2>4
<1> HIDE DEF t
<1>6. IsClient(t) /\ t.conn = c /\ t.cursor = r.cursor
  BY <1>2, <1>5 DEF IsClient, Unmoved
<1>7. ASSUME i \in Pumps, IsPump(r) PROVE IsPump(t)
  <2>1. i \notin Blocking
    BY <1>7, Constants
  <2>2. QED
    BY <1>1, <1>5, <1>7, <2>1 DEF IsPump, Unmoved
<1>8. ASSUME c \notin cut, Reads(Seat(host, c), Len(host.log), inbox[c], r, i)
      PROVE  Reads(Seat(host, c), Len(host.log), inbox[c], t, i)
  <2>1. ~IsOpen(host, c) /\ host.outbound[c] = <<>> /\ c \notin host.subscribers
    BY <1>1, <1>8 DEF IInv, Sound
  <2> DEFINE s == Seat(host, c)
             d == Len(host.log)
             box == inbox[c]
  <2>2. ~s.open /\ ~s.subscribed /\ s.queue = <<>>
    BY <2>1, SeatFields
  <2>3. Reads(s, d, box, r, i)
    BY <1>8
  <2> HIDE DEF s, d, box
  <2>4. Reads(s, d, box, t, i)
    BY <1>6, <2>2, <2>3, LostReads
  <2>5. QED
    BY <2>4 DEF s, d, box
<1>9. host' = host /\ Nearby(host, host', c) /\ inbox' = inbox /\ cut' = cut /\ opened' = opened /\ work' \in Nat
  BY <1>1, <1>2, NearbySame
<1>10. QED
  BY <1>1, <1>2, <1>6, <1>7, <1>8, <1>9, AloneStep

LEMMA TimeOutInv ==
  ASSUME IInv, NEW i \in Clients, TimeOut(i)
  PROVE  IInv' /\ FeedStep
<1> DEFINE r == client[i]
           c == r.conn
           ids == IF i \in Pumps THEN {} ELSE Retry(r, i).inflight \cup r.inflight
           g == Retry(r, i)
           t == [g EXCEPT !.inflight = ids]
<1>1. /\ r.phase = "waiting" /\ work' = work + 1
      /\ client' = [client EXCEPT ![i] = t] /\ UNCHANGED <<host, inbox, cut, view, opened>>
  BY DEF TimeOut, Works
<1>2. r \in ClientStates /\ c # 0 /\ host \in Hosts /\ inbox \in [Connections -> Seq(Requests)] /\ work \in Nat
  BY <1>1 DEF IInv, IsClient, Sound
<1>3. c \in Connections
  BY <1>2, Placing
<1>4. /\ g \in ClientStates /\ Unmoved(r, g) /\ g.phase \in {"broken", "ready"}
      /\ g.pending = r.pending /\ g.buffered = r.buffered
      /\ g.phase = "broken" => g.op = r.op /\ (i \notin Blocking => r.op.kind = "command")
      /\ g.phase = "ready" => g.op = NoRequest
  BY <1>2, RetryIs
<1>5. ids \in SUBSET Nat /\ (i \in Pumps => ids = {})
  BY <1>2, <1>4, ClientFields
<1> HIDE DEF g, ids
<1>6. /\ t \in ClientStates /\ Unmoved(r, t) /\ t.phase = g.phase /\ t.op = g.op /\ t.inflight = ids
      /\ t.pending = r.pending /\ t.buffered = r.buffered
  <2>1. t \in ClientStates
    BY <1>4, <1>5 DEF ClientStates
  <2>2. Unmoved(g, t) /\ t.phase = g.phase /\ t.op = g.op /\ t.inflight = ids /\ t.pending = g.pending /\ t.buffered = g.buffered
    BY <1>4 DEF ClientStates, Unmoved
  <2> HIDE DEF t
  <2>3. QED
    BY <1>4, <2>1, <2>2 DEF Unmoved
<1> HIDE DEF t
<1>7. IsClient(t) /\ t.conn = c /\ t.cursor = r.cursor /\ t.lease = r.lease
  BY <1>2, <1>4, <1>6 DEF IsClient, Unmoved
<1>8. ASSUME i \in Pumps, IsPump(r) PROVE IsPump(t)
  BY <1>1, <1>4, <1>5, <1>6, <1>8, Constants DEF IsPump, Unmoved
<1>9. ASSUME Reads(Seat(host, c), Len(host.log), inbox[c], r, i)
      PROVE  Reads(Seat(host, c), Len(host.log), inbox[c], t, i)
  <2>1. ~IsJoining(r) /\ ~IsJoining(t) /\ r.phase \in {"ready", "waiting"}
    BY <1>1, <1>4, <1>6 DEF IsJoining
  <2> DEFINE s == Seat(host, c)
             d == Len(host.log)
             box == inbox[c]
  <2>2. Reads(s, d, box, r, i)
    BY <1>9
  <2> HIDE DEF s, d, box
  <2>3. Reads(s, d, box, t, i)
    BY <1>7, <2>1, <2>2, LeftReads
  <2>4. QED
    BY <2>3 DEF s, d, box
<1>10. host' = host /\ Nearby(host, host', c) /\ inbox' = inbox /\ cut' = cut /\ opened' = opened /\ work' \in Nat
  BY <1>1, <1>2, NearbySame
<1>11. QED
  BY <1>1, <1>2, <1>7, <1>8, <1>9, <1>10, AloneStep

LEMMA BreakInv ==
  ASSUME IInv, NEW i \in Clients, Break(i)
  PROVE  IInv' /\ FeedStep
<1> DEFINE r == client[i]
           c == r.conn
<1>1. /\ c # 0 /\ cut' = cut \cup {c} /\ host' = [host EXCEPT !.outbound[c] = <<>>] /\ work' = work + 1
      /\ UNCHANGED <<client, view, opened>>
  BY DEF Break, Works
<1>2. PICK arrived \in {<<>>, inbox[c]} : inbox' = [inbox EXCEPT ![c] = Append(arrived, Closed)]
  BY DEF Break
<1>3. /\ r \in ClientStates /\ IsClient(r) /\ host \in Hosts /\ inbox \in [Connections -> Seq(Requests)]
      /\ work \in Nat /\ client \in [Clients -> ClientStates]
  BY DEF IInv, Sound
<1>4. c \in Connections
  BY <1>1, Placing
<1>5. Append(arrived, Closed) \in Seq(Requests)
  <2>1. Closed \in Requests
    BY DEF Closed, Requests
  <2>2. arrived \in Seq(Requests)
    BY <1>2, <1>3, <1>4, EmptySeq
  <2>3. QED
    BY <2>1, <2>2, AppendProperties
<1>6. inbox' \in [Connections -> Seq(Requests)] /\ \A k \in Connections \ {c} : inbox'[k] = inbox[k]
  BY <1>2, <1>3, <1>5
<1>7. Nearby(host, host', c)
  <2> DEFINE q == <<>>
  <2>1. q \in Seq(Messages) /\ host' = [host EXCEPT !.outbound[c] = q]
    BY <1>1
  <2> HIDE DEF q
  <2>2. QED
    BY <1>3, <1>4, <2>1, QueuedIs
<1>8. client' = [client EXCEPT ![i] = r] /\ work' \in Nat /\ c \in cut'
  BY <1>1, <1>3
<1>9. QED
  BY <1>1, <1>3, <1>6, <1>7, <1>8, AloneStep

LEMMA AskInv ==
  ASSUME IInv, NEW i \in Clients, NEW kind \in {"command", "acquire", "release"}, NEW force \in BOOLEAN, Ask(i, kind, force)
  PROVE  IInv' /\ FeedStep
<1> DEFINE r == client[i]
           c == r.conn
           q == Operation(kind, work + 1, force, r.lease)
           ids == {q.id}
           t == [r EXCEPT !.phase = "waiting", !.op = q, !.inflight = ids]
<1>1. /\ r.phase = "ready" /\ work' = work + 1 /\ (kind = "acquire" => r.lease = 0)
      /\ client' = [client EXCEPT ![i] = t] /\ inbox' = [inbox EXCEPT ![c] = Append(inbox[c], q)]
      /\ UNCHANGED <<host, cut, view, opened>>
  BY DEF Ask, Works, IInv
<1>2. r \in ClientStates /\ c # 0 /\ host \in Hosts /\ inbox \in [Connections -> Seq(Requests)] /\ work \in Nat
  BY <1>1 DEF IInv, IsClient, Sound
<1>3. c \in Connections
  BY <1>2, Placing
<1>4. /\ q \in Operations /\ q \in Requests /\ q.kind = kind /\ ids \in SUBSET Nat
  <2>1. work + 1 \in Nat \ {0} /\ r.lease \in Nat
    BY <1>2, ClientFields
  <2>2. q \in Operations /\ q.kind = kind /\ q.id = work + 1
    BY <2>1 DEF Operation, Operations
  <2>3. QED
    BY <2>1, <2>2, OperationFields
<1> HIDE DEF q, ids
<1>5. /\ t \in ClientStates /\ Unmoved(r, t) /\ t.phase = "waiting" /\ t.op = q
      /\ t.pending = r.pending /\ t.buffered = r.buffered
  <2>1. "waiting" \in Phases
    BY DEF Phases
  <2>2. QED
    BY <1>2, <1>4, <2>1 DEF ClientStates, Unmoved
<1> HIDE DEF t
<1>6. IsClient(t) /\ t.conn = c /\ t.cursor = r.cursor /\ t.lease = r.lease
  BY <1>2, <1>5 DEF IsClient, Unmoved
<1>7. ASSUME IsPump(r) PROVE IsPump(t)
  BY <1>1, <1>5, <1>7 DEF IsPump, Unmoved
<1>8. inbox' \in [Connections -> Seq(Requests)] /\ \A k \in Connections \ {c} : inbox'[k] = inbox[k]
  <2>1. Append(inbox[c], q) \in Seq(Requests)
    BY <1>2, <1>3, <1>4, AppendProperties
  <2>2. QED
    BY <1>1, <1>2, <2>1
<1>9. ASSUME Reads(Seat(host, c), Len(host.log), inbox[c], r, i)
      PROVE  Reads(Seat(host, c), Len(host.log), inbox'[c], t, i)
  <2>1. ~IsJoining(r) /\ ~IsJoining(t) /\ r.phase \in {"ready", "waiting"}
    BY <1>1, <1>5 DEF IsJoining
  <2> DEFINE s == Seat(host, c)
             d == Len(host.log)
             box == inbox[c]
  <2>2. Reads(s, d, box, r, i) /\ box \in Seq(Requests) /\ inbox'[c] = Append(box, q)
    BY <1>1, <1>2, <1>3, <1>9
  <2> HIDE DEF s, d, box
  <2>3. q.kind = "acquire" /\ s.open => s.subscribed
    BY <1>1, <1>4, <2>2 DEF Reads, Attended
  <2>4. q.kind \in {"acquire", "release", "command"}
    BY <1>4
  <2>5. Reads(s, d, Append(box, q), r, i)
    BY <1>4, <2>1, <2>2, <2>3, <2>4, SentReads
  <2> DEFINE b == Append(box, q)
  <2>6. Reads(s, d, b, r, i)
    BY <2>5
  <2> HIDE DEF b
  <2>7. Reads(s, d, b, t, i)
    BY <1>6, <2>1, <2>6, LeftReads
  <2>8. QED
    BY <2>2, <2>7 DEF s, d, b
<1>10. host' = host /\ Nearby(host, host', c) /\ cut' = cut /\ opened' = opened /\ work' \in Nat
  BY <1>1, <1>2, NearbySame
<1>11. QED
  BY <1>1, <1>2, <1>6, <1>7, <1>8, <1>9, <1>10, AloneStep

-----------------------------------------------------------------------------
(* A client opens a connection *)

\* The request that is on a new connection: a pump asks for an attachment.
Asks(i, t, request) ==
  i \in Pumps => /\ IsPump(t) /\ IsJoining(t)
                 /\ \E force \in BOOLEAN : request = <<Attach(t.mode, force, t.cursor)>>

LEMMA OpenInv ==
  ASSUME IInv, NEW i \in Clients, NEW request \in Seq(Requests), Open(i, opened + 1, request),
         NEW t, IsClient(t), t.conn = opened + 1, t.cursor = client[i].cursor, Asks(i, t, request),
         client' = [client EXCEPT ![i] = t], UNCHANGED <<cut, view, work>>
  PROVE  IInv' /\ FeedStep
<1> DEFINE c == opened + 1
           old == client[i].conn
           owner == [host.owner EXCEPT ![c] = i]
           outbound == [k \in Connections |-> IF k = old THEN <<>> ELSE host.outbound[k]]
<1>1. /\ c \in Connections /\ opened' = c
      /\ host' = [host EXCEPT !.owner = owner, !.outbound = outbound]
      /\ inbox' = [k \in Connections |->
           CASE k = c -> request
             [] k = old -> IF old \in cut \/ ~IsOpen(host, old) THEN inbox[k] ELSE Append(inbox[k], Closed)
             [] OTHER -> inbox[k]]
  BY DEF Open
<1>2. /\ host \in Hosts /\ Sound(host) /\ Dated(host.log, host.sequence) /\ inbox \in [Connections -> Seq(Requests)]
      /\ client \in [Clients -> ClientStates] /\ opened \in Nat /\ work \in Nat /\ cut \subseteq Connections
  BY DEF IInv, Sound
<1>3. old \in Nat /\ old <= opened /\ c \in Nat /\ c > opened /\ old # c /\ c # 0
  <2>1. old \in Nat /\ old <= opened
    BY <1>2, ClientFields DEF IInv, Placed
  <2>2. QED
    BY <1>2, <2>1
<1>4. ~IsOpen(host, c) /\ host.outbound[c] = <<>> /\ c \notin host.subscribers
  BY <1>1, <1>2, <1>3 DEF IInv, Placed, Sound
<1>5. /\ owner \in [Connections -> Clients \cup {NoClient}] /\ owner[c] = i /\ \A k \in Connections \ {c} : owner[k] = host.owner[k]
      /\ outbound \in [Connections -> Seq(Messages)] /\ outbound[c] = <<>>
      /\ \A k \in Connections \ {old} : outbound[k] = host.outbound[k]
  <2>1. host.owner \in [Connections -> Clients \cup {NoClient}] /\ host.outbound \in [Connections -> Seq(Messages)]
    BY <1>2, HostFields
  <2>2. outbound \in [Connections -> Seq(Messages)]
    BY <2>1, EmptySeq
  <2>3. QED
    BY <1>1, <1>3, <1>4, <2>1, <2>2
<1> HIDE DEF owner, outbound
<1>6. /\ host' \in Hosts /\ host'.owner = owner /\ host'.outbound = outbound /\ host'.subscribers = host.subscribers
      /\ host'.driver = host.driver /\ host'.epoch = host.epoch /\ host'.log = host.log /\ host'.sequence = host.sequence
  BY <1>1, <1>2, <1>5 DEF Hosts
<1>7. Sound(host')
  <2>1. \A k \in host.subscribers : k \in Connections \ {c} /\ IsOpen(host, k)
    BY <1>2, <1>4, HostFields DEF Sound
  <2>2. \A k \in host'.subscribers : IsOpen(host', k)
    BY <1>5, <1>6, <2>1 DEF IsOpen
  <2>3. QED
    BY <1>2, <1>6, <2>2 DEF Sound
<1>8. /\ inbox' \in [Connections -> Seq(Requests)] /\ inbox'[c] = request
      /\ \A k \in Connections \ {c, old} : inbox'[k] = inbox[k]
  <2>1. Closed \in Requests
    BY DEF Closed, Requests
  <2>2. \A k \in Connections : inbox[k] \in Seq(Requests) /\ Append(inbox[k], Closed) \in Seq(Requests)
    BY <1>2, <2>1, AppendProperties
  <2> DEFINE ends == IF old \in cut \/ ~IsOpen(host, old) THEN inbox[old] ELSE Append(inbox[old], Closed)
  <2>3. old \in Connections => ends \in Seq(Requests)
    BY <2>2
  <2>4. inbox' = [k \in Connections |-> IF k = c THEN request ELSE IF k = old THEN ends ELSE inbox[k]]
    BY <1>1, <1>3
  <2> HIDE DEF ends
  <2>5. \A k \in Connections : (IF k = c THEN request ELSE IF k = old THEN ends ELSE inbox[k]) \in Seq(Requests)
    BY <2>2, <2>3
  <2>6. QED
    BY <1>1, <2>4, <2>5, ZenonT(30)
<1>9. client' \in [Clients -> ClientStates] /\ client'[i] = t /\ \A j \in Clients \ {i} : client'[j] = client[j]
  BY <1>2 DEF IsClient
<1>10. \A j \in Clients : IsClient(client'[j])
  BY <1>9 DEF IInv
<1>11. ASSUME NEW j \in Clients \ {i}
       PROVE  /\ client[j].conn \in Nat /\ client[j].conn <= opened /\ client[j].conn # c
              /\ client[j].conn # 0 => client[j].conn \in Connections \ {c, old}
  <2>1. client[j].conn \in Nat /\ client[j].conn <= opened
    BY <1>2, ClientFields DEF IInv, Placed
  <2>2. client[j].conn # c
    BY <1>2, <2>1
  <2>3. ASSUME client[j].conn # 0 PROVE client[j].conn \in Connections /\ client[j].conn # old
    <3>1. client[j].conn \in Connections
      BY <2>3, Placing
    <3>2. client[j].conn # client[i].conn
      BY <2>3 DEF IInv, Placed
    <3>3. QED
      BY <3>1, <3>2
  <2>4. QED
    BY <2>1, <2>2, <2>3
<1>12. Placed'
  <2>1. ASSUME NEW j \in Clients
        PROVE  /\ client'[j].conn <= opened'
               /\ client'[j].conn # 0 => host'.owner[client'[j].conn] \in {j, NoClient}
    <3>1. CASE j = i
      BY <1>1, <1>3, <1>5, <1>6, <1>9, <3>1
    <3>2. CASE j # i
      <4> DEFINE k == client[j].conn
      <4>1. client'[j] = client[j] /\ k \in Nat /\ k <= opened /\ (k # 0 => k \in Connections \ {c})
        BY <1>9, <1>11, <3>2
      <4>2. k # 0 => host.owner[k] \in {j, NoClient}
        BY DEF IInv, Placed
      <4> HIDE DEF k
      <4>3. k <= opened' /\ (k # 0 => host'.owner[k] \in {j, NoClient})
        BY <1>1, <1>2, <1>5, <1>6, <4>1, <4>2
      <4>4. QED
        BY <4>1, <4>3 DEF k
    <3>3. QED
      BY <3>1, <3>2
  <2>2. ASSUME NEW k \in Connections, k > opened'
        PROVE  ~IsOpen(host', k) /\ host'.outbound[k] = <<>> /\ inbox'[k] = <<>> /\ k \notin cut'
    <3>1. k > opened /\ k # c /\ k # old
      BY <1>1, <1>2, <1>3, <2>2, Constants
    <3>2. ~IsOpen(host, k) /\ host.outbound[k] = <<>> /\ inbox[k] = <<>> /\ k \notin cut
      BY <3>1 DEF IInv, Placed
    <3>3. QED
      BY <1>5, <1>6, <1>8, <3>1, <3>2 DEF IsOpen
  <2>3. ASSUME NEW j \in Clients, NEW x \in Clients, j # x, client'[j].conn # 0 PROVE client'[j].conn # client'[x].conn
    <3>1. CASE j = i
      BY <1>9, <1>11, <2>3, <3>1
    <3>2. CASE x = i
      BY <1>9, <1>11, <2>3, <3>2
    <3>3. CASE j # i /\ x # i
      <4>1. client'[j] = client[j] /\ client'[x] = client[x]
        BY <1>9, <3>3
      <4>2. QED
        BY <2>3, <4>1 DEF IInv, Placed
    <3>4. QED
      BY <3>1, <3>2, <3>3
  <2>4. QED
    BY <2>1, <2>2, <2>3 DEF Placed
<1>13. ASSUME NEW j \in Pumps PROVE Attends(host', inbox', cut', client'[j], view'[j], j)
  <2>1. j \in Clients /\ Attends(host, inbox, cut, client[j], view[j], j)
    BY Constants DEF IInv
  <2>2. CASE j = i
    <3>1. IsPump(t) /\ IsJoining(t)
      BY <1>13, <2>2 DEF Asks
    <3>2. PICK force \in BOOLEAN : request = <<Attach(t.mode, force, t.cursor)>>
      BY <1>13, <2>2 DEF Asks
    <3> DEFINE s == Seat(host', c)
               d == Len(host'.log)
    <3>3. Dated(s.log, s.sequence) /\ s.queue = <<>> /\ ~s.subscribed
      BY <1>2, <1>4, <1>5, <1>6, SeatFields
    <3>4. t.cursor \in Int
      BY ClientFields DEF IsClient
    <3> HIDE DEF s, d
    <3>5. Reads(s, d, request, t, i)
      BY <3>1, <3>2, <3>3, <3>4, OpenedReads
    <3>6. Reads(Seat(host', c), Len(host'.log), inbox'[c], t, i)
      BY <1>8, <3>5 DEF s, d
    <3>7. t.cursor <= host'.sequence /\ view[i] = SubSeq(host'.log, 1, UpTo(host'.log, t.cursor))
      BY <1>6, <2>1, <2>2 DEF Attends
    <3>8. t.conn = c /\ client'[i] = t /\ view'[i] = view[i]
      BY <1>9
    <3>9. QED
      BY <2>2, <3>1, <3>6, <3>7, <3>8 DEF Attends
  <2>3. CASE j # i
    <3> DEFINE r == client[j]
               k == r.conn
    <3>1. client'[j] = r /\ view'[j] = view[j] /\ cut' = cut /\ (k # 0 => k \in Connections \ {c, old})
      BY <1>9, <1>11, <2>1, <2>3
    <3>2. ASSUME k # 0, k \notin cut PROVE Reads(Seat(host', k), Len(host'.log), inbox'[k], r, j)
      <4>1. Reads(Seat(host, k), Len(host.log), inbox[k], r, j)
        BY <2>1, <3>2 DEF Attends
      <4>2. k \in Connections \ {c, old}
        BY <3>1, <3>2
      <4> HIDE DEF k
      <4>3. inbox'[k] = inbox[k] /\ host'.outbound[k] = host.outbound[k] /\ host'.owner[k] = host.owner[k]
        BY <1>5, <1>6, <1>8, <4>2
      <4>4. Seat(host', k) = Seat(host, k)
        BY <1>6, <4>3 DEF Seat, IsOpen
      <4>5. QED
        BY <1>6, <4>1, <4>3, <4>4
    <3>3. QED
      BY <1>6, <2>1, <3>1, <3>2 DEF Attends
  <2>4. QED
    BY <2>2, <2>3
<1>14. opened' \in Nat /\ opened' <= MaxConnections
  BY <1>1, <1>3, Constants DEF Connections
<1>15. IInv'
  <2>1. view' = [j \in Clients |-> view'[j]] /\ cut' = cut /\ work' = work
    BY DEF IInv
  <2>2. QED
    BY <1>2, <1>6, <1>7, <1>8, <1>9, <1>10, <1>12, <1>13, <1>14, <2>1 DEF IInv
<1>16. FeedStep
  BY <1>6, FeedSame
<1>17. QED
  BY <1>15, <1>16

LEMMA ConnectInv ==
  ASSUME IInv, NEW i \in Clients, NEW join \in Joins[i], Connect(i, join[1], join[2])
  PROVE  IInv' /\ FeedStep
<1> DEFINE r == client[i]
           c == opened + 1
           mode == join[1]
           force == join[2]
           ids == {0}
           request == <<Attach(mode, force, NoCursor)>>
           t == [r EXCEPT !.phase = "joining", !.conn = c, !.mode = mode, !.force = force, !.inflight = ids]
<1>1. /\ r.phase = "new" /\ Open(i, opened + 1, request) /\ client' = [client EXCEPT ![i] = t]
      /\ UNCHANGED <<cut, view, work>>
  BY DEF Connect
<1>2. join \in Modes \X BOOLEAN
  BY DeliveryAssumption
<1>3. mode \in Modes /\ force \in BOOLEAN /\ ids \in SUBSET Nat
  BY <1>2
<1>4. r \in ClientStates /\ opened \in Nat
  BY DEF IInv
<1>5. c \in Nat /\ c # 0 /\ "joining" \in Phases
  BY <1>4 DEF Phases
<1>6. request \in Seq(Requests)
  <2>1. Attach(mode, force, NoCursor) \in Requests
    BY <1>3 DEF Attach, NoCursor, Requests
  <2>2. QED
    BY <2>1
<1> HIDE DEF mode, force, ids, c
<1>7. /\ t \in ClientStates /\ t.phase = "joining" /\ t.conn = c /\ t.mode = mode /\ t.cursor = r.cursor /\ t.op = r.op
      /\ t.pending = r.pending /\ t.buffered = r.buffered
  BY <1>3, <1>4, <1>5 DEF ClientStates
<1> HIDE DEF t
<1>8. IsClient(t)
  BY <1>5, <1>7 DEF IsClient
<1>9. ASSUME i \in Pumps PROVE IsPump(t) /\ IsJoining(t) /\ t.cursor = NoCursor
  <2>1. IsPump(r)
    BY <1>9 DEF IInv, Attends
  <2>2. QED
    BY <1>1, <1>7, <2>1 DEF IsPump, IsJoining
<1>10. Asks(i, t, request)
  BY <1>3, <1>7, <1>9 DEF Asks
<1> HIDE DEF request
<1>11. t.conn = opened + 1
  BY <1>7 DEF c
<1>12. QED
  BY <1>1, <1>6, <1>7, <1>8, <1>10, <1>11, OpenInv

LEMMA ReconnectInv ==
  ASSUME IInv, NEW i \in Clients, Reconnect(i)
  PROVE  IInv' /\ FeedStep
<1> DEFINE r == client[i]
           c == opened + 1
           ids == {0}
           request == IF r.inflight = {} THEN <<Attach(r.mode, r.force, r.cursor)>> ELSE <<>>
           t == IF r.inflight = {} THEN [r EXCEPT !.phase = "rejoining", !.conn = c, !.inflight = ids]
                ELSE [r EXCEPT !.phase = "ready", !.conn = c, !.op = NoRequest, !.attempt = 0]
<1>1. /\ r.phase = "broken" /\ Open(i, opened + 1, request) /\ client' = [client EXCEPT ![i] = t]
      /\ UNCHANGED <<cut, view, work>>
  BY DEF Reconnect
<1>2. r \in ClientStates /\ opened \in Nat
  BY DEF IInv
<1>3. c \in Nat /\ c # 0 /\ "rejoining" \in Phases /\ "ready" \in Phases /\ 0 \in Nat /\ ids \in SUBSET Nat
  BY <1>2 DEF Phases
<1>4. request \in Seq(Requests)
  <2>1. Attach(r.mode, r.force, r.cursor) \in Requests
    BY <1>2, ClientFields DEF Attach, Requests
  <2>2. <<>> \in Seq(Requests) /\ <<Attach(r.mode, r.force, r.cursor)>> \in Seq(Requests)
    BY <2>1, EmptySeq
  <2>3. QED
    BY <2>2
<1> HIDE DEF c, ids
<1>5. /\ t \in ClientStates /\ t.phase \in {"rejoining", "ready"} /\ t.conn = c /\ t.cursor = r.cursor
  <2>1. CASE r.inflight = {}
    <3>1. t = [r EXCEPT !.phase = "rejoining", !.conn = c, !.inflight = ids]
      BY <2>1
    <3> HIDE DEF t
    <3>2. QED
      BY <1>2, <1>3, <3>1 DEF ClientStates
  <2>2. CASE r.inflight # {}
    <3>1. t = [r EXCEPT !.phase = "ready", !.conn = c, !.op = NoRequest, !.attempt = 0]
      BY <2>2
    <3> HIDE DEF t
    <3>2. QED
      BY <1>2, <1>3, <3>1 DEF ClientStates
  <2>3. QED
    BY <2>1, <2>2
<1>6. IsClient(t)
  BY <1>3, <1>5 DEF IsClient
<1>7. Asks(i, t, request)
  <2> SUFFICES ASSUME i \in Pumps
               PROVE  /\ IsPump(t) /\ IsJoining(t)
                      /\ \E force \in BOOLEAN : request = <<Attach(t.mode, force, t.cursor)>>
    BY DEF Asks
  <2>1. IsPump(r)
    BY DEF IInv, Attends
  <2>2. r.inflight = {}
    BY <1>1, <2>1 DEF IsPump
  <2>3. t = [r EXCEPT !.phase = "rejoining", !.conn = c, !.inflight = ids] /\ request = <<Attach(r.mode, r.force, r.cursor)>>
    BY <2>2
  <2> HIDE DEF t, request
  <2>4. /\ t.phase = "rejoining" /\ t.mode = r.mode /\ t.cursor = r.cursor /\ t.lease = r.lease /\ t.op = r.op
        /\ t.pending = r.pending /\ t.buffered = r.buffered
    BY <1>2, <2>3 DEF ClientStates
  <2>5. IsPump(t) /\ IsJoining(t)
    BY <1>1, <2>1, <2>4 DEF IsPump, IsJoining
  <2>6. r.force \in BOOLEAN
    BY <1>2, ClientFields
  <2>7. QED
    BY <2>3, <2>4, <2>5, <2>6
<1> HIDE DEF t, request
<1>8. t.conn = opened + 1
  BY <1>5 DEF c
<1>9. QED
  BY <1>1, <1>4, <1>5, <1>6, <1>7, <1>8, OpenInv

-----------------------------------------------------------------------------
(* The theorems *)

LEMMA NextInv == IInv /\ [Next]_vars => IInv' /\ FeedStep
<1> SUFFICES ASSUME IInv, [Next]_vars PROVE IInv' /\ FeedStep
  OBVIOUS
<1>1. CASE UNCHANGED vars
  <2>1. UNCHANGED <<host, inbox, cut, client, view, opened, work>>
    BY <1>1 DEF vars
  <2>2. FeedStep
    BY <2>1 DEF FeedStep, Feed!feed
  <2>3. IInv'
    BY <2>1 DEF IInv, Placed, Attends, IsOpen
  <2>4. QED
    BY <2>2, <2>3
<1>2. ASSUME NEW i \in Clients, NEW join \in Joins[i], Connect(i, join[1], join[2]) PROVE IInv' /\ FeedStep
  BY <1>2, ConnectInv
<1>3. ASSUME NEW i \in Clients, NEW kind \in {"command", "acquire", "release"}, NEW force \in BOOLEAN, Ask(i, kind, force)
      PROVE  IInv' /\ FeedStep
  BY <1>3, AskInv
<1>4. ASSUME NEW i \in Clients, Proceed(i) PROVE IInv' /\ FeedStep
  BY <1>4, ReadPushInv, ReadAttachedInv, ReadAnswerInv, ConsumeInv, LostInv, ReconnectInv DEF Proceed
<1>5. ASSUME NEW i \in Clients, TimeOut(i) PROVE IInv' /\ FeedStep
  BY <1>5, TimeOutInv
<1>6. ASSUME NEW i \in Clients, Break(i) PROVE IInv' /\ FeedStep
  BY <1>6, BreakInv
<1>7. ASSUME NEW c \in Connections, Handle(c) PROVE IInv' /\ FeedStep
  BY <1>7, HandleInv
<1>8. ASSUME Publish PROVE IInv' /\ FeedStep
  BY <1>8, PublishInv
<1>9. ASSUME ReplaceLeader PROVE IInv' /\ FeedStep
  BY <1>9, ReplaceLeaderInv
<1>10. QED
  BY <1>1, <1>2, <1>3, <1>4, <1>5, <1>6, <1>7, <1>8, <1>9 DEF Next

(***************************************************************************)
(* IInv holds in every state: whatever overflows, breaks, times out, is    *)
(* sent again or is done by a new leader, what is queued for a pump tells  *)
(* it all it has to know (broadcast_driver, disconnect, host.rs;           *)
(* acknowledge, reconnect, client.rs).                                     *)
(***************************************************************************)
THEOREM Invariance == Spec => []IInv
<1>1. IInv /\ [Next]_vars => IInv'
  BY NextInv
<1>2. QED
  BY InitInv, <1>1, PTL DEF Spec

(***************************************************************************)
(* The surface of each pump shows the events one after the other, none     *)
(* lost and none twice: every step of Delivery is a step of EventFeed or   *)
(* leaves it as it is.  (The leader replays from the cursor or sends a     *)
(* snapshot, and a pump ignores what is not above its cursor.)             *)
(***************************************************************************)
THEOREM FeedIsImplemented == Spec => ImplementsFeed
<1>1. Init => Feed!Init
  <2> SUFFICES ASSUME Init PROVE Feed!Init
    OBVIOUS
  <2>1. view = [i \in Clients |-> <<>>] /\ host.log = <<>>
    BY DEF Init
  <2>2. QED
    BY <2>1, Constants DEF Feed!Init
<1>2. IInv /\ [Next]_vars => [Feed!Next]_Feed!feed
  BY NextInv DEF FeedStep
<1>3. QED
  BY Invariance, <1>1, <1>2, PTL DEF Spec, ImplementsFeed, Feed!Spec

(***************************************************************************)
(* A pump that believes to hold the lease, and to which nothing is on its  *)
(* way, holds it under that epoch: every grant and release is told to the  *)
(* subscribers behind what was told before (broadcast_driver, host.rs;     *)
(* observe_driver, client.rs).                                             *)
(***************************************************************************)
THEOREM LeaseIsHeld == Spec => []LeaseSeenIsHeld
<1>1. IInv => LeaseSeenIsHeld
  <2> SUFFICES ASSUME IInv, NEW i \in Pumps, IsQuiet(i), client[i].conn \in host.subscribers, client[i].lease # 0
               PROVE  host.driver = [owner |-> i, epoch |-> client[i].lease]
    BY DEF LeaseSeenIsHeld
  <2> DEFINE r == client[i]
             s == Seat(host, r.conn)
  <2>1. r.phase = "ready" /\ r.conn \notin cut /\ host.outbound[r.conn] = <<>>
    BY DEF IsQuiet
  <2>2. r.conn # 0
    BY <2>1, Constants DEF IInv, IsClient
  <2>3. Told(s, r, i)
    BY <2>1, <2>2 DEF IInv, Attends, Reads
  <2>4. s.queue = <<>> /\ s.subscribed /\ s.driver = host.driver
    BY <2>1, SeatFields
  <2> HIDE DEF s
  <2>5. IsLast(s.queue, 0)
    BY <2>4 DEF IsLast
  <2>6. Holds(host.driver, i, r.lease)
    BY <2>3, <2>4, <2>5 DEF Told, Tells
  <2>7. QED
    BY <2>6 DEF Holds
<1>2. QED
  BY Invariance, <1>1, PTL

(***************************************************************************)
(* What EventFeed promises to follow: what a pump shows is the beginning   *)
(* of the events of the session, up to its cursor (client.rs).             *)
(***************************************************************************)
THEOREM ViewsStayPrefixes == Spec => []Feed!ViewsArePrefixes
<1>1. IInv => Feed!ViewsArePrefixes
  <2> SUFFICES ASSUME IInv, NEW i \in Pumps
               PROVE  view[i] = SubSeq(host.log, 1, Len(view[i]))
    BY DEF Feed!ViewsArePrefixes
  <2> DEFINE n == UpTo(host.log, client[i].cursor)
  <2>1. view[i] = SubSeq(host.log, 1, n)
    BY DEF IInv, Attends
  <2>2. host.log \in Seq(Nat) /\ n \in 0 .. Len(host.log)
    <3>1. Dated(host.log, host.sequence)
      BY DEF IInv
    <3>2. client[i] \in ClientStates
      BY Constants DEF IInv
    <3>3. client[i].cursor \in Int
      BY <3>2 DEF ClientStates
    <3>4. n \in 0 .. Len(host.log)
      BY <3>1, <3>3, UpToIs
    <3>5. QED
      BY <3>1, <3>4 DEF Dated
  <2> HIDE DEF n
  <2>3. Len(SubSeq(host.log, 1, n)) = n
    BY <2>2
  <2>4. QED
    BY <2>1, <2>3
<1>2. QED
  BY Invariance, <1>1, PTL
=============================================================================
