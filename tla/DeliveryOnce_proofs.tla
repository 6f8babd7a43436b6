------------------------ MODULE DeliveryOnce_proofs -------------------------
(***************************************************************************)
(* Proofs about the commands of Delivery, for any clients, connections,    *)
(* capacities and number of operations and faults: no command is applied   *)
(* twice, or after its client was told that it was refused                 *)
(* (CommandsApplyOnce).                                                    *)
(*                                                                         *)
(* AInv adds to IInv what is said of commands: the copies of one, in the   *)
(* queues of several connections, are numbered and of its client           *)
(* (Numbered); a resent copy carries the lease of the first one, or a      *)
(* later one (Renewed); and a refused id is barred: no copy of it has the  *)
(* lease that is held, and a later one has another epoch (Granteds,        *)
(* Barred, Refusals, Finals).                                              *)
(***************************************************************************)
EXTENDS Delivery_proofs

-----------------------------------------------------------------------------
(* Commands that are sent again *)

Of(q) == {q[k] : k \in 1 .. Len(q)}

Kinds == {"acquire", "release", "command"}

\* The requests of operation id that connection c still brings to the leader.
Copies(h, inb, c, id) == {q \in Of(inb[c]) : IsOpen(h, c) /\ q.kind \in Kinds /\ q.id = id}

\* Operations are numbered: what is under way has a number of its own.
Numbered(h, inb, cl, w) ==
  /\ \A c \in Connections : /\ \A q \in Of(inb[c]) : q.kind \in Kinds => q.id <= w
                            /\ \A m \in Of(h.outbound[c]) : IsPush(m) \/ m.id <= w
  /\ \A i \in Clients : cl[i].op # NoRequest =>
       /\ cl[i].op.id <= w
       /\ \A j \in Clients \ {i} : cl[j].op # NoRequest => cl[j].op.id # cl[i].op.id
       /\ \A c \in Connections : \A q \in Copies(h, inb, c, cl[i].op.id) : h.owner[c] = i /\ q.kind = cl[i].op.kind

\* A client that joins asks for nothing else; what is resent is resent after it.
Joined(h, inb, cl) ==
  /\ \A i \in Clients : IsJoining(cl[i]) =>
       /\ \A q \in Of(inb[cl[i].conn]) : q.kind \notin Kinds
       /\ \A m \in Of(h.outbound[cl[i].conn]) : IsPush(m) \/ m.id = 0
  /\ \A i \in Clients : cl[i].phase = "waiting" /\ cl[i].attempt > 0 /\ IsOpen(h, cl[i].conn) => cl[i].conn \in h.subscribers
  /\ \A c \in Connections : IsOpen(h, c) => \A m \in Of(h.outbound[c]) : m.kind = "attached" => c \in h.subscribers

Tried(cl) ==
  \A i \in Clients :
    /\ cl[i].phase \in {"new", "joining", "ready", "failed"} => cl[i].op = NoRequest
    /\ cl[i].phase = "ready" => cl[i].attempt = 0
    /\ cl[i].phase \in {"broken", "rejoining"} /\ cl[i].op # NoRequest => cl[i].attempt > 0

Sends(r, id) == r.phase = "waiting" /\ r.op.kind = "command" /\ r.op.id = id

\* A command that was not resent is on its way, or answered, or lost.
SentOnce(h, inb, r, id) ==
  /\ \A c \in Connections : \A q \in Copies(h, inb, c, id) :
       c = r.conn /\ id \notin h.committed /\ \A m \in Of(h.outbound[c]) : IsPush(m) \/ m.id # id
  /\ \A j, k \in 1 .. Len(inb[r.conn]) :
       inb[r.conn][j] \in Copies(h, inb, r.conn, id) /\ inb[r.conn][k] \in Copies(h, inb, r.conn, id) => j = k
  /\ Rejected(id) \in Of(h.outbound[r.conn]) => id \notin h.committed

FirstTry(h, inb, cl) ==
  \A i \in Clients, id \in Nat : Sends(cl[i], id) /\ cl[i].attempt = 0 => SentOnce(h, inb, cl[i], id)

\* Leases that are known, or used, were granted.
Granteds(h, inb, cl) ==
  /\ \A i \in Clients : cl[i].lease <= h.epoch /\ (cl[i].op # NoRequest => cl[i].op.epoch <= h.epoch)
  /\ \A c \in Connections :
       /\ \A m \in Of(h.outbound[c]) : /\ m.kind \in {"driver", "driven"} => m.lease.epoch <= h.epoch
                                       /\ m.kind = "attached" => m.epoch <= h.epoch
       /\ \A q \in Of(inb[c]) : q.kind \in Kinds => q.epoch <= h.epoch

\* A command is resent under the lease it had, or, by a blocking client, under
\* a later one.
Renewed(h, inb, cl) ==
  \A i \in Clients : cl[i].op.kind = "command" =>
    /\ \A c \in Connections : \A q \in Copies(h, inb, c, cl[i].op.id) :
         /\ q.epoch <= cl[i].op.epoch
         /\ i \in Pumps \/ (cl[i].phase = "waiting" /\ c = cl[i].conn) => q.epoch = cl[i].op.epoch
    /\ cl[i].phase = "rejoining" => \A m \in Of(h.outbound[cl[i].conn]) :
         m.kind = "attached" /\ m.epoch # 0 => cl[i].op.epoch <= m.epoch

\* Command id was not applied, and no copy of it, nor one that a pump may still
\* send, can be.
Barred(h, inb, cl, id) ==
  /\ id \notin h.committed
  /\ \A c \in Connections : \A q \in Copies(h, inb, c, id) : h.driver # [owner |-> h.owner[c], epoch |-> q.epoch]
  /\ \A i \in Pumps : cl[i].op.kind = "command" /\ cl[i].op.id = id =>
       h.driver # [owner |-> i, epoch |-> cl[i].op.epoch]

\* A refusal of what was resent is final.
Refusals(h, inb, cl) ==
  \A i \in Clients, id \in Nat :
    Sends(cl[i], id) /\ cl[i].attempt > 0 /\ Rejected(id) \in Of(h.outbound[cl[i].conn]) => Barred(h, inb, cl, id)

Finals(h, inb, cl, ids) ==
  \A id \in ids : /\ Barred(h, inb, cl, id)
                  /\ \A i \in Blocking : cl[i].op # NoRequest => cl[i].op.id # id

\* What was applied is remembered, and no number is beyond those given.
Remembered(h, done, ids, w) ==
  /\ done \in Seq(Nat) /\ \A j, k \in 1 .. Len(done) : done[j] = done[k] => j = k
  /\ \A k \in 1 .. Len(done) : done[k] \in h.committed
  /\ ids \subseteq Nat /\ \A id \in h.committed \cup ids : id <= w

AInvs(h, inb, cl, w, done, ids) ==
  /\ Remembered(h, done, ids, w)
  /\ Numbered(h, inb, cl, w) /\ Joined(h, inb, cl) /\ Tried(cl) /\ FirstTry(h, inb, cl)
  /\ ~h.forgot => /\ Granteds(h, inb, cl) /\ Renewed(h, inb, cl)
                  /\ Refusals(h, inb, cl) /\ Finals(h, inb, cl, ids)

AInv == AInvs(host, inbox, client, work, applied, refused \cup fenced)

\* What IInv says of the clients and the requests that are on their way.
Seated(h, inb, cl, w) ==
  /\ Sound(h) /\ inb \in [Connections -> Seq(Requests)] /\ w \in Nat
  /\ \A i \in Clients : /\ cl[i] \in ClientStates
                        /\ cl[i].phase # "new" => cl[i].conn \in Connections /\ h.owner[cl[i].conn] \in {i, NoClient}

-----------------------------------------------------------------------------
(* What the leader does to the commands and leases that are known *)

\* Pushes that tell of no lease beyond epoch.
News(epoch) == {m \in Messages : IsPush(m) /\ (m.kind = "driver" => m.lease.epoch <= epoch)}

\* The queues of g are those of h with news, and messages of M for c.
Informs(h, g, c, M) ==
  \A k \in Connections : Of(g.outbound[k]) \subseteq Of(h.outbound[k]) \cup News(g.epoch) \cup (IF k = c THEN M ELSE {})

\* Connections end, leases are released or newer ones granted.
Goes(h, g, c, M) ==
  /\ \A k \in Connections : g.owner[k] \in {h.owner[k], NoClient}
  /\ \A k \in h.subscribers : k \in Connections /\ IsOpen(g, k) => k \in g.subscribers
  /\ g.forgot = h.forgot /\ h.epoch \in Nat /\ g.epoch \in Nat /\ h.epoch <= g.epoch
  /\ g.driver \in {h.driver, NoLease} \/ (g.driver.epoch \in Nat /\ g.driver.epoch > h.epoch)
  /\ Informs(h, g, c, M)

LEMMA NewsMore ==
  ASSUME NEW d \in Nat, NEW e \in Nat, d <= e
  PROVE  News(d) \subseteq News(e)
<1>1. ASSUME NEW m \in News(d) PROVE m \in News(e)
  <2>1. m.kind = "driver" => m.lease.epoch \in Nat
    BY LeaseFields, MessageFields DEF News
  <2>2. QED
    BY <2>1 DEF News
<1>2. QED
  BY <1>1

LEMMA NewsAre ==
  ASSUME NEW e \in Nat
  PROVE  /\ Freed \in News(e)
         /\ \A n \in Nat : Event(n) \in News(e) /\ Snapshot(n) \in News(e)
         /\ \A l \in Leases : l.epoch <= e => DriverChanged(l) \in News(e)
<1>1. /\ IsPush(Freed) /\ Freed \in Messages /\ Freed.lease.epoch = 0
  BY MessageTypes, LeaseTypes DEF IsPush
<1>2. \A n \in Nat : /\ IsPush(Event(n)) /\ Event(n) \in Messages /\ Event(n).kind # "driver"
                     /\ IsPush(Snapshot(n)) /\ Snapshot(n) \in Messages /\ Snapshot(n).kind # "driver"
  BY MessageTypes DEF IsPush
<1>3. \A l \in Leases : /\ IsPush(DriverChanged(l)) /\ DriverChanged(l) \in Messages /\ DriverChanged(l).lease = l
  BY MessageTypes DEF IsPush
<1>4. QED
  BY <1>1, <1>2, <1>3 DEF News

LEMMA OfExtends ==
  ASSUME NEW p \in Seq(Messages), NEW q \in Seq(Messages), NEW M, Extends(p, q, M)
  PROVE  Of(q) \subseteq Of(p) \cup M
<1>1. ASSUME NEW k \in 1 .. Len(q) PROVE q[k] \in Of(p) \cup M
  <2>1. CASE k <= Len(p)
    BY <2>1 DEF Extends, Of
  <2>2. CASE k > Len(p)
    BY <2>2 DEF Extends
  <2>3. QED
    BY <2>1, <2>2
<1>2. QED
  BY <1>1 DEF Of

LEMMA OfAppend ==
  ASSUME NEW S, NEW p \in Seq(S), NEW m \in S
  PROVE  Of(Append(p, m)) = Of(p) \cup {m}
<1> DEFINE q == Append(p, m)
<1>1. /\ Len(p) \in Nat /\ Len(q) = Len(p) + 1 /\ q[Len(p) + 1] = m
      /\ \A k \in 1 .. Len(p) : q[k] = p[k]
  BY AppendProperties
<1> HIDE DEF q
<1>2. Of(q) \subseteq Of(p) \cup {m}
  <2>1. ASSUME NEW k \in 1 .. Len(q) PROVE q[k] \in Of(p) \cup {m}
    <3>1. k \in 1 .. Len(p) \/ k = Len(p) + 1
      BY <1>1
    <3>2. QED
      BY <1>1, <3>1 DEF Of
  <2>2. QED
    BY <2>1 DEF Of
<1>3. Of(p) \subseteq Of(q)
  <2>1. ASSUME NEW k \in 1 .. Len(p) PROVE p[k] \in Of(q)
    <3>1. k \in 1 .. Len(q) /\ q[k] = p[k]
      BY <1>1
    <3>2. QED
      BY <3>1 DEF Of
  <2>2. QED
    BY <2>1 DEF Of
<1>4. m \in Of(q)
  <2>1. Len(p) + 1 \in 1 .. Len(q)
    BY <1>1
  <2>2. QED
    BY <1>1, <2>1 DEF Of
<1>5. QED
  BY <1>2, <1>3, <1>4 DEF q

LEMMA FrameGoes ==
  ASSUME NEW h, Sound(h), NEW g, Frame(h, g), NEW c, NEW M, Informs(h, g, c, M)
  PROVE  Goes(h, g, c, M)
<1>1. h \in Hosts /\ h.epoch \in Nat
  BY HostFields DEF Sound
<1>2. /\ g.owner \in [Connections -> Clients \cup {NoClient}] /\ g.epoch = h.epoch /\ g.forgot = h.forgot
      /\ g.driver \in {h.driver, NoLease}
  BY HostFields DEF Frame
<1>3. QED
  BY <1>1, <1>2 DEF Goes, Frame

LEMMA GoesTrans ==
  ASSUME NEW f, NEW g, NEW h, NEW c, NEW L, NEW M, Goes(f, g, c, L), Goes(g, h, c, M)
  PROVE  Goes(f, h, c, L \cup M)
<1>1. f.epoch \in Nat /\ g.epoch \in Nat /\ h.epoch \in Nat /\ f.epoch <= g.epoch /\ g.epoch <= h.epoch
  BY DEF Goes
<1>2. News(g.epoch) \subseteq News(h.epoch)
  BY <1>1, NewsMore
<1>3. Informs(f, h, c, L \cup M)
  <2>1. ASSUME NEW k \in Connections
        PROVE  Of(h.outbound[k]) \subseteq Of(f.outbound[k]) \cup News(h.epoch) \cup (IF k = c THEN L \cup M ELSE {})
    <3>1. Of(h.outbound[k]) \subseteq Of(g.outbound[k]) \cup News(h.epoch) \cup (IF k = c THEN M ELSE {})
      BY DEF Goes, Informs
    <3>2. Of(g.outbound[k]) \subseteq Of(f.outbound[k]) \cup News(g.epoch) \cup (IF k = c THEN L ELSE {})
      BY DEF Goes, Informs
    <3>3. QED
      BY <1>2, <3>1, <3>2
  <2>2. QED
    BY <2>1 DEF Informs
<1>4. h.driver \in {f.driver, NoLease} \/ (h.driver.epoch \in Nat /\ h.driver.epoch > f.epoch)
  <2>1. CASE h.driver = NoLease
    BY <2>1
  <2>2. CASE h.driver = g.driver
    BY <2>2 DEF Goes
  <2>3. CASE h.driver.epoch \in Nat /\ h.driver.epoch > g.epoch
    BY <1>1, <2>3
  <2>4. QED
    BY <2>1, <2>2, <2>3 DEF Goes
<1>5. \A k \in Connections : h.owner[k] \in {f.owner[k], NoClient}
  <2>1. ASSUME NEW k \in Connections PROVE h.owner[k] \in {f.owner[k], NoClient}
    <3>1. g.owner[k] \in {f.owner[k], NoClient} /\ h.owner[k] \in {g.owner[k], NoClient}
      BY DEF Goes
    <3>2. QED
      BY <3>1
  <2>2. QED
    BY <2>1
<1>6. \A k \in f.subscribers : k \in Connections /\ IsOpen(h, k) => k \in h.subscribers
  <2>1. ASSUME NEW k \in f.subscribers, IsOpen(h, k), k \in Connections PROVE k \in h.subscribers
    <3>1. IsOpen(g, k)
      BY <2>1 DEF Goes, IsOpen
    <3>2. k \in g.subscribers
      BY <2>1, <3>1 DEF Goes
    <3>3. QED
      BY <2>1, <3>2 DEF Goes
  <2>2. QED
    BY <2>1
<1>7. h.forgot = f.forgot /\ f.epoch <= h.epoch
  BY <1>1 DEF Goes
<1>8. QED
  BY <1>1, <1>3, <1>4, <1>5, <1>6, <1>7 DEF Goes

LEMMA GoesMore ==
  ASSUME NEW h, NEW g, NEW c, NEW L, NEW M, Goes(h, g, c, L), L \subseteq M \cup News(g.epoch)
  PROVE  Goes(h, g, c, M)
<1>1. Informs(h, g, c, M)
  <2>1. ASSUME NEW k \in Connections
        PROVE  Of(g.outbound[k]) \subseteq Of(h.outbound[k]) \cup News(g.epoch) \cup (IF k = c THEN M ELSE {})
    <3>1. Of(g.outbound[k]) \subseteq Of(h.outbound[k]) \cup News(g.epoch) \cup (IF k = c THEN L ELSE {})
      BY DEF Goes, Informs
    <3>2. QED
      BY <3>1
  <2>2. QED
    BY <2>1 DEF Informs
<1>2. QED
  BY <1>1 DEF Goes

LEMMA SendGoes ==
  ASSUME NEW h, Sound(h), NEW c \in Connections, NEW m \in Messages
  PROVE  Goes(h, Send(h, c, m), c, {m})
<1> DEFINE g == Send(h, c, m)
<1>1. /\ Frame(h, g)
      /\ ~IsOpen(h, c) => g = h
      /\ IsOpen(g, c) => g.outbound[c] = Append(h.outbound[c], m)
      /\ ~IsOpen(g, c) => g.outbound[c] = h.outbound[c]
      /\ \A k \in Connections \ {c} : Extends(h.outbound[k], g.outbound[k], {Freed})
  BY SendIs
<1> HIDE DEF g
<1>2. /\ \A k \in Connections : h.outbound[k] \in Seq(Messages) /\ g.outbound[k] \in Seq(Messages)
      /\ g.epoch \in Nat
  BY <1>1, HostFields DEF Sound, Frame
<1>3. ASSUME NEW k \in Connections
      PROVE  Of(g.outbound[k]) \subseteq Of(h.outbound[k]) \cup News(g.epoch) \cup (IF k = c THEN {m} ELSE {})
  <2>1. CASE k = c
    <3>1. Of(Append(h.outbound[c], m)) = Of(h.outbound[c]) \cup {m}
      BY <1>2, OfAppend
    <3>2. QED
      BY <1>1, <2>1, <3>1
  <2>2. CASE k # c
    <3>1. Of(g.outbound[k]) \subseteq Of(h.outbound[k]) \cup {Freed}
      BY <1>1, <1>2, <2>2, OfExtends
    <3>2. QED
      BY <1>2, <3>1, NewsAre
  <2>3. QED
    BY <2>1, <2>2
<1>4. Goes(h, g, c, {m})
  BY <1>1, <1>3, FrameGoes DEF Informs
<1>5. QED
  BY <1>4 DEF g

LEMMA BroadcastGoes ==
  ASSUME NEW h, Sound(h), NEW m \in News(h.epoch), NEW order, Visits(order, h), NEW c, NEW M
  PROVE  Goes(h, Broadcast(h, m, order), c, M)
<1> DEFINE g == Broadcast(h, m, order)
<1>0. m \in Messages
  BY DEF News
<1>1. Frame(h, g) /\ \A k \in Connections : Heard(h, g, k, m)
  BY <1>0, BroadcastIs
<1> HIDE DEF g
<1>2. /\ \A k \in Connections : h.outbound[k] \in Seq(Messages) /\ g.outbound[k] \in Seq(Messages)
      /\ g.epoch \in Nat /\ g.epoch = h.epoch
  BY <1>1, HostFields DEF Sound, Frame
<1>3. ASSUME NEW k \in Connections PROVE Of(g.outbound[k]) \subseteq Of(h.outbound[k]) \cup News(g.epoch)
  <2>1. CASE g.outbound[k] = h.outbound[k]
    BY <2>1
  <2>2. CASE Extends(h.outbound[k], g.outbound[k], {m, Freed})
    <3>1. Of(g.outbound[k]) \subseteq Of(h.outbound[k]) \cup {m, Freed}
      BY <1>2, <2>2, OfExtends
    <3>2. QED
      BY <1>2, <3>1, NewsAre
  <2>3. QED
    BY <1>1, <2>1, <2>2 DEF Heard
<1>4. Goes(h, g, c, M)
  BY <1>1, <1>3, FrameGoes DEF Informs
<1>5. QED
  BY <1>4 DEF g

LEMMA GoesSame ==
  ASSUME NEW h, Sound(h), NEW c, NEW M
  PROVE  Goes(h, h, c, M)
<1>1. Informs(h, h, c, M)
  BY DEF Informs
<1>2. QED
  BY <1>1, FrameSame, FrameGoes

LEMMA PublicationGoes ==
  ASSUME NEW a, Sound(a), NEW base \in Nat, NEW n \in Nat, NEW order, Visits(order, a),
         NEW f, IsPublication(f, a, base, order, n), NEW c
  PROVE  Goes(a, f[n], c, {})
<1> DEFINE T == {k \in 0 .. n : Goes(a, f[k], c, {})}
<1>1. \A k \in 0 .. n : f[k] = IF k = 0 THEN a ELSE Broadcast(f[k - 1], Event(base + k), order)
  BY DEF IsPublication
<1>2. 0 \in T
  BY <1>1, GoesSame
<1>3. ASSUME NEW k \in 1 .. n, k - 1 \in T PROVE k \in T
  <2> DEFINE g == f[k - 1]
             m == Event(base + k)
             u == Broadcast(g, m, order)
  <2>1. Goes(a, g, c, {}) /\ k \in 0 .. n /\ k - 1 \in 0 .. n /\ k # 0 /\ base + k \in Nat
    BY <1>3
  <2>2. f[k] = u
    BY <1>1, <2>1
  <2>3. Sound(g) /\ Visits(order, g)
    BY <2>1, PublicationFrame
  <2>4. g.epoch \in Nat
    BY <2>3, HostFields DEF Sound
  <2>5. m \in News(g.epoch)
    BY <2>1, <2>4, NewsAre
  <2> HIDE DEF g, m
  <2>6. Goes(g, u, c, {})
    BY <2>3, <2>5, BroadcastGoes
  <2> HIDE DEF u
  <2>7. Goes(a, u, c, {} \cup {})
    BY <2>1, <2>6, GoesTrans
  <2>8. QED
    BY <2>1, <2>2, <2>7
<1> HIDE DEF T
<1>4. \A k \in 0 .. n : k \in T
  BY <1>2, <1>3, CountUp
<1>5. QED
  BY <1>4 DEF T

LEMMA PublishedGoes ==
  ASSUME NEW h, Sound(h), Dated(h.log, h.sequence), NEW n \in Nat, NEW isRequest \in BOOLEAN,
         NEW order, Visits(order, h), NEW c
  PROVE  LET g == Published(h, n, isRequest, order) IN
         Goes(h, g, c, {}) /\ g.committed = h.committed /\ Sound(g)
<1> DEFINE a == Advanced(h, n, isRequest)
           f == CHOOSE u : IsPublication(u, a, h.sequence, order, n)
           g == Published(h, n, isRequest, order)
<1>1. /\ Sound(a) /\ a.owner = h.owner /\ a.subscribers = h.subscribers /\ a.driver = h.driver
      /\ a.outbound = h.outbound /\ a.committed = h.committed /\ a.epoch = h.epoch /\ a.forgot = h.forgot
  BY AdvancedIs
<1>2. h.sequence \in Nat
  BY DEF Dated
<1>3. IsPublication(f, a, h.sequence, order, n)
  BY PublicationExists
<1>4. g = f[n]
  BY DEF Published, IsPublication
<1>5. Visits(order, a)
  BY <1>1 DEF Visits
<1> HIDE DEF a, f, g
<1>6. Goes(a, g, c, {})
  BY <1>1, <1>2, <1>3, <1>4, <1>5, PublicationGoes
<1>7. Goes(h, g, c, {})
  BY <1>1, <1>6 DEF Goes, Informs
<1>8. Frame(a, g) /\ Sound(g)
  BY <1>1, <1>2, <1>3, <1>4, <1>5, PublicationFrame
<1>9. QED
  BY <1>1, <1>7, <1>8 DEF g, Frame

LEMMA SendAllGoes ==
  ASSUME NEW h, Sound(h), NEW c \in Connections, NEW messages \in Seq(Messages)
  PROVE  LET g == SendAll(h, c, messages) IN Goes(h, g, c, Of(messages)) /\ Frame(h, g)
<1> DEFINE g == SendAll(h, c, messages)
<1>1. /\ Spares(h, g, c) /\ SentAll(h, g, c, messages)
      /\ ~IsOpen(h, c) => g = h
  BY SendAllSpares
<1> HIDE DEF g
<1>2. Frame(h, g) /\ \A k \in Connections \ {c} : Extends(h.outbound[k], g.outbound[k], {Freed})
  BY <1>1 DEF Spares
<1>3. /\ \A k \in Connections : h.outbound[k] \in Seq(Messages) /\ g.outbound[k] \in Seq(Messages)
      /\ g.epoch \in Nat
  BY <1>2, HostFields DEF Sound, Frame
<1>4. Of(g.outbound[c]) \subseteq Of(h.outbound[c]) \cup Of(messages)
  <2>1. CASE ~IsOpen(h, c)
    BY <1>1, <2>1
  <2>2. CASE IsOpen(h, c)
    <3> DEFINE p == h.outbound[c]
    <3>1. PICK n \in 0 .. Len(messages) : g.outbound[c] = p \o SubSeq(messages, 1, n)
      BY <1>1, <2>2 DEF SentAll
    <3> DEFINE s == SubSeq(messages, 1, n)
    <3>2. p \in Seq(Messages) /\ Len(messages) \in Nat /\ n \in Int /\ \A k \in 1 .. n : messages[k] \in Messages
      BY <1>3, LenProperties, ElementOfSeq
    <3>3. /\ s \in Seq(Messages) /\ Len(s) = n /\ \A k \in 1 .. n : s[k] = messages[k]
      <4>1. /\ s \in Seq(Messages) /\ Len(s) = IF 1 <= n THEN n - 1 + 1 ELSE 0
            /\ \A k \in 1 .. n - 1 + 1 : s[k] = messages[1 + k - 1]
        BY <3>2, SubSeqProperties
      <4> HIDE DEF s
      <4>2. \A k \in 1 .. n : k \in 1 .. n - 1 + 1 /\ 1 + k - 1 = k
        BY <3>2
      <4>3. n - 1 + 1 = n /\ n >= 0
        BY <3>2
      <4>4. QED
        BY <3>2, <4>1, <4>2, <4>3
    <3> HIDE DEF s
    <3>4. /\ Len(p) \in Nat /\ Len(p \o s) = Len(p) + Len(s)
          /\ \A k \in 1 .. Len(p) + Len(s) : (p \o s)[k] = IF k <= Len(p) THEN p[k] ELSE s[k - Len(p)]
      BY <3>2, <3>3, ConcatProperties, LenProperties
    <3> HIDE DEF p
    <3>5. ASSUME NEW k \in 1 .. Len(p \o s) PROVE (p \o s)[k] \in Of(p) \cup Of(messages)
      <4>1. CASE k <= Len(p)
        <5>1. k \in 1 .. Len(p) /\ (p \o s)[k] = p[k]
          BY <3>3, <3>4, <4>1
        <5>2. QED
          BY <5>1 DEF Of
      <4>2. CASE k > Len(p)
        <5>1. k - Len(p) \in 1 .. n /\ (p \o s)[k] = s[k - Len(p)]
          BY <3>3, <3>4, <4>2
        <5>2. k - Len(p) \in 1 .. Len(messages) /\ (p \o s)[k] = messages[k - Len(p)]
          BY <3>2, <3>3, <5>1
        <5>3. QED
          BY <5>2 DEF Of
      <4>3. QED
        BY <3>4, <4>1, <4>2
    <3>6. QED
      BY <3>1, <3>5 DEF Of, s, p
  <2>3. QED
    BY <2>1, <2>2
<1>5. ASSUME NEW k \in Connections
      PROVE  Of(g.outbound[k]) \subseteq Of(h.outbound[k]) \cup News(g.epoch) \cup (IF k = c THEN Of(messages) ELSE {})
  <2>1. CASE k = c
    BY <1>4, <2>1
  <2>2. CASE k # c
    <3>1. Of(g.outbound[k]) \subseteq Of(h.outbound[k]) \cup {Freed}
      BY <1>2, <1>3, <2>2, OfExtends
    <3>2. QED
      BY <1>3, <3>1, NewsAre
  <2>3. QED
    BY <2>1, <2>2
<1>6. Goes(h, g, c, Of(messages))
  BY <1>2, <1>5, FrameGoes DEF Informs
<1>7. QED
  BY <1>2, <1>6 DEF g

LEMMA JoinGoes ==
  ASSUME NEW h, Sound(h), NEW c \in Connections, NEW mode \in Modes, NEW f, IsGranted(h, f, c, mode),
         NEW order, Visits(order, f),
         NEW g, g = IF f.driver = h.driver THEN f ELSE Broadcast(f, DriverChanged(f.driver), order)
  PROVE  Goes(h, g, c, {}) /\ g.committed = h.committed /\ g.epoch = f.epoch
<1>1. /\ Sound(f) /\ f.subscribers = h.subscribers \cup {c} /\ f.outbound = h.outbound /\ f.owner = h.owner
      /\ f.committed = h.committed /\ f.forgot = h.forgot
      /\ h.epoch <= f.epoch /\ (f.driver = h.driver \/ f.driver.epoch > h.epoch)
  BY DEF IsGranted
<1>2. /\ f.epoch \in Nat /\ h.epoch \in Nat /\ f.driver \in Leases /\ f.driver.epoch \in Nat
      /\ f.owner \in [Connections -> Clients \cup {NoClient}]
  BY <1>1, HostFields, LeaseFields DEF Sound
<1>3. f.driver.epoch <= f.epoch
  <2>1. f.driver = NoLease => f.driver.epoch = 0
    BY LeaseTypes
  <2>2. QED
    BY <1>1, <1>2, <2>1 DEF Sound
<1>4. Goes(h, f, c, {})
  BY <1>1, <1>2 DEF Goes, Informs
<1>5. Frame(f, g)
  BY JoinFrame
<1>6. Goes(f, g, c, {})
  <2>1. CASE f.driver = h.driver
    BY <1>1, <2>1, GoesSame
  <2>2. CASE f.driver # h.driver
    <3>1. DriverChanged(f.driver) \in News(f.epoch)
      BY <1>2, <1>3, NewsAre
    <3>2. QED
      BY <1>1, <2>2, <3>1, BroadcastGoes
  <2>3. QED
    BY <2>1, <2>2
<1>7. Goes(h, g, c, {} \cup {})
  BY <1>4, <1>6, GoesTrans
<1>8. QED
  BY <1>1, <1>5, <1>7 DEF Frame

-----------------------------------------------------------------------------
(* What a request does to them *)

\* The answers to request q of connection c, when g is h after it.
Answers(h, g, c, q) ==
  {m \in Messages :
     /\ ~IsPush(m) /\ IsOpen(h, c)
     /\ q.kind = "attach" => m.id = 0
     /\ q.kind # "attach" => q.kind \in Kinds /\ m.id = q.id /\ m.kind # "attached"
     /\ m.kind = "attached" => /\ m.epoch <= g.epoch /\ (m.epoch # 0 => h.epoch <= m.epoch)
                               /\ IsOpen(g, c) => c \in g.subscribers
     /\ m.kind = "driven" => m.lease.epoch <= g.epoch
     /\ m.kind = "rejected" /\ q.kind = "command" =>
          ~Applies(h, c, q) /\ ~(c \in h.subscribers /\ IsDuplicate(h, q))}

IsApplied(h, c, q) == q.kind = "command" /\ Applies(h, c, q)

Handled(h, g, c, q) ==
  /\ Goes(h, g, c, Answers(h, g, c, q))
  /\ g.committed = h.committed \cup (IF IsApplied(h, c, q) THEN {q.id} ELSE {})

LEMMA HandledNothing ==
  ASSUME NEW h, Sound(h), NEW c, ~IsOpen(h, c), NEW q
  PROVE  Handled(h, h, c, q)
BY GoesSame DEF Handled, IsApplied, Applies

\* The leader answers operation q.
LEMMA AnswerGoes ==
  ASSUME NEW h, NEW j, Sound(j), NEW c \in Connections, Goes(h, j, c, {}), IsOpen(h, c),
         NEW q, q.kind \in Kinds, NEW m \in Messages, m.kind \in {"accepted", "rejected", "driven"}, m.id = q.id,
         m.kind = "driven" => m.lease.epoch <= j.epoch,
         m.kind = "rejected" /\ q.kind = "command" =>
           ~Applies(h, c, q) /\ ~(c \in h.subscribers /\ IsDuplicate(h, q))
  PROVE  LET g == Send(j, c, m) IN
         Goes(h, g, c, Answers(h, g, c, q)) /\ g.committed = j.committed
<1> DEFINE g == Send(j, c, m)
<1>1. Goes(j, g, c, {m}) /\ Frame(j, g)
  BY SendGoes, SendIs
<1> HIDE DEF g
<1>2. Goes(h, g, c, {} \cup {m})
  BY <1>1, GoesTrans
<1>3. g.epoch = j.epoch /\ g.committed = j.committed
  BY <1>1 DEF Frame
<1>4. m \in Answers(h, g, c, q)
  BY <1>3 DEF Answers, Kinds, IsPush
<1>5. Goes(h, g, c, Answers(h, g, c, q))
  BY <1>2, <1>4, GoesMore
<1>6. QED
  BY <1>3, <1>5 DEF g

LEMMA HandledAcquire ==
  ASSUME NEW h, Sound(h), NEW c \in Connections,
         NEW q \in Requests, q.kind = "acquire", NEW order, order \in SetToSeqs(h.subscribers \cup {c})
  PROVE  Handled(h, HandleAcquire(h, c, q, order), c, q)
<1>0. q.id \in Nat /\ q.id # 0 /\ "drive" \in Modes /\ q.kind \in Kinds
  BY RequestFields DEF Modes, Kinds
<1>1. CASE ~IsOpen(h, c)
  BY <1>1, HandledNothing DEF HandleAcquire
<1>2. CASE IsOpen(h, c) /\ IsBusy(h, c, q.force)
  <2> DEFINE m == Rejected(q.id)
  <2>1. HandleAcquire(h, c, q, order) = Send(h, c, m)
    BY <1>2 DEF HandleAcquire
  <2>2. m \in Messages /\ m.kind = "rejected" /\ m.id = q.id
    BY <1>0, MessageTypes
  <2> HIDE DEF m
  <2>3. Goes(h, h, c, {})
    BY GoesSame
  <2>4. QED
    BY <1>0, <1>2, <2>1, <2>2, <2>3, AnswerGoes DEF Handled, IsApplied
<1>3. CASE IsOpen(h, c) /\ ~IsBusy(h, c, q.force)
  <2> DEFINE j == Join(h, c, "drive", order)
  <2>1. PICK f : /\ IsGranted(h, f, c, "drive") /\ Granted(h, c, "drive").driver = f.driver /\ Visits(order, f)
                 /\ j = IF f.driver = h.driver THEN f ELSE Broadcast(f, DriverChanged(f.driver), order)
    BY <1>0, <1>3, JoinIs
  <2> DEFINE m == Driver(q.id, f.driver)
  <2>2. HandleAcquire(h, c, q, order) = Send(j, c, m)
    BY <1>3, <2>1 DEF HandleAcquire
  <2>3. f.driver \in Leases /\ f.driver.epoch > 0 /\ (f.driver # NoLease => f.driver.epoch = f.epoch)
    BY <2>1, HostFields DEF IsGranted, Sound
  <2>3a. f.driver.epoch = f.epoch /\ f.epoch \in Nat
    BY <2>1, <2>3, HostFields, LeaseTypes DEF IsGranted, Sound
  <2>4. m \in Messages /\ m.kind = "driven" /\ m.lease = f.driver /\ m.id = q.id
    BY <1>0, <2>3, MessageTypes
  <2> HIDE DEF j, m
  <2>5. Sound(j)
    BY <1>0, <2>1, JoinFrame
  <2>6. Goes(h, j, c, {}) /\ j.committed = h.committed /\ j.epoch = f.epoch
    BY <1>0, <2>1, JoinGoes
  <2>7. m.lease.epoch <= j.epoch
    BY <2>3a, <2>4, <2>6
  <2>8. QED
    BY <1>0, <1>3, <2>2, <2>4, <2>5, <2>6, <2>7, AnswerGoes DEF Handled, IsApplied
<1>4. QED
  BY <1>1, <1>2, <1>3

LEMMA HandledRelease ==
  ASSUME NEW h, Sound(h), NEW c \in Connections,
         NEW q \in Requests, q.kind = "release", NEW order, order \in SetToSeqs(h.subscribers \cup {c})
  PROVE  Handled(h, HandleRelease(h, c, q, order), c, q)
<1>0. q.id \in Nat /\ q.id # 0 /\ q.kind \in Kinds
  BY RequestFields DEF Kinds
<1>1. CASE ~IsOpen(h, c)
  BY <1>1, HandledNothing DEF HandleRelease
<1>2. CASE IsOpen(h, c) /\ (c \notin h.subscribers \/ h.driver.owner # h.owner[c])
  <2> DEFINE m == Rejected(q.id)
  <2>1. HandleRelease(h, c, q, order) = Send(h, c, m)
    BY <1>2 DEF HandleRelease
  <2>2. m \in Messages /\ m.kind = "rejected" /\ m.id = q.id
    BY <1>0, MessageTypes
  <2> HIDE DEF m
  <2>3. Goes(h, h, c, {})
    BY GoesSame
  <2>4. QED
    BY <1>0, <1>2, <2>1, <2>2, <2>3, AnswerGoes DEF Handled, IsApplied
<1>3. CASE IsOpen(h, c) /\ ~(c \notin h.subscribers \/ h.driver.owner # h.owner[c])
  <2> DEFINE f == [h EXCEPT !.driver = NoLease]
             j == Broadcast(f, DriverChanged(NoLease), order)
             m == Driver(q.id, NoLease)
  <2>1. HandleRelease(h, c, q, order) = Send(j, c, m)
    BY <1>3 DEF HandleRelease
  <2>2. /\ h \in Hosts /\ h.subscribers \in SUBSET Connections /\ NoLease \in Leases /\ h.epoch \in Nat
        /\ h.owner \in [Connections -> Clients \cup {NoClient}]
    BY HostFields, LeaseTypes DEF Sound
  <2>3. /\ f \in Hosts /\ f.driver = NoLease /\ f.owner = h.owner /\ f.subscribers = h.subscribers
        /\ f.committed = h.committed /\ f.epoch = h.epoch /\ f.forgot = h.forgot /\ f.outbound = h.outbound
    BY <2>2 DEF Hosts
  <2> HIDE DEF f
  <2>4. Sound(f)
    BY <2>3 DEF Sound, IsOpen
  <2>5. Visits(order, f)
    <3>1. h.subscribers \cup {c} \in SUBSET Connections /\ f.subscribers \subseteq h.subscribers \cup {c}
      BY <2>2, <2>3
    <3>2. QED
      BY <3>1, OrderVisits
  <2>6. DriverChanged(NoLease) \in News(f.epoch) /\ DriverChanged(NoLease) \in Messages
    BY <2>2, <2>3, NewsAre, MessageTypes DEF Freed
  <2>7. m \in Messages /\ m.kind = "driven" /\ m.lease.epoch = 0 /\ m.id = q.id
    BY <1>0, <2>2, MessageTypes, LeaseTypes
  <2>8. Goes(f, j, c, {}) /\ Frame(f, j)
    BY <2>4, <2>5, <2>6, BroadcastGoes, BroadcastIs
  <2> HIDE DEF j, m
  <2>9. Goes(h, f, c, {})
    BY <2>2, <2>3 DEF Goes, Informs
  <2>10. Goes(h, j, c, {} \cup {})
    BY <2>8, <2>9, GoesTrans
  <2>11. Sound(j) /\ j.committed = h.committed /\ m.lease.epoch <= j.epoch
    BY <2>2, <2>3, <2>4, <2>7, <2>8, FrameSound DEF Frame
  <2>12. QED
    BY <1>0, <1>3, <2>1, <2>7, <2>10, <2>11, AnswerGoes DEF Handled, IsApplied
<1>4. QED
  BY <1>1, <1>2, <1>3

LEMMA HandledCommand ==
  ASSUME NEW h, Sound(h), Dated(h.log, h.sequence), NEW c \in Connections,
         NEW q \in Requests, q.kind = "command", NEW order, order \in SetToSeqs(h.subscribers \cup {c}), NEW n \in Nat
  PROVE  Handled(h, HandleCommand(h, c, q, n, order), c, q)
<1>0. q.id \in Nat /\ q.id # 0 /\ q.kind \in Kinds
  BY RequestFields DEF Kinds
<1>1. CASE ~IsOpen(h, c)
  BY <1>1, HandledNothing DEF HandleCommand
<1>2. CASE IsOpen(h, c) /\ ~Applies(h, c, q)
  <2> DEFINE m == IF c \in h.subscribers /\ IsDuplicate(h, q) THEN Accepted(q.id) ELSE Rejected(q.id)
  <2>1. HandleCommand(h, c, q, n, order) = Send(h, c, m)
    BY <1>2 DEF HandleCommand
  <2>2. /\ m \in Messages /\ m.kind \in {"accepted", "rejected"} /\ m.id = q.id
        /\ m.kind = "rejected" => ~(c \in h.subscribers /\ IsDuplicate(h, q))
    BY <1>0, MessageTypes
  <2> HIDE DEF m
  <2>3. Goes(h, h, c, {})
    BY GoesSame
  <2>4. QED
    BY <1>0, <1>2, <2>1, <2>2, <2>3, AnswerGoes DEF Handled, IsApplied
<1>3. CASE IsOpen(h, c) /\ Applies(h, c, q)
  <2> DEFINE f == [h EXCEPT !.committed = @ \cup {q.id}]
             j == Published(f, n, TRUE, order)
             m == Accepted(q.id)
  <2>1. HandleCommand(h, c, q, n, order) = Send(j, c, m)
    BY <1>3 DEF HandleCommand
  <2>2. /\ h \in Hosts /\ h.subscribers \in SUBSET Connections /\ h.epoch \in Nat
        /\ h.owner \in [Connections -> Clients \cup {NoClient}]
    BY HostFields DEF Sound
  <2>3. /\ f \in Hosts /\ f.driver = h.driver /\ f.owner = h.owner /\ f.subscribers = h.subscribers
        /\ f.log = h.log /\ f.sequence = h.sequence /\ f.outbound = h.outbound /\ f.epoch = h.epoch
        /\ f.committed = h.committed \cup {q.id} /\ f.forgot = h.forgot
    BY <1>0, <2>2 DEF Hosts
  <2> HIDE DEF f
  <2>4. Sound(f) /\ Dated(f.log, f.sequence)
    BY <2>3 DEF Sound, IsOpen
  <2>5. Visits(order, f)
    <3>1. h.subscribers \cup {c} \in SUBSET Connections /\ f.subscribers \subseteq h.subscribers \cup {c}
      BY <2>2, <2>3
    <3>2. QED
      BY <3>1, OrderVisits
  <2>6. Sound(j) /\ Goes(f, j, c, {}) /\ j.committed = f.committed
    BY <2>4, <2>5, PublishedGoes
  <2>7. m \in Messages /\ m.kind = "accepted" /\ m.id = q.id
    BY <1>0, MessageTypes
  <2> HIDE DEF j, m
  <2>8. Goes(h, f, c, {})
    BY <2>2, <2>3 DEF Goes, Informs
  <2>9. Goes(h, j, c, {} \cup {})
    BY <2>6, <2>8, GoesTrans
  <2>10. QED
    BY <1>0, <1>3, <2>1, <2>3, <2>6, <2>7, <2>9, AnswerGoes DEF Handled, IsApplied
<1>4. QED
  BY <1>1, <1>2, <1>3

LEMMA HandledAttach ==
  ASSUME NEW h, Sound(h), Dated(h.log, h.sequence), NEW c \in Connections,
         NEW q \in Requests, q.kind = "attach", NEW order, order \in SetToSeqs(h.subscribers \cup {c})
  PROVE  Handled(h, HandleAttach(h, c, q, order), c, q)
<1> DEFINE g == HandleAttach(h, c, q, order)
<1>1. CASE ~IsOpen(h, c)
  BY <1>1, HandledNothing DEF HandleAttach
<1>2. CASE IsOpen(h, c) /\ q.mode = "drive" /\ IsBusy(h, c, q.force)
  <2> DEFINE m == Rejected(0)
  <2>1. g = Send(h, c, m)
    BY <1>2 DEF HandleAttach
  <2>2. m \in Messages /\ m.kind = "rejected" /\ m.id = 0
    BY MessageTypes
  <2> HIDE DEF g, m
  <2>3. Goes(h, g, c, {m}) /\ Frame(h, g)
    BY <2>1, <2>2, SendGoes, SendIs
  <2>4. m \in Answers(h, g, c, q)
    BY <1>2, <2>2 DEF Answers, IsPush
  <2>5. Goes(h, g, c, Answers(h, g, c, q))
    BY <2>3, <2>4, GoesMore
  <2>6. QED
    BY <2>3, <2>5 DEF Handled, IsApplied, Frame, g
<1>3. CASE IsOpen(h, c) /\ ~(q.mode = "drive" /\ IsBusy(h, c, q.force))
  <2>1. PICK f, j, epoch, w :
           /\ IsGranted(h, f, c, q.mode) /\ Visits(order, f)
           /\ j = IF f.driver = h.driver THEN f ELSE Broadcast(f, DriverChanged(f.driver), order)
           /\ epoch = (IF q.mode = "drive" THEN f.driver.epoch ELSE 0) /\ epoch \in Nat
           /\ w = Append(ReplayOrSnapshot(h, q.after), Attached(h.sequence, epoch))
           /\ w \in Seq(Messages) /\ IsWelcome(w, h.log, h.sequence, UpTo(h.log, q.after), epoch)
           /\ g = SendAll(j, c, w)
    BY <1>3, AttachIs
  <2> HIDE DEF g
  <2>2. q.mode \in Modes
    BY RequestFields
  <2>3. Goes(h, j, c, {}) /\ j.committed = h.committed /\ j.epoch = f.epoch
    BY <1>3, <2>1, <2>2, JoinGoes
  <2>4. Frame(f, j) /\ Sound(j)
    BY <1>3, <2>1, <2>2, JoinFrame
  <2> DEFINE u == SendAll(j, c, w)
  <2>5. Goes(j, u, c, Of(w)) /\ Frame(j, u)
    BY <2>1, <2>4, SendAllGoes
  <2>6. u = g
    BY <2>1
  <2> HIDE DEF u
  <2>7. Goes(h, g, c, {} \cup Of(w))
    BY <2>3, <2>5, <2>6, GoesTrans
  <2>8. g.epoch = f.epoch /\ g.committed = h.committed /\ Sound(f) /\ f.epoch \in Nat /\ h.epoch <= f.epoch
    BY <2>1, <2>3, <2>5, <2>6, HostFields DEF Frame, IsGranted, Sound
  <2>9. IsOpen(g, c) => c \in g.subscribers
    <3>1. c \in f.subscribers
      BY <2>1 DEF IsGranted
    <3>2. IsOpen(g, c) => IsOpen(j, c)
      BY <2>5, <2>6 DEF Frame, IsOpen
    <3>3. QED
      BY <2>4, <2>5, <2>6, <3>1, <3>2 DEF Frame
  <2>10. epoch # 0 => epoch = f.epoch
    BY <2>1, <2>8, LeaseTypes DEF Sound
  <2>11. Of(w) \subseteq Answers(h, g, c, q) \cup News(g.epoch)
    <3>1. ASSUME NEW k \in 1 .. Len(w) PROVE w[k] \in Answers(h, g, c, q) \cup News(g.epoch)
      <4>1. w[k] \in Messages
        BY <2>1, ElementOfSeq
      <4>2. CASE k = Len(w)
        <5> DEFINE m == Attached(h.sequence, epoch)
        <5>1. w[k] = m
          BY <2>1, <4>2 DEF IsWelcome
        <5>2. m.kind = "attached" /\ m.id = 0 /\ m.epoch = epoch
          BY DEF Attached
        <5> HIDE DEF m
        <5>3. epoch <= g.epoch /\ (epoch # 0 => h.epoch <= epoch)
          BY <2>1, <2>8, <2>10
        <5>4. QED
          BY <1>3, <2>9, <4>1, <5>1, <5>2, <5>3 DEF Answers, IsPush
      <4>3. CASE k # Len(w)
        <5>1. w[k].kind \in {"event", "snapshot"}
          BY <2>1, <4>3 DEF IsWelcome
        <5>2. QED
          BY <4>1, <5>1 DEF News, IsPush
      <4>4. QED
        BY <4>2, <4>3
    <3>2. QED
      BY <3>1 DEF Of
  <2>12. Goes(h, g, c, Answers(h, g, c, q))
    BY <2>7, <2>11, GoesMore
  <2>13. QED
    BY <2>8, <2>12 DEF Handled, IsApplied, g
<1>4. QED
  BY <1>1, <1>2, <1>3

LEMMA HandledClosed ==
  ASSUME NEW h, Sound(h), NEW c \in Connections, NEW q, q.kind = "closed"
  PROVE  Handled(h, [Disconnect(h, c) EXCEPT !.outbound[c] = <<>>], c, q)
<1> DEFINE j == Disconnect(h, c)
           o == [j.outbound EXCEPT ![c] = <<>>]
           g == [j EXCEPT !.outbound[c] = <<>>]
<1>1. /\ Frame(h, j)
      /\ \A k \in Connections : Extends(h.outbound[k], j.outbound[k], {Freed})
  BY DisconnectIs
<1> HIDE DEF j
<1>2. /\ j \in Hosts /\ j.outbound \in [Connections -> Seq(Messages)] /\ j.epoch \in Nat
      /\ \A k \in Connections : h.outbound[k] \in Seq(Messages) /\ j.outbound[k] \in Seq(Messages)
  BY <1>1, HostFields DEF Frame, Sound
<1>3. /\ o \in [Connections -> Seq(Messages)] /\ o[c] = <<>>
      /\ \A k \in Connections \ {c} : o[k] = j.outbound[k]
  BY <1>2
<1>4. g = [j EXCEPT !.outbound = o]
  BY <1>2 DEF Hosts
<1> HIDE DEF o, g
<1>5. /\ g \in Hosts /\ g.outbound = o /\ g.log = j.log /\ g.sequence = j.sequence /\ g.committed = j.committed
      /\ g.epoch = j.epoch /\ g.saved = j.saved /\ g.forgot = j.forgot
      /\ g.owner = j.owner /\ g.driver = j.driver /\ g.subscribers = j.subscribers
  BY <1>2, <1>3, <1>4 DEF Hosts
<1>6. Frame(h, g)
  BY <1>1, <1>5 DEF Frame, IsOpen
<1>7. ASSUME NEW k \in Connections PROVE Of(g.outbound[k]) \subseteq Of(h.outbound[k]) \cup News(g.epoch)
  <2>1. CASE k = c
    <3>1. Of(g.outbound[k]) = {}
      BY <1>3, <1>5, <2>1 DEF Of
    <3>2. QED
      BY <3>1
  <2>2. CASE k # c
    <3>1. g.outbound[k] = j.outbound[k]
      BY <1>3, <1>5, <2>2
    <3>2. Of(j.outbound[k]) \subseteq Of(h.outbound[k]) \cup {Freed}
      BY <1>1, <1>2, OfExtends
    <3>3. QED
      BY <1>2, <1>5, <3>1, <3>2, NewsAre
  <2>3. QED
    BY <2>1, <2>2
<1>8. Goes(h, g, c, Answers(h, g, c, q))
  BY <1>6, <1>7, FrameGoes DEF Informs
<1>9. QED
  BY <1>6, <1>8 DEF Handled, IsApplied, Frame, g, j

LEMMA HandledRequest ==
  ASSUME NEW h, Sound(h), Dated(h.log, h.sequence), NEW c \in Connections,
         NEW q \in Requests, NEW order, order \in SetToSeqs(h.subscribers \cup {c}), NEW n \in Nat
  PROVE  Handled(h, HandleRequest(h, c, q, n, order), c, q)
<1>1. CASE q.kind = "attach"
  BY <1>1, HandledAttach DEF HandleRequest
<1>2. CASE q.kind = "acquire"
  BY <1>2, HandledAcquire DEF HandleRequest
<1>3. CASE q.kind = "release"
  BY <1>3, HandledRelease DEF HandleRequest
<1>4. CASE q.kind = "command"
  BY <1>4, HandledCommand DEF HandleRequest
<1>5. CASE q.kind = "closed"
  BY <1>5, HandledClosed DEF HandleRequest
<1>6. QED
  BY <1>1, <1>2, <1>3, <1>4, <1>5, RequestFields

-----------------------------------------------------------------------------
(* The leader goes on, or connections end; clients are as before *)

\* The operations of box are those of b, after the first s.
Thins(b, box) ==
  \E s \in Nat : \A k \in 1 .. Len(box) : box[k].kind \in Kinds => k + s \in 1 .. Len(b) /\ box[k] = b[k + s]

\* The leader takes request q of connection c, or does something of its own.
IsTurn(h, inb, g, inb2, c, q) ==
  /\ Handled(h, g, c, q)
  /\ \A k \in Connections : Thins(inb[k], inb2[k])
  /\ q = Closed \/ (c \in Connections /\ q \in Requests /\ inb[c] # <<>> /\ q = Head(inb[c]) /\ inb2[c] = Tail(inb[c]))

LEMMA ThinsSame ==
  ASSUME NEW S, NEW b \in Seq(S)
  PROVE  Thins(b, b)
<1>1. \A k \in 1 .. Len(b) : k + 0 = k
  OBVIOUS
<1>2. QED
  BY <1>1, Zenon DEF Thins

LEMMA ThinsTail ==
  ASSUME NEW S, NEW b \in Seq(S), b # <<>>
  PROVE  Thins(b, Tail(b))
<1> DEFINE t == Tail(b)
<1>1. /\ Len(b) \in Nat /\ Len(t) = Len(b) - 1 /\ \A k \in 1 .. Len(t) : t[k] = b[k + 1]
  BY HeadTailProperties
<1> HIDE DEF t
<1>2. \A k \in 1 .. Len(t) : k + 1 \in 1 .. Len(b) /\ t[k] = b[k + 1]
  BY <1>1
<1>3. QED
  BY <1>2 DEF Thins, t

LEMMA ThinsClosed ==
  ASSUME NEW b \in Seq(Requests), NEW p, p = b \/ p = <<>>
  PROVE  Append(p, Closed) \in Seq(Requests) /\ Thins(b, Append(p, Closed))
<1> DEFINE t == Append(p, Closed)
<1>1. p \in Seq(Requests) /\ Len(p) \in Nat
  BY EmptySeq, LenProperties
<1>2. Closed \in Requests
  BY DEF Closed, Requests
<1>3. /\ t \in Seq(Requests) /\ Len(t) = Len(p) + 1 /\ t[Len(p) + 1] = Closed
      /\ \A k \in 1 .. Len(p) : t[k] = p[k]
  BY <1>1, <1>2, AppendProperties
<1> HIDE DEF t
<1>4. ASSUME NEW k \in 1 .. Len(t), t[k].kind \in Kinds PROVE k + 0 \in 1 .. Len(b) /\ t[k] = b[k + 0]
  <2>1. k \in 1 .. Len(p) \/ k = Len(p) + 1
    BY <1>1, <1>3
  <2>2. Closed.kind \notin Kinds
    BY DEF Closed, Kinds
  <2>3. k \in 1 .. Len(p) /\ t[k] = p[k] /\ k + 0 = k
    BY <1>3, <1>4, <2>1, <2>2
  <2>4. p = b
    BY <2>3
  <2>5. QED
    BY <2>3, <2>4
<1>5. QED
  BY <1>3, <1>4 DEF Thins, t

LEMMA KindsAre ==
  ASSUME NEW q \in Requests
  PROVE  /\ q.kind \in Kinds => q.id \in Nat /\ q.id # 0 /\ q.epoch \in Nat
         /\ q.kind # "attach" /\ q.kind \notin Kinds => q.kind = "closed"
BY RequestFields DEF Kinds

\* The requests and messages that are on their way after a turn.
LEMMA TurnCopies ==
  ASSUME NEW h, NEW inb, NEW g, NEW inb2, NEW c, NEW q, IsTurn(h, inb, g, inb2, c, q), NEW k \in Connections
  PROVE  /\ IsOpen(g, k) => IsOpen(h, k) /\ g.owner[k] = h.owner[k]
         /\ \A p \in Of(inb2[k]) : p.kind \in Kinds => p \in Of(inb[k])
         /\ \A id : Copies(g, inb2, k, id) \subseteq Copies(h, inb, k, id)
<1>1. IsOpen(g, k) => IsOpen(h, k) /\ g.owner[k] = h.owner[k]
  BY DEF IsTurn, Handled, Goes, IsOpen
<1>2. ASSUME NEW p \in Of(inb2[k]), p.kind \in Kinds PROVE p \in Of(inb[k])
  <2>1. PICK s \in Nat : \A x \in 1 .. Len(inb2[k]) :
          inb2[k][x].kind \in Kinds => x + s \in 1 .. Len(inb[k]) /\ inb2[k][x] = inb[k][x + s]
    BY DEF IsTurn, Thins
  <2>2. PICK x \in 1 .. Len(inb2[k]) : p = inb2[k][x]
    BY DEF Of
  <2>3. x + s \in 1 .. Len(inb[k]) /\ p = inb[k][x + s]
    BY <1>2, <2>1, <2>2
  <2>4. QED
    BY <2>3 DEF Of
<1>3. QED
  BY <1>1, <1>2 DEF Copies

LEMMA TurnMessages ==
  ASSUME NEW h, NEW inb, NEW g, NEW inb2, NEW c, NEW q, IsTurn(h, inb, g, inb2, c, q), NEW k \in Connections,
         NEW m \in Of(g.outbound[k])
  PROVE  \/ m \in Of(h.outbound[k])
         \/ m \in Messages /\ IsPush(m) /\ m.kind # "attached" /\ (m.kind = "driver" => m.lease.epoch <= g.epoch)
         \/ k = c /\ m \in Answers(h, g, c, q)
<1>1. m \in Of(h.outbound[k]) \/ m \in News(g.epoch) \/ (k = c /\ m \in Answers(h, g, c, q))
  BY DEF IsTurn, Handled, Goes, Informs
<1>2. QED
  BY <1>1 DEF News, IsPush

\* An answer is of the request that was taken.
LEMMA TurnAnswers ==
  ASSUME NEW h, NEW inb, NEW w, NEW cl, Seated(h, inb, cl, w),
         NEW g, NEW inb2, NEW c, NEW q, IsTurn(h, inb, g, inb2, c, q), NEW m \in Answers(h, g, c, q)
  PROVE  /\ m \in Messages /\ ~IsPush(m) /\ q \in Of(inb[c]) /\ q \in Requests /\ c \in Connections /\ IsOpen(h, c)
         /\ (q.kind = "attach" /\ m.id = 0) \/ (q.kind \in Kinds /\ m.id = q.id /\ m.id # 0)
<1>1. q # Closed
  BY DEF Closed, Answers, Kinds
<1>2. c \in Connections /\ q \in Requests /\ inb[c] # <<>> /\ q = Head(inb[c]) /\ inb[c] \in Seq(Requests)
  BY <1>1 DEF IsTurn, Seated
<1>3. q \in Of(inb[c])
  <2>1. Len(inb[c]) \in Nat /\ Len(inb[c]) > 0 /\ Head(inb[c]) = inb[c][1]
    BY <1>2, HeadTailProperties, EmptySeq, LenProperties
  <2>2. 1 \in 1 .. Len(inb[c])
    BY <2>1
  <2>3. QED
    BY <1>2, <2>1, <2>2 DEF Of
<1>4. QED
  BY <1>2, <1>3, KindsAre DEF Answers

LEMMA TurnNumbered ==
  ASSUME NEW h, NEW inb, NEW w, NEW cl, Seated(h, inb, cl, w), Numbered(h, inb, cl, w),
         NEW g, NEW inb2, NEW c, NEW q, IsTurn(h, inb, g, inb2, c, q)
  PROVE  Numbered(g, inb2, cl, w)
<1>1. ASSUME NEW k \in Connections, NEW p \in Of(inb2[k]), p.kind \in Kinds PROVE p.id <= w
  BY <1>1, TurnCopies DEF Numbered
<1>2. ASSUME NEW k \in Connections, NEW m \in Of(g.outbound[k]) PROVE IsPush(m) \/ m.id <= w
  <2>1. CASE m \in Of(h.outbound[k])
    BY <2>1 DEF Numbered
  <2>2. CASE IsPush(m)
    BY <2>2
  <2>3. CASE m \in Answers(h, g, c, q)
    <3>1. /\ q \in Of(inb[c]) /\ c \in Connections
          /\ (q.kind = "attach" /\ m.id = 0) \/ (q.kind \in Kinds /\ m.id = q.id /\ m.id # 0)
      BY <2>3, TurnAnswers
    <3>2. 0 <= w
      BY DEF Seated
    <3>3. QED
      BY <3>1, <3>2 DEF Numbered
  <2>4. QED
    BY <2>1, <2>2, <2>3, TurnMessages
<1>3. ASSUME NEW i \in Clients, cl[i].op # NoRequest
      PROVE  /\ cl[i].op.id <= w
             /\ \A j \in Clients \ {i} : cl[j].op # NoRequest => cl[j].op.id # cl[i].op.id
             /\ \A k \in Connections : \A p \in Copies(g, inb2, k, cl[i].op.id) : g.owner[k] = i /\ p.kind = cl[i].op.kind
  <2>1. ASSUME NEW k \in Connections, NEW p \in Copies(g, inb2, k, cl[i].op.id)
        PROVE  g.owner[k] = i /\ p.kind = cl[i].op.kind
    <3>1. p \in Copies(h, inb, k, cl[i].op.id) /\ IsOpen(g, k)
      BY TurnCopies DEF Copies
    <3>2. h.owner[k] = i /\ p.kind = cl[i].op.kind
      BY <1>3, <3>1 DEF Numbered
    <3>3. QED
      BY <3>1, <3>2, TurnCopies
  <2>2. QED
    BY <1>3, <2>1 DEF Numbered
<1>4. QED
  BY <1>1, <1>2, <1>3 DEF Numbered

LEMMA TurnSubscribed ==
  ASSUME NEW h, NEW inb, NEW g, NEW inb2, NEW c, NEW q, IsTurn(h, inb, g, inb2, c, q),
         NEW k \in Connections, k \in h.subscribers, IsOpen(g, k)
  PROVE  k \in g.subscribers
BY DEF IsTurn, Handled, Goes

LEMMA TurnJoined ==
  ASSUME NEW h, NEW inb, NEW w, NEW cl, Seated(h, inb, cl, w), Joined(h, inb, cl),
         NEW g, NEW inb2, NEW c, NEW q, IsTurn(h, inb, g, inb2, c, q)
  PROVE  Joined(g, inb2, cl)
<1>1. ASSUME NEW i \in Clients, cl[i].phase # "new" PROVE cl[i].conn \in Connections
  BY <1>1 DEF Seated
<1>2. ASSUME NEW i \in Clients, IsJoining(cl[i]), NEW p \in Of(inb2[cl[i].conn]) PROVE p.kind \notin Kinds
  <2>1. cl[i].conn \in Connections
    BY <1>1, <1>2 DEF IsJoining
  <2>2. QED
    BY <1>2, <2>1, TurnCopies DEF Joined
<1>3. ASSUME NEW i \in Clients, IsJoining(cl[i]), NEW m \in Of(g.outbound[cl[i].conn]) PROVE IsPush(m) \/ m.id = 0
  <2>1. cl[i].conn \in Connections
    BY <1>1, <1>3 DEF IsJoining
  <2>2. CASE m \in Of(h.outbound[cl[i].conn])
    BY <1>3, <2>2 DEF Joined
  <2>3. CASE IsPush(m)
    BY <2>3
  <2>4. CASE cl[i].conn = c /\ m \in Answers(h, g, c, q)
    <3>1. /\ q \in Of(inb[c])
          /\ (q.kind = "attach" /\ m.id = 0) \/ (q.kind \in Kinds /\ m.id = q.id /\ m.id # 0)
      BY <2>4, TurnAnswers
    <3>2. q.kind \notin Kinds
      BY <1>3, <2>4, <3>1 DEF Joined
    <3>3. QED
      BY <3>1, <3>2
  <2>5. QED
    BY <2>1, <2>2, <2>3, <2>4, TurnMessages
<1>4. ASSUME NEW i \in Clients, cl[i].phase = "waiting", cl[i].attempt > 0, IsOpen(g, cl[i].conn)
      PROVE  cl[i].conn \in g.subscribers
  <2>1. cl[i].conn \in Connections
    BY <1>1, <1>4
  <2>2. IsOpen(h, cl[i].conn)
    BY <1>4, <2>1, TurnCopies
  <2>3. cl[i].conn \in h.subscribers
    BY <1>4, <2>2 DEF Joined
  <2>4. QED
    BY <1>4, <2>1, <2>3, TurnSubscribed
<1>5. ASSUME NEW k \in Connections, IsOpen(g, k), NEW m \in Of(g.outbound[k]), m.kind = "attached"
      PROVE  k \in g.subscribers
  <2>1. CASE m \in Of(h.outbound[k])
    <3>1. IsOpen(h, k)
      BY <1>5, TurnCopies
    <3>2. k \in h.subscribers
      BY <1>5, <2>1, <3>1 DEF Joined
    <3>3. QED
      BY <1>5, <3>2, TurnSubscribed
  <2>2. CASE k = c /\ m \in Answers(h, g, c, q)
    BY <1>5, <2>2 DEF Answers
  <2>3. QED
    BY <1>5, <2>1, <2>2, TurnMessages
<1>6. QED
  BY <1>2, <1>3, <1>4, <1>5 DEF Joined

\* The first try of a command that is taken is the only one.
LEMMA TurnFirst ==
  ASSUME NEW h, NEW inb, NEW w, NEW cl, Seated(h, inb, cl, w),
         NEW g, NEW inb2, NEW c, NEW q, IsTurn(h, inb, g, inb2, c, q),
         NEW r, NEW id \in Nat, SentOnce(h, inb, r, id), q \in Copies(h, inb, c, id), c \in Connections, q.kind \in Kinds
  PROVE  /\ c = r.conn /\ id \notin h.committed /\ \A m \in Of(h.outbound[c]) : IsPush(m) \/ m.id # id
         /\ \A k \in Connections : Copies(g, inb2, k, id) = {}
<1>1. c = r.conn /\ id \notin h.committed /\ \A m \in Of(h.outbound[c]) : IsPush(m) \/ m.id # id
  BY DEF SentOnce
<1>2. ASSUME NEW k \in Connections, NEW p \in Copies(g, inb2, k, id) PROVE FALSE
  <2>1. p \in Copies(h, inb, k, id)
    BY <1>2, TurnCopies
  <2>2. k = c
    BY <1>1, <2>1 DEF SentOnce
  <2>3. inb[c] # <<>> /\ q = Head(inb[c]) /\ inb2[c] = Tail(inb[c]) /\ inb[c] \in Seq(Requests)
    <3>1. q # Closed
      BY DEF Closed, Kinds
    <3>2. QED
      BY <3>1 DEF IsTurn, Seated
  <2>4. /\ Len(inb[c]) \in Nat /\ Len(inb[c]) > 0 /\ inb[c][1] = q
        /\ Len(inb2[c]) = Len(inb[c]) - 1 /\ \A x \in 1 .. Len(inb2[c]) : inb2[c][x] = inb[c][x + 1]
    BY <2>3, HeadTailProperties, EmptySeq, LenProperties
  <2>5. PICK x \in 1 .. Len(inb2[c]) : p = inb2[c][x]
    BY <1>2, <2>2 DEF Copies, Of
  <2>6. x + 1 \in 1 .. Len(inb[c]) /\ 1 \in 1 .. Len(inb[c]) /\ inb[c][x + 1] = p /\ x + 1 # 1
    BY <2>4, <2>5
  <2>7. x + 1 = 1
    BY <1>1, <2>1, <2>2, <2>4, <2>6 DEF SentOnce
  <2>8. QED
    BY <2>6, <2>7
<1>3. QED
  BY <1>1, <1>2

LEMMA RejectedIs ==
  ASSUME NEW id
  PROVE  Rejected(id).kind = "rejected" /\ Rejected(id).id = id /\ ~IsPush(Rejected(id))
BY DEF Rejected, IsPush

\* What is applied by a turn.
LEMMA TurnApplies ==
  ASSUME NEW h, NEW inb, NEW w, NEW cl, Seated(h, inb, cl, w),
         NEW g, NEW inb2, NEW c, NEW q, IsTurn(h, inb, g, inb2, c, q),
         NEW id, id \in g.committed
  PROVE  id \in h.committed \/ (IsApplied(h, c, q) /\ q \in Copies(h, inb, c, id) /\ c \in Connections)
<1>1. id \in h.committed \/ (IsApplied(h, c, q) /\ q.id = id)
  BY DEF IsTurn, Handled
<1>2. ASSUME IsApplied(h, c, q), q.id = id PROVE q \in Copies(h, inb, c, id) /\ c \in Connections
  <2>1. q # Closed /\ q.kind \in Kinds /\ IsOpen(h, c)
    BY <1>2 DEF Closed, Kinds, IsApplied, Applies
  <2>2. c \in Connections /\ inb[c] # <<>> /\ q = Head(inb[c]) /\ inb[c] \in Seq(Requests)
    BY <2>1 DEF IsTurn, Seated
  <2>3. Len(inb[c]) \in Nat /\ Len(inb[c]) > 0 /\ inb[c][1] = q
    BY <2>2, HeadTailProperties, EmptySeq, LenProperties
  <2>4. 1 \in 1 .. Len(inb[c])
    BY <2>3
  <2>5. QED
    BY <1>2, <2>1, <2>2, <2>3, <2>4 DEF Copies, Of
<1>3. QED
  BY <1>1, <1>2

LEMMA TurnFirstTry ==
  ASSUME NEW h, NEW inb, NEW w, NEW cl, Seated(h, inb, cl, w), Numbered(h, inb, cl, w), FirstTry(h, inb, cl),
         NEW g, NEW inb2, NEW c, NEW q, IsTurn(h, inb, g, inb2, c, q)
  PROVE  FirstTry(g, inb2, cl)
<1>1. ASSUME NEW i \in Clients, NEW id \in Nat, Sends(cl[i], id), cl[i].attempt = 0 PROVE SentOnce(g, inb2, cl[i], id)
  <2> DEFINE r == cl[i]
  <2>1. SentOnce(h, inb, r, id)
    BY <1>1 DEF FirstTry
  <2>2. r.phase = "waiting" /\ r.op.kind = "command" /\ r.op.id = id /\ r.conn \in Connections /\ r \in ClientStates
    BY <1>1 DEF Sends, Seated
  <2>2a. r.op # NoRequest /\ id # 0
    BY <2>2, ClientFields, OperationFields
  <2>2b. \A k \in Connections : \A p \in Copies(h, inb, k, id) : p.kind = "command"
    BY <2>2, <2>2a DEF Numbered
  <2> HIDE DEF r
  <2>3. ASSUME q \in Copies(h, inb, c, id), c \in Connections PROVE \A k \in Connections : Copies(g, inb2, k, id) = {}
    <3>1. q.kind \in Kinds
      BY <2>3 DEF Copies
    <3>2. QED
      BY <2>1, <2>3, <3>1, TurnFirst
  <2>4. ASSUME NEW m \in Answers(h, g, c, q), m.id = id PROVE q \in Copies(h, inb, c, id) /\ c \in Connections
    <3>1. /\ q \in Of(inb[c]) /\ c \in Connections /\ IsOpen(h, c)
          /\ (q.kind = "attach" /\ m.id = 0) \/ (q.kind \in Kinds /\ m.id = q.id /\ m.id # 0)
      BY TurnAnswers
    <3>2. QED
      BY <2>2a, <2>4, <3>1 DEF Copies
  <2>5. ASSUME NEW k \in Connections, NEW p \in Copies(g, inb2, k, id)
        PROVE  k = r.conn /\ id \notin g.committed /\ \A m \in Of(g.outbound[k]) : IsPush(m) \/ m.id # id
    <3>1. p \in Copies(h, inb, k, id)
      BY <2>5, TurnCopies
    <3>2. k = r.conn /\ id \notin h.committed /\ \A m \in Of(h.outbound[k]) : IsPush(m) \/ m.id # id
      BY <2>1, <3>1 DEF SentOnce
    <3>3. id \notin g.committed
      BY <2>3, <2>5, <3>2, TurnApplies
    <3>4. ASSUME NEW m \in Of(g.outbound[k]) PROVE IsPush(m) \/ m.id # id
      BY <2>3, <2>4, <2>5, <3>2, TurnMessages
    <3>5. QED
      BY <3>2, <3>3, <3>4
  <2>6. ASSUME NEW j \in 1 .. Len(inb2[r.conn]), NEW k \in 1 .. Len(inb2[r.conn]),
               inb2[r.conn][j] \in Copies(g, inb2, r.conn, id), inb2[r.conn][k] \in Copies(g, inb2, r.conn, id)
        PROVE  j = k
    <3>0. r.conn \in Connections
      BY <2>2
    <3>1. PICK s \in Nat : \A x \in 1 .. Len(inb2[r.conn]) :
            inb2[r.conn][x].kind \in Kinds => x + s \in 1 .. Len(inb[r.conn]) /\ inb2[r.conn][x] = inb[r.conn][x + s]
      BY <3>0 DEF IsTurn, Thins
    <3>2. inb2[r.conn][j] \in Copies(h, inb, r.conn, id) /\ inb2[r.conn][k] \in Copies(h, inb, r.conn, id)
      BY <2>6, <3>0, TurnCopies
    <3>3. /\ j + s \in 1 .. Len(inb[r.conn]) /\ inb2[r.conn][j] = inb[r.conn][j + s]
          /\ k + s \in 1 .. Len(inb[r.conn]) /\ inb2[r.conn][k] = inb[r.conn][k + s]
      BY <2>6, <3>1, <3>2 DEF Copies
    <3>4. j + s = k + s
      BY <2>1, <3>2, <3>3 DEF SentOnce
    <3>5. j \in Int /\ k \in Int
      OBVIOUS
    <3>6. QED
      BY <3>4, <3>5
  <2>7. ASSUME Rejected(id) \in Of(g.outbound[r.conn]) PROVE id \notin g.committed
    <3>0. r.conn \in Connections
      BY <2>2
    <3>1. CASE Rejected(id) \in Of(h.outbound[r.conn])
      <4>1. id \notin h.committed
        BY <2>1, <3>1 DEF SentOnce
      <4>2. ASSUME q \in Copies(h, inb, c, id), c \in Connections PROVE FALSE
        BY <2>1, <3>1, <4>2, RejectedIs DEF SentOnce
      <4>3. QED
        BY <4>1, <4>2, TurnApplies
    <3>2. CASE Rejected(id) \in Answers(h, g, c, q)
      <4>1. q \in Copies(h, inb, c, id) /\ c \in Connections
        BY <2>4, <3>2, RejectedIs
      <4>2. id \notin h.committed
        BY <2>1, <4>1 DEF SentOnce
      <4>3. ~IsApplied(h, c, q)
        BY <3>2, RejectedIs DEF Answers, IsApplied
      <4>4. QED
        BY <4>2, <4>3, TurnApplies
    <3>3. QED
      BY <2>7, <3>0, <3>1, <3>2, RejectedIs, TurnMessages
  <2>8. QED
    BY <2>5, <2>6, <2>7 DEF SentOnce, r
<1>2. QED
  BY <1>1 DEF FirstTry

LEMMA TurnGranteds ==
  ASSUME NEW h, NEW inb, NEW w, NEW cl, Seated(h, inb, cl, w), Granteds(h, inb, cl),
         NEW g, NEW inb2, NEW c, NEW q, IsTurn(h, inb, g, inb2, c, q)
  PROVE  Granteds(g, inb2, cl)
<1>1. h.epoch \in Nat /\ g.epoch \in Nat /\ h.epoch <= g.epoch
  BY DEF IsTurn, Handled, Goes
<1>2. ASSUME NEW i \in Clients PROVE cl[i].lease <= g.epoch /\ (cl[i].op # NoRequest => cl[i].op.epoch <= g.epoch)
  <2>1. cl[i].lease \in Nat /\ (cl[i].op # NoRequest => cl[i].op.epoch \in Nat)
    BY ClientFields, OperationFields DEF Seated
  <2>2. cl[i].lease <= h.epoch /\ (cl[i].op # NoRequest => cl[i].op.epoch <= h.epoch)
    BY DEF Granteds
  <2>3. QED
    BY <1>1, <2>1, <2>2
<1>3. ASSUME NEW k \in Connections, NEW m \in Of(g.outbound[k])
      PROVE  /\ m.kind \in {"driver", "driven"} => m.lease.epoch <= g.epoch
             /\ m.kind = "attached" => m.epoch <= g.epoch
  <2>1. CASE m \in Of(h.outbound[k])
    <3>1. h.outbound[k] \in Seq(Messages)
      BY HostFields DEF Seated, Sound
    <3>2. m \in Messages
      BY <2>1, <3>1, ElementOfSeq DEF Of
    <3>3. /\ m.kind \in {"driver", "driven"} => m.lease.epoch \in Nat
          /\ m.kind = "attached" => m.epoch \in Nat
      BY <3>2, MessageFields, LeaseFields
    <3>4. /\ m.kind \in {"driver", "driven"} => m.lease.epoch <= h.epoch
          /\ m.kind = "attached" => m.epoch <= h.epoch
      BY <2>1 DEF Granteds
    <3>5. QED
      BY <1>1, <3>3, <3>4
  <2>2. CASE IsPush(m) /\ m.kind # "attached" /\ (m.kind = "driver" => m.lease.epoch <= g.epoch)
    BY <2>2 DEF IsPush
  <2>3. CASE m \in Answers(h, g, c, q)
    BY <2>3 DEF Answers, IsPush
  <2>4. QED
    BY <2>1, <2>2, <2>3, TurnMessages
<1>4. ASSUME NEW k \in Connections, NEW p \in Of(inb2[k]), p.kind \in Kinds PROVE p.epoch <= g.epoch
  <2>1. p \in Of(inb[k])
    BY <1>4, TurnCopies
  <2>2. inb[k] \in Seq(Requests)
    BY DEF Seated
  <2>3. p \in Requests
    BY <2>1, <2>2, ElementOfSeq DEF Of
  <2>4. p.epoch \in Nat /\ p.epoch <= h.epoch
    BY <1>4, <2>1, <2>3, KindsAre DEF Granteds
  <2>5. QED
    BY <1>1, <2>4
<1>5. QED
  BY <1>2, <1>3, <1>4 DEF Granteds

LEMMA TurnRenewed ==
  ASSUME NEW h, NEW inb, NEW w, NEW cl, Seated(h, inb, cl, w), Granteds(h, inb, cl), Renewed(h, inb, cl),
         NEW g, NEW inb2, NEW c, NEW q, IsTurn(h, inb, g, inb2, c, q)
  PROVE  Renewed(g, inb2, cl)
<1>1. ASSUME NEW i \in Clients, cl[i].op.kind = "command", NEW k \in Connections, NEW p \in Copies(g, inb2, k, cl[i].op.id)
      PROVE  /\ p.epoch <= cl[i].op.epoch
             /\ i \in Pumps \/ (cl[i].phase = "waiting" /\ k = cl[i].conn) => p.epoch = cl[i].op.epoch
  <2>1. p \in Copies(h, inb, k, cl[i].op.id)
    BY TurnCopies
  <2>2. QED
    BY <1>1, <2>1 DEF Renewed
<1>2. ASSUME NEW i \in Clients, cl[i].op.kind = "command", cl[i].phase = "rejoining",
             NEW m \in Of(g.outbound[cl[i].conn]), m.kind = "attached", m.epoch # 0
      PROVE  cl[i].op.epoch <= m.epoch
  <2>1. cl[i].conn \in Connections /\ cl[i] \in ClientStates
    BY <1>2 DEF Seated
  <2>2. CASE m \in Of(h.outbound[cl[i].conn])
    BY <1>2, <2>2 DEF Renewed
  <2>3. CASE m \in Answers(h, g, c, q)
    <3>1. h.epoch <= m.epoch /\ m.epoch \in Nat /\ h.epoch \in Nat
      BY <1>2, <2>3, MessageFields DEF Answers, IsTurn, Handled, Goes
    <3>2. cl[i].op # NoRequest
      BY <1>2 DEF NoRequest
    <3>3. cl[i].op.epoch \in Nat /\ cl[i].op.epoch <= h.epoch
      BY <2>1, <3>2, ClientFields, OperationFields DEF Granteds
    <3>4. QED
      BY <3>1, <3>3
  <2>4. QED
    BY <1>2, <2>1, <2>2, <2>3, TurnMessages
<1>3. QED
  BY <1>1, <1>2 DEF Renewed

\* Who is granted the lease later has a later one.
LEMMA TurnUnauthorized ==
  ASSUME NEW h, Sound(h), NEW g, NEW c, NEW M, Goes(h, g, c, M), NEW i, i # NoClient, NEW e \in Nat, e <= h.epoch,
         h.driver # [owner |-> i, epoch |-> e]
  PROVE  g.driver # [owner |-> i, epoch |-> e]
<1>1. h.epoch \in Nat
  BY HostFields DEF Sound
<1>2. CASE g.driver = h.driver
  BY <1>2
<1>3. CASE g.driver = NoLease
  BY <1>3 DEF NoLease
<1>4. CASE g.driver.epoch \in Nat /\ g.driver.epoch > h.epoch
  <2>1. g.driver.epoch # e
    BY <1>1, <1>4
  <2>2. QED
    BY <2>1
<1>5. QED
  BY <1>2, <1>3, <1>4 DEF Goes

LEMMA TurnBarred ==
  ASSUME NEW h, NEW inb, NEW w, NEW cl, Seated(h, inb, cl, w), Granteds(h, inb, cl),
         NEW g, NEW inb2, NEW c, NEW q, IsTurn(h, inb, g, inb2, c, q), NEW id, Barred(h, inb, cl, id)
  PROVE  Barred(g, inb2, cl, id)
<1>0. Sound(h) /\ Goes(h, g, c, Answers(h, g, c, q))
  BY DEF Seated, IsTurn, Handled
<1>1. id \notin g.committed
  <2>1. ASSUME IsApplied(h, c, q), q \in Copies(h, inb, c, id), c \in Connections PROVE FALSE
    BY <2>1 DEF IsApplied, Applies, Authorized, Barred
  <2>2. QED
    BY <2>1, TurnApplies DEF Barred
<1>2. ASSUME NEW k \in Connections, NEW p \in Copies(g, inb2, k, id)
      PROVE  g.driver # [owner |-> g.owner[k], epoch |-> p.epoch]
  <2>1. p \in Copies(h, inb, k, id) /\ g.owner[k] = h.owner[k] /\ h.owner[k] # NoClient
    BY TurnCopies DEF Copies, IsOpen
  <2>2. inb[k] \in Seq(Requests) /\ p \in Of(inb[k]) /\ p.kind \in Kinds
    BY <2>1 DEF Seated, Copies
  <2>3. p \in Requests
    BY <2>2, ElementOfSeq DEF Of
  <2>4. p.epoch \in Nat /\ p.epoch <= h.epoch
    BY <2>2, <2>3, KindsAre DEF Granteds
  <2>5. h.driver # [owner |-> h.owner[k], epoch |-> p.epoch]
    BY <2>1 DEF Barred
  <2>6. QED
    BY <1>0, <2>1, <2>4, <2>5, TurnUnauthorized
<1>3. ASSUME NEW i \in Pumps, cl[i].op.kind = "command", cl[i].op.id = id
      PROVE  g.driver # [owner |-> i, epoch |-> cl[i].op.epoch]
  <2>1. i \in Clients /\ i # NoClient
    BY Constants
  <2>2. cl[i].op # NoRequest /\ cl[i] \in ClientStates
    BY <1>3, <2>1 DEF NoRequest, Seated
  <2>3. cl[i].op.epoch \in Nat /\ cl[i].op.epoch <= h.epoch
    BY <2>1, <2>2, ClientFields, OperationFields DEF Granteds
  <2>4. h.driver # [owner |-> i, epoch |-> cl[i].op.epoch]
    BY <1>3 DEF Barred
  <2>5. QED
    BY <1>0, <2>1, <2>3, <2>4, TurnUnauthorized
<1>4. QED
  BY <1>1, <1>2, <1>3 DEF Barred

LEMMA TurnRefusals ==
  ASSUME NEW h, NEW inb, NEW w, NEW cl, Seated(h, inb, cl, w), Granteds(h, inb, cl),
         Numbered(h, inb, cl, w), Joined(h, inb, cl), Renewed(h, inb, cl), Refusals(h, inb, cl),
         NEW g, NEW inb2, NEW c, NEW q, IsTurn(h, inb, g, inb2, c, q)
  PROVE  Refusals(g, inb2, cl)
<1>1. ASSUME NEW i \in Clients, NEW id \in Nat, Sends(cl[i], id), cl[i].attempt > 0,
             Rejected(id) \in Of(g.outbound[cl[i].conn])
      PROVE  Barred(h, inb, cl, id)
  <2> DEFINE r == cl[i]
  <2>1. r.phase = "waiting" /\ r.op.kind = "command" /\ r.op.id = id /\ r.conn \in Connections /\ r \in ClientStates
    BY <1>1 DEF Sends, Seated
  <2>2. r.op # NoRequest /\ id # 0 /\ r.op.epoch \in Nat
    BY <2>1, ClientFields, OperationFields
  <2>3. CASE Rejected(id) \in Of(h.outbound[r.conn])
    BY <1>1, <2>3 DEF Refusals
  <2>4. CASE r.conn = c /\ Rejected(id) \in Answers(h, g, c, q)
    <3>1. /\ q \in Of(inb[c]) /\ c \in Connections /\ IsOpen(h, c)
          /\ (q.kind = "attach" /\ id = 0) \/ (q.kind \in Kinds /\ id = q.id)
      BY <2>4, TurnAnswers, RejectedIs
    <3>2. q \in Copies(h, inb, c, id) /\ q.kind \in Kinds
      BY <2>2, <3>1 DEF Copies
    <3>3. h.owner[c] = i /\ q.kind = "command"
      BY <2>1, <2>2, <3>1, <3>2 DEF Numbered
    <3>4. c \in h.subscribers
      BY <1>1, <2>1, <2>4, <3>1 DEF Joined
    <3>5. ~Applies(h, c, q) /\ ~IsDuplicate(h, q)
      BY <2>4, <3>3, <3>4, RejectedIs DEF Answers
    <3>6. h.driver # [owner |-> i, epoch |-> q.epoch] /\ id \notin h.committed
      BY <3>1, <3>2, <3>3, <3>4, <3>5 DEF Applies, Authorized, IsDuplicate, Copies
    <3>7. q.epoch = r.op.epoch
      BY <2>1, <2>4, <3>1, <3>2 DEF Renewed
    <3>8. ASSUME NEW k \in Connections, NEW p \in Copies(h, inb, k, id)
          PROVE  h.driver # [owner |-> h.owner[k], epoch |-> p.epoch]
      <4>1. h.owner[k] = i /\ p.epoch <= r.op.epoch
        BY <2>1, <2>2 DEF Numbered, Renewed
      <4>2. h.driver \in Leases /\ i # NoClient /\ (h.driver # NoLease => h.driver.epoch = h.epoch) /\ h.epoch \in Nat
        BY Constants, HostFields DEF Seated, Sound
      <4>3. r.op.epoch <= h.epoch
        BY <2>2 DEF Granteds
      <4>4. ASSUME h.driver = [owner |-> i, epoch |-> p.epoch] PROVE FALSE
        <5>1. h.driver # NoLease
          BY <4>2, <4>4 DEF NoLease
        <5>2. p.epoch = h.epoch
          BY <4>2, <4>4, <5>1
        <5>3. p.epoch = r.op.epoch
          BY <2>2, <4>1, <4>2, <4>3, <5>2
        <5>4. QED
          BY <3>6, <3>7, <4>4, <5>3
      <4>5. QED
        BY <4>1, <4>4
    <3>9. ASSUME NEW j \in Pumps, cl[j].op.kind = "command", cl[j].op.id = id
          PROVE  h.driver # [owner |-> j, epoch |-> cl[j].op.epoch]
      <4>1. j \in Clients /\ cl[j].op # NoRequest
        BY <3>9, Constants DEF NoRequest
      <4>2. j = i
        BY <2>1, <2>2, <3>9, <4>1 DEF Numbered
      <4>3. QED
        BY <3>6, <3>7, <4>2
    <3>10. QED
      BY <3>6, <3>8, <3>9 DEF Barred
  <2>5. QED
    BY <1>1, <2>1, <2>3, <2>4, RejectedIs, TurnMessages
<1>2. QED
  BY <1>1, TurnBarred DEF Refusals

LEMMA TurnFinals ==
  ASSUME NEW h, NEW inb, NEW w, NEW cl, Seated(h, inb, cl, w), Granteds(h, inb, cl), NEW ids, Finals(h, inb, cl, ids),
         NEW g, NEW inb2, NEW c, NEW q, IsTurn(h, inb, g, inb2, c, q)
  PROVE  Finals(g, inb2, cl, ids)
BY TurnBarred DEF Finals

\* What a turn applies comes to the history.
LEMMA TurnRemembered ==
  ASSUME NEW h, NEW inb, NEW w, NEW cl, Seated(h, inb, cl, w), Numbered(h, inb, cl, w),
         NEW done, NEW ids, Remembered(h, done, ids, w),
         NEW g, NEW inb2, NEW c, NEW q, IsTurn(h, inb, g, inb2, c, q),
         NEW done2, done2 = IF IsApplied(h, c, q) THEN Append(done, q.id) ELSE done
  PROVE  Remembered(g, done2, ids, w)
<1>1. g.committed = h.committed \cup (IF IsApplied(h, c, q) THEN {q.id} ELSE {})
  BY DEF IsTurn, Handled
<1>2. CASE ~IsApplied(h, c, q)
  BY <1>1, <1>2 DEF Remembered
<1>3. CASE IsApplied(h, c, q)
  <2>1. q.id \in g.committed /\ q.id \notin h.committed
    BY <1>1, <1>3 DEF IsApplied, Applies, IsDuplicate
  <2>2. q \in Copies(h, inb, c, q.id) /\ c \in Connections
    BY <2>1, TurnApplies
  <2>3. q.id <= w /\ q \in Of(inb[c]) /\ q.kind \in Kinds /\ inb[c] \in Seq(Requests)
    BY <2>2 DEF Copies, Numbered, Seated
  <2>4. q.id \in Nat
    <3>1. q \in Requests
      BY <2>3, ElementOfSeq DEF Of
    <3>2. QED
      BY <2>3, <3>1, KindsAre
  <2>5. done \in Seq(Nat) /\ Len(done) \in Nat
    BY LenProperties DEF Remembered
  <2>6. /\ done2 \in Seq(Nat) /\ Len(done2) = Len(done) + 1 /\ done2[Len(done) + 1] = q.id
        /\ \A k \in 1 .. Len(done) : done2[k] = done[k]
    BY <1>3, <2>4, <2>5, AppendProperties
  <2>7. ASSUME NEW k \in 1 .. Len(done2) PROVE k \in 1 .. Len(done) \/ k = Len(done) + 1
    BY <2>5, <2>6
  <2>8. ASSUME NEW j \in 1 .. Len(done2), NEW k \in 1 .. Len(done2), done2[j] = done2[k] PROVE j = k
    <3>1. \A x \in 1 .. Len(done) : done[x] \in h.committed
      BY DEF Remembered
    <3>2. CASE j \in 1 .. Len(done) /\ k \in 1 .. Len(done)
      BY <2>6, <2>8, <3>2 DEF Remembered
    <3>3. QED
      BY <2>1, <2>6, <2>7, <2>8, <3>1, <3>2
  <2>9. \A k \in 1 .. Len(done2) : done2[k] \in g.committed
    BY <1>1, <2>1, <2>6, <2>7 DEF Remembered
  <2>10. \A id \in g.committed \cup ids : id <= w
    BY <1>1, <2>3 DEF Remembered
  <2>11. QED
    BY <2>6, <2>8, <2>9, <2>10 DEF Remembered
<1>4. QED
  BY <1>2, <1>3

LEMMA TurnKeeps ==
  ASSUME NEW h, NEW inb, NEW w, NEW cl, Seated(h, inb, cl, w),
         NEW done, NEW ids, AInvs(h, inb, cl, w, done, ids),
         NEW g, NEW inb2, NEW c, NEW q, IsTurn(h, inb, g, inb2, c, q),
         NEW done2, done2 = IF IsApplied(h, c, q) THEN Append(done, q.id) ELSE done
  PROVE  AInvs(g, inb2, cl, w, done2, ids)
<1>1. Remembered(h, done, ids, w) /\ Numbered(h, inb, cl, w) /\ Joined(h, inb, cl) /\ Tried(cl) /\ FirstTry(h, inb, cl)
  BY DEF AInvs
<1>2. Remembered(g, done2, ids, w)
  BY <1>1, TurnRemembered
<1>3. Numbered(g, inb2, cl, w) /\ Joined(g, inb2, cl) /\ FirstTry(g, inb2, cl)
  BY <1>1, TurnNumbered, TurnJoined, TurnFirstTry
<1>4. ASSUME ~g.forgot
      PROVE  Granteds(g, inb2, cl) /\ Renewed(g, inb2, cl) /\ Refusals(g, inb2, cl) /\ Finals(g, inb2, cl, ids)
  <2>1. ~h.forgot
    BY <1>4 DEF IsTurn, Handled, Goes
  <2>2. Granteds(h, inb, cl) /\ Renewed(h, inb, cl) /\ Refusals(h, inb, cl) /\ Finals(h, inb, cl, ids)
    BY <2>1 DEF AInvs
  <2>3. QED
    BY <1>1, <2>2, TurnGranteds, TurnRenewed, TurnRefusals, TurnFinals
<1>5. QED
  BY <1>1, <1>2, <1>3, <1>4 DEF AInvs

-----------------------------------------------------------------------------
(* A client goes on, and sends nothing *)

\* Client i is t after it.
Becomes(cl, cl2, i, t) == cl2[i] = t /\ \A j \in Clients \ {i} : cl2[j] = cl[j]

\* The operation of r is kept, or is over.
IsCalm(h, inb, r, t) ==
  /\ t.op = r.op \/ t.op = NoRequest
  /\ t.phase = "waiting" => r.phase = "waiting" /\ t.conn = r.conn /\ t.attempt = r.attempt
  /\ IsJoining(t) => \/ t.phase = r.phase /\ t.conn = r.conn
                     \/ (\A q \in Of(inb[t.conn]) : q.kind \notin Kinds) /\ Of(h.outbound[t.conn]) = {}
  /\ t.phase \in {"new", "joining", "ready", "failed"} => t.op = NoRequest
  /\ t.phase = "ready" => t.attempt = 0
  /\ t.phase \in {"broken", "rejoining"} /\ t.op # NoRequest => t.attempt > 0
  /\ ~h.forgot => t.lease <= h.epoch

LEMMA CalmTries ==
  ASSUME NEW h, NEW inb, NEW w, NEW cl, NEW cl2, NEW i \in Clients, NEW t, Becomes(cl, cl2, i, t), IsCalm(h, inb, cl[i], t),
         Numbered(h, inb, cl, w), Joined(h, inb, cl), Tried(cl), FirstTry(h, inb, cl)
  PROVE  Numbered(h, inb, cl2, w) /\ Joined(h, inb, cl2) /\ Tried(cl2) /\ FirstTry(h, inb, cl2)
<1> DEFINE r == cl[i]
<1>0. \A j \in Clients : cl2[j].op # NoRequest => cl2[j].op = cl[j].op
  BY DEF Becomes, IsCalm
<1>1. Numbered(h, inb, cl2, w)
  <2>1. ASSUME NEW j \in Clients, cl2[j].op # NoRequest
        PROVE  /\ cl2[j].op.id <= w
               /\ \A x \in Clients \ {j} : cl2[x].op # NoRequest => cl2[x].op.id # cl2[j].op.id
               /\ \A c \in Connections : \A q \in Copies(h, inb, c, cl2[j].op.id) : h.owner[c] = j /\ q.kind = cl2[j].op.kind
    <3>1. cl2[j].op = cl[j].op /\ cl[j].op # NoRequest
      BY <1>0, <2>1
    <3>2. /\ cl[j].op.id <= w
          /\ \A c \in Connections : \A q \in Copies(h, inb, c, cl[j].op.id) : h.owner[c] = j /\ q.kind = cl[j].op.kind
      BY <3>1 DEF Numbered
    <3>3. ASSUME NEW x \in Clients \ {j}, cl2[x].op # NoRequest PROVE cl2[x].op.id # cl2[j].op.id
      BY <1>0, <3>1, <3>3 DEF Numbered
    <3>4. QED
      BY <3>1, <3>2, <3>3
  <2>2. QED
    BY <2>1 DEF Numbered
<1>2. Joined(h, inb, cl2)
  <2>1. ASSUME NEW j \in Clients, IsJoining(cl2[j])
        PROVE  /\ \A q \in Of(inb[cl2[j].conn]) : q.kind \notin Kinds
               /\ \A m \in Of(h.outbound[cl2[j].conn]) : IsPush(m) \/ m.id = 0
    <3>1. CASE j # i
      BY <2>1, <3>1 DEF Becomes, Joined
    <3>2. CASE j = i /\ t.phase = r.phase /\ t.conn = r.conn
      BY <2>1, <3>2 DEF Becomes, Joined, IsJoining
    <3>3. CASE j = i /\ (\A q \in Of(inb[t.conn]) : q.kind \notin Kinds) /\ Of(h.outbound[t.conn]) = {}
      BY <3>3 DEF Becomes
    <3>4. QED
      BY <2>1, <3>1, <3>2, <3>3 DEF IsCalm, Becomes
  <2>2. ASSUME NEW j \in Clients, cl2[j].phase = "waiting", cl2[j].attempt > 0, IsOpen(h, cl2[j].conn)
        PROVE  cl2[j].conn \in h.subscribers
    <3>1. cl[j].phase = "waiting" /\ cl[j].attempt > 0 /\ cl2[j].conn = cl[j].conn
      BY <2>2 DEF Becomes, IsCalm
    <3>2. QED
      BY <2>2, <3>1 DEF Joined
  <2>3. QED
    BY <2>1, <2>2 DEF Joined
<1>3. Tried(cl2)
  <2>1. ASSUME NEW j \in Clients
        PROVE  /\ cl2[j].phase \in {"new", "joining", "ready", "failed"} => cl2[j].op = NoRequest
               /\ cl2[j].phase = "ready" => cl2[j].attempt = 0
               /\ cl2[j].phase \in {"broken", "rejoining"} /\ cl2[j].op # NoRequest => cl2[j].attempt > 0
    <3>1. CASE j = i
      BY <3>1 DEF Becomes, IsCalm
    <3>2. CASE j # i
      BY <3>2 DEF Becomes, Tried
    <3>3. QED
      BY <3>1, <3>2
  <2>2. QED
    BY <2>1 DEF Tried
<1>4. FirstTry(h, inb, cl2)
  <2>1. ASSUME NEW j \in Clients, NEW id \in Nat, Sends(cl2[j], id), cl2[j].attempt = 0 PROVE SentOnce(h, inb, cl2[j], id)
    <3>1. CASE j # i
      BY <2>1, <3>1 DEF Becomes, FirstTry
    <3>2. CASE j = i
      <4>1. t.op # NoRequest /\ Sends(t, id)
        BY <2>1, <3>2 DEF Sends, Becomes, NoRequest
      <4>2. Sends(r, id) /\ r.attempt = 0 /\ t.conn = r.conn
        BY <2>1, <3>2, <4>1 DEF Sends, IsCalm, Becomes
      <4>3. SentOnce(h, inb, r, id)
        BY <4>2 DEF FirstTry
      <4>4. QED
        BY <3>2, <4>2, <4>3 DEF SentOnce, Becomes
    <3>3. QED
      BY <3>1, <3>2
  <2>2. QED
    BY <2>1 DEF FirstTry
<1>5. QED
  BY <1>1, <1>2, <1>3, <1>4

LEMMA CalmLeases ==
  ASSUME NEW h, NEW inb, NEW cl, NEW cl2, NEW i \in Clients, NEW t, Becomes(cl, cl2, i, t), IsCalm(h, inb, cl[i], t),
         ~h.forgot, Granteds(h, inb, cl), Renewed(h, inb, cl), Refusals(h, inb, cl), NEW ids, Finals(h, inb, cl, ids)
  PROVE  Granteds(h, inb, cl2) /\ Renewed(h, inb, cl2) /\ Refusals(h, inb, cl2) /\ Finals(h, inb, cl2, ids)
<1> DEFINE r == cl[i]
<1>0. \A j \in Clients : cl2[j].op # NoRequest => cl2[j].op = cl[j].op
  BY DEF Becomes, IsCalm
<1>1. Granteds(h, inb, cl2)
  <2>1. ASSUME NEW j \in Clients PROVE cl2[j].lease <= h.epoch /\ (cl2[j].op # NoRequest => cl2[j].op.epoch <= h.epoch)
    <3>1. cl2[j].op # NoRequest => cl2[j].op.epoch <= h.epoch
      BY <1>0 DEF Granteds
    <3>2. cl2[j].lease <= h.epoch
      BY DEF Becomes, IsCalm, Granteds
    <3>3. QED
      BY <3>1, <3>2
  <2>2. QED
    BY <2>1 DEF Granteds
<1>2. Renewed(h, inb, cl2)
  <2>1. ASSUME NEW j \in Clients, cl2[j].op.kind = "command"
        PROVE  /\ \A c \in Connections : \A q \in Copies(h, inb, c, cl2[j].op.id) :
                    /\ q.epoch <= cl2[j].op.epoch
                    /\ j \in Pumps \/ (cl2[j].phase = "waiting" /\ c = cl2[j].conn) => q.epoch = cl2[j].op.epoch
               /\ cl2[j].phase = "rejoining" => \A m \in Of(h.outbound[cl2[j].conn]) :
                    m.kind = "attached" /\ m.epoch # 0 => cl2[j].op.epoch <= m.epoch
    <3>1. cl2[j].op = cl[j].op
      BY <1>0, <2>1 DEF NoRequest
    <3>2. cl2[j].phase = "waiting" => cl[j].phase = "waiting" /\ cl2[j].conn = cl[j].conn
      BY DEF Becomes, IsCalm
    <3>3. cl2[j].phase = "rejoining" =>
            (cl[j].phase = "rejoining" /\ cl2[j].conn = cl[j].conn) \/ Of(h.outbound[cl2[j].conn]) = {}
      BY DEF Becomes, IsCalm, IsJoining
    <3>4. QED
      BY <2>1, <3>1, <3>2, <3>3 DEF Renewed
  <2>2. QED
    BY <2>1 DEF Renewed
<1>3. ASSUME NEW id, Barred(h, inb, cl, id) PROVE Barred(h, inb, cl2, id)
  <2>1. ASSUME NEW j \in Pumps, cl2[j].op.kind = "command", cl2[j].op.id = id
        PROVE  h.driver # [owner |-> j, epoch |-> cl2[j].op.epoch]
    <3>1. cl2[j].op = cl[j].op
      BY <1>0, <2>1, Constants DEF NoRequest
    <3>2. QED
      BY <1>3, <2>1, <3>1 DEF Barred
  <2>2. QED
    BY <1>3, <2>1 DEF Barred
<1>4. Refusals(h, inb, cl2)
  <2>1. ASSUME NEW j \in Clients, NEW id \in Nat, Sends(cl2[j], id), cl2[j].attempt > 0,
               Rejected(id) \in Of(h.outbound[cl2[j].conn])
        PROVE  Barred(h, inb, cl, id)
    <3>1. cl2[j].op = cl[j].op
      BY <1>0, <2>1 DEF Sends, NoRequest
    <3>2. cl[j].phase = "waiting" /\ cl2[j].conn = cl[j].conn /\ cl2[j].attempt = cl[j].attempt
      BY <2>1 DEF Becomes, IsCalm, Sends
    <3>3. QED
      BY <2>1, <3>1, <3>2 DEF Refusals, Sends
  <2>2. QED
    BY <1>3, <2>1 DEF Refusals
<1>5. Finals(h, inb, cl2, ids)
  <2>1. ASSUME NEW id \in ids, NEW j \in Blocking, cl2[j].op # NoRequest PROVE cl2[j].op.id # id
    BY <1>0, <2>1, Constants DEF Finals
  <2>2. QED
    BY <1>3, <2>1 DEF Finals
<1>6. QED
  BY <1>1, <1>2, <1>4, <1>5

LEMMA CalmKeeps ==
  ASSUME NEW h, NEW inb, NEW w, NEW cl, NEW cl2, NEW i \in Clients, NEW t, Becomes(cl, cl2, i, t),
         IsCalm(h, inb, cl[i], t), NEW done, NEW ids, AInvs(h, inb, cl, w, done, ids)
  PROVE  AInvs(h, inb, cl2, w, done, ids)
<1>1. Numbered(h, inb, cl2, w) /\ Joined(h, inb, cl2) /\ Tried(cl2) /\ FirstTry(h, inb, cl2)
  BY CalmTries DEF AInvs
<1>2. ~h.forgot => Granteds(h, inb, cl2) /\ Renewed(h, inb, cl2) /\ Refusals(h, inb, cl2) /\ Finals(h, inb, cl2, ids)
  BY CalmLeases DEF AInvs
<1>3. QED
  BY <1>1, <1>2 DEF AInvs

-----------------------------------------------------------------------------
(* A client sends an operation *)

LEMMA WorkKeeps ==
  ASSUME NEW h, NEW inb, NEW w, NEW cl, Seated(h, inb, cl, w), NEW done, NEW ids, AInvs(h, inb, cl, w, done, ids),
         NEW w2 \in Nat, w <= w2
  PROVE  AInvs(h, inb, cl, w2, done, ids)
<1>0. w \in Nat /\ Remembered(h, done, ids, w) /\ Numbered(h, inb, cl, w)
  BY DEF Seated, AInvs
<1>1. Remembered(h, done, ids, w2)
  <2>1. h.committed \cup ids \subseteq Nat
    BY HostFields DEF Seated, Sound, AInvs, Remembered
  <2>2. \A id \in h.committed \cup ids : id <= w2
    BY <1>0, <2>1 DEF Remembered
  <2>3. QED
    BY <1>0, <2>2 DEF Remembered
<1>2. Numbered(h, inb, cl, w2)
  <2>1. ASSUME NEW c \in Connections, NEW q \in Of(inb[c]), q.kind \in Kinds PROVE q.id <= w2
    <3>1. inb[c] \in Seq(Requests)
      BY DEF Seated
    <3>2. q \in Requests
      BY <3>1, ElementOfSeq DEF Of
    <3>3. q.id \in Nat /\ q.id <= w
      BY <1>0, <2>1, <3>2, KindsAre DEF Numbered
    <3>4. QED
      BY <1>0, <3>3
  <2>2. ASSUME NEW c \in Connections, NEW m \in Of(h.outbound[c]), ~IsPush(m) PROVE m.id <= w2
    <3>1. h.outbound[c] \in Seq(Messages)
      BY HostFields DEF Seated, Sound
    <3>2. m \in Messages
      BY <3>1, ElementOfSeq DEF Of
    <3>3. m.id \in Nat /\ m.id <= w
      BY <1>0, <2>2, <3>2, MessageFields DEF Numbered, IsPush
    <3>4. QED
      BY <1>0, <3>3
  <2>3. ASSUME NEW i \in Clients, cl[i].op # NoRequest PROVE cl[i].op.id <= w2
    <3>1. cl[i].op.id \in Nat /\ cl[i].op.id <= w
      BY <1>0, <2>3, ClientFields, OperationFields DEF Seated, Numbered
    <3>2. QED
      BY <1>0, <3>1
  <2>4. QED
    BY <1>0, <2>1, <2>2, <2>3 DEF Numbered
<1>3. QED
  BY <1>1, <1>2 DEF AInvs

\* Client i, that is r, sends the operation of t, which is new or that of r.
IsSent(h, w, cl, i, t, w2) ==
  LET r == cl[i] IN
  /\ t.phase = "waiting" /\ t.conn = r.conn /\ t.op \in Operations
  /\ \A j \in Clients \ {i} : cl[j].conn # r.conn
  /\ ~h.forgot => t.lease <= h.epoch /\ t.op.epoch <= h.epoch
  /\ \/ r.phase = "ready" /\ t.op.id = w + 1 /\ w2 = w + 1 /\ t.attempt = 0
     \/ /\ r.phase = "rejoining" /\ r.op # NoRequest /\ t.op.id = r.op.id /\ t.op.kind = r.op.kind /\ w2 = w
        /\ t.attempt > 0 /\ t.attempt # 0 /\ (IsOpen(h, r.conn) => r.conn \in h.subscribers)
        /\ i \in Pumps => r.op.kind = "command"
        /\ ~h.forgot /\ r.op.kind = "command" => r.op.epoch <= t.op.epoch /\ (i \in Pumps => t.op.epoch = r.op.epoch)

\* The requests that are on their way then.
Adds(h, inb, inb2, c, op) ==
  /\ \A k \in Connections : \A q \in Of(inb2[k]) : q \in Of(inb[k]) \/ (k = c /\ q = op)
  /\ \A k \in Connections, id \in Nat :
       /\ \A q \in Copies(h, inb2, k, id) : q \in Copies(h, inb, k, id) \/ (k = c /\ IsOpen(h, c) /\ op.id = id /\ q = op)
       /\ op.id # id => Copies(h, inb2, k, id) = Copies(h, inb, k, id)
  /\ \A k \in Connections \ {c} : inb2[k] = inb[k]
  /\ Len(inb2[c]) = Len(inb[c]) + 1 /\ inb2[c][Len(inb[c]) + 1] = op /\ Len(inb[c]) \in Nat
  /\ \A x \in 1 .. Len(inb[c]) : inb2[c][x] = inb[c][x]
  /\ op.kind \in Kinds

LEMMA SentCopies ==
  ASSUME NEW h, NEW inb \in [Connections -> Seq(Requests)], NEW c \in Connections, NEW op \in Operations,
         NEW inb2, inb2 = [inb EXCEPT ![c] = Append(inb[c], op)]
  PROVE  Adds(h, inb, inb2, c, op)
<1>1. op \in Requests /\ op.kind \in Kinds
  BY DEF Operations, Requests, Kinds
<1>2. /\ \A k \in Connections \ {c} : inb2[k] = inb[k]
      /\ inb2[c] = Append(inb[c], op) /\ inb[c] \in Seq(Requests)
  OBVIOUS
<1>3. Of(inb2[c]) = Of(inb[c]) \cup {op}
  BY <1>1, <1>2, OfAppend
<1>4. ASSUME NEW k \in Connections, NEW id \in Nat
      PROVE  /\ \A q \in Copies(h, inb2, k, id) : q \in Copies(h, inb, k, id) \/ (k = c /\ IsOpen(h, c) /\ op.id = id /\ q = op)
             /\ op.id # id => Copies(h, inb2, k, id) = Copies(h, inb, k, id)
  <2>1. CASE k = c
    BY <1>3, <2>1 DEF Copies
  <2>2. CASE k # c
    BY <1>2, <2>2 DEF Copies
  <2>3. QED
    BY <2>1, <2>2
<1>5. /\ Len(inb2[c]) = Len(inb[c]) + 1 /\ inb2[c][Len(inb[c]) + 1] = op /\ Len(inb[c]) \in Nat
      /\ \A x \in 1 .. Len(inb[c]) : inb2[c][x] = inb[c][x]
  BY <1>1, <1>2, AppendProperties, LenProperties
<1>6. \A k \in Connections : \A q \in Of(inb2[k]) : q \in Of(inb[k]) \/ (k = c /\ q = op)
  BY <1>2, <1>3
<1>7. QED
  BY <1>1, <1>2, <1>4, <1>5, <1>6 DEF Adds

\* No copy of a new operation is anywhere, and none of one that is sent again
\* is where it is sent to.
IsFresh(h, inb, w, cl, i, t, w2) ==
  /\ cl[i].conn \in Connections /\ t.op.id \in Nat /\ t.op.id # 0 /\ t.op.epoch \in Nat /\ t.op # NoRequest
  /\ w2 \in Nat /\ w <= w2 /\ t.op.id <= w2
  /\ Copies(h, inb, cl[i].conn, t.op.id) = {}
  /\ Rejected(t.op.id) \notin Of(h.outbound[cl[i].conn])
  /\ \A j \in Clients \ {i} : cl[j].op # NoRequest => cl[j].op.id # t.op.id
  /\ \A k \in Connections : \A q \in Copies(h, inb, k, t.op.id) : h.owner[k] = i /\ q.kind = t.op.kind
  /\ t.attempt = 0 => /\ w2 = w + 1 /\ t.op.id = w + 1
                      /\ \A k \in Connections : Copies(h, inb, k, t.op.id) = {}
                      /\ \A m \in Of(h.outbound[cl[i].conn]) : IsPush(m) \/ m.id # t.op.id

LEMMA SentFresh ==
  ASSUME NEW h, NEW inb, NEW w, NEW cl, Seated(h, inb, cl, w), Numbered(h, inb, cl, w), Joined(h, inb, cl),
         NEW i \in Clients, NEW t, NEW w2, IsSent(h, w, cl, i, t, w2)
  PROVE  IsFresh(h, inb, w, cl, i, t, w2)
<1> DEFINE r == cl[i]
           id == t.op.id
<1>1. /\ t.op \in Operations /\ id \in Nat /\ id # 0 /\ t.op.epoch \in Nat /\ t.op # NoRequest /\ w \in Nat
      /\ r.phase # "new" /\ r.conn \in Connections /\ r \in ClientStates
  BY OperationFields DEF IsSent, Seated
<1>2. CASE r.phase = "ready" /\ id = w + 1 /\ w2 = w + 1 /\ t.attempt = 0
  <2>1. ASSUME NEW x \in Nat, x <= w PROVE x # id
    BY <1>1, <1>2, <2>1
  <2>2. ASSUME NEW k \in Connections, NEW q \in Copies(h, inb, k, id) PROVE FALSE
    <3>1. q \in Of(inb[k]) /\ q.kind \in Kinds /\ q.id = id
      BY DEF Copies
    <3>2. id <= w
      BY <3>1 DEF Numbered
    <3>3. QED
      BY <1>1, <2>1, <3>2
  <2>3. ASSUME NEW m \in Of(h.outbound[r.conn]) PROVE IsPush(m) \/ m.id # id
    <3>1. IsPush(m) \/ m.id <= w
      BY <1>1 DEF Numbered
    <3>2. QED
      BY <1>1, <2>1, <3>1
  <2>4. ASSUME NEW j \in Clients \ {i}, cl[j].op # NoRequest PROVE cl[j].op.id # id
    <3>1. cl[j].op.id <= w
      BY <2>4 DEF Numbered
    <3>2. QED
      BY <1>1, <2>1, <3>1
  <2>5. w2 \in Nat /\ w <= w2 /\ id <= w2
    BY <1>1, <1>2
  <2>6. Rejected(id) \notin Of(h.outbound[r.conn])
    BY <2>3, RejectedIs
  <2>7. QED
    BY <1>1, <1>2, <2>2, <2>3, <2>4, <2>5, <2>6 DEF IsFresh
<1>3. CASE /\ r.phase = "rejoining" /\ r.op # NoRequest /\ id = r.op.id /\ t.op.kind = r.op.kind /\ w2 = w
           /\ t.attempt # 0
  <2>1. IsJoining(r)
    BY <1>3 DEF IsJoining
  <2>2. ASSUME NEW q \in Copies(h, inb, r.conn, id) PROVE FALSE
    BY <2>1 DEF Joined, Copies
  <2>3. Rejected(id) \notin Of(h.outbound[r.conn])
    BY <1>1, <2>1, RejectedIs DEF Joined
  <2>4. id <= w /\ \A k \in Connections : \A q \in Copies(h, inb, k, id) : h.owner[k] = i /\ q.kind = t.op.kind
    BY <1>3 DEF Numbered
  <2>5. ASSUME NEW j \in Clients \ {i}, cl[j].op # NoRequest PROVE cl[j].op.id # id
    BY <1>3, <2>5 DEF Numbered
  <2>6. w2 \in Nat /\ w <= w2 /\ id <= w2
    BY <1>1, <1>3, <2>4
  <2>7. QED
    BY <1>1, <1>3, <2>2, <2>3, <2>4, <2>5, <2>6 DEF IsFresh
<1>4. QED
  BY <1>2, <1>3 DEF IsSent

LEMMA SentTries ==
  ASSUME NEW h, NEW inb, NEW w, NEW cl, Seated(h, inb, cl, w), Numbered(h, inb, cl, w), Joined(h, inb, cl), Tried(cl),
         FirstTry(h, inb, cl), NEW done, NEW ids, Remembered(h, done, ids, w),
         NEW i \in Clients, NEW t, NEW w2, IsSent(h, w, cl, i, t, w2), Numbered(h, inb, cl, w2),
         NEW cl2, Becomes(cl, cl2, i, t), NEW inb2, inb2 = [inb EXCEPT ![cl[i].conn] = Append(inb[cl[i].conn], t.op)]
  PROVE  Numbered(h, inb2, cl2, w2) /\ Joined(h, inb2, cl2) /\ Tried(cl2) /\ FirstTry(h, inb2, cl2)
<1>00. IsFresh(h, inb, w, cl, i, t, w2)
  BY SentFresh
<1> DEFINE r == cl[i]
           c == r.conn
           op == t.op
<1>0. /\ c \in Connections /\ op.id \in Nat /\ op.id # 0 /\ op.epoch \in Nat /\ op # NoRequest
      /\ w2 \in Nat /\ w <= w2 /\ op.id <= w2
      /\ Copies(h, inb, c, op.id) = {}
      /\ \A j \in Clients \ {i} : cl[j].op # NoRequest => cl[j].op.id # op.id
      /\ \A k \in Connections : \A q \in Copies(h, inb, k, op.id) : h.owner[k] = i /\ q.kind = op.kind
      /\ t.attempt = 0 => /\ w2 = w + 1 /\ op.id = w + 1
                          /\ \A k \in Connections : Copies(h, inb, k, op.id) = {}
                          /\ \A m \in Of(h.outbound[c]) : IsPush(m) \/ m.id # op.id
  BY <1>00 DEF IsFresh
<1>0a. /\ t.phase = "waiting" /\ t.conn = c /\ op \in Operations /\ inb \in [Connections -> Seq(Requests)]
       /\ \A j \in Clients \ {i} : cl[j].conn # c
       /\ \/ r.phase = "ready" /\ t.attempt = 0
          \/ t.attempt > 0 /\ t.attempt # 0 /\ (IsOpen(h, c) => c \in h.subscribers)
       /\ h.owner[c] \in {i, NoClient} /\ cl2[i] = t /\ \A j \in Clients \ {i} : cl2[j] = cl[j]
  BY DEF IsSent, Seated, Becomes
<1>0b. inb2 = [inb EXCEPT ![c] = Append(inb[c], op)]
  OBVIOUS
<1> HIDE DEF op, c, r
<1>1a. Adds(h, inb, inb2, c, op)
  BY <1>0, <1>0a, <1>0b, SentCopies
<1>1. /\ \A k \in Connections : \A q \in Of(inb2[k]) : q \in Of(inb[k]) \/ (k = c /\ q = op)
      /\ \A k \in Connections, id \in Nat :
           /\ \A q \in Copies(h, inb2, k, id) : q \in Copies(h, inb, k, id) \/ (k = c /\ IsOpen(h, c) /\ op.id = id /\ q = op)
           /\ op.id # id => Copies(h, inb2, k, id) = Copies(h, inb, k, id)
      /\ \A k \in Connections \ {c} : inb2[k] = inb[k]
      /\ Len(inb2[c]) = Len(inb[c]) + 1 /\ inb2[c][Len(inb[c]) + 1] = op /\ Len(inb[c]) \in Nat
      /\ \A x \in 1 .. Len(inb[c]) : inb2[c][x] = inb[c][x]
      /\ op.kind \in Kinds
  BY <1>1a DEF Adds
<1>2. Numbered(h, inb2, cl2, w2)
  <2>1. ASSUME NEW k \in Connections, NEW q \in Of(inb2[k]), q.kind \in Kinds PROVE q.id <= w2
    BY <1>0, <1>1, <2>1 DEF Numbered
  <2>2. \A k \in Connections : \A m \in Of(h.outbound[k]) : IsPush(m) \/ m.id <= w2
    BY DEF Numbered
  <2>3. ASSUME NEW j \in Clients, cl2[j].op # NoRequest
        PROVE  /\ cl2[j].op.id <= w2
               /\ \A x \in Clients \ {j} : cl2[x].op # NoRequest => cl2[x].op.id # cl2[j].op.id
               /\ \A k \in Connections : \A q \in Copies(h, inb2, k, cl2[j].op.id) : h.owner[k] = j /\ q.kind = cl2[j].op.kind
    <3>1. CASE j = i
      <4>1. cl2[j].op = op
        BY <1>0a, <3>1 DEF op
      <4>2. ASSUME NEW x \in Clients \ {j}, cl2[x].op # NoRequest PROVE cl2[x].op.id # op.id
        BY <1>0, <1>0a, <3>1, <4>2
      <4>3. ASSUME NEW k \in Connections, NEW q \in Copies(h, inb2, k, op.id) PROVE h.owner[k] = i /\ q.kind = op.kind
        <5>1. q \in Copies(h, inb, k, op.id) \/ (k = c /\ IsOpen(h, c) /\ q = op)
          BY <1>0, <1>1
        <5>2. QED
          BY <1>0, <1>0a, <5>1 DEF IsOpen
      <4>4. QED
        BY <1>0, <3>1, <4>1, <4>2, <4>3
    <3>2. CASE j # i
      <4>1. cl2[j].op = cl[j].op /\ cl[j].op.id # op.id /\ cl[j].op # NoRequest /\ cl[j].op.id <= w2
        BY <1>0, <1>0a, <2>3, <3>2 DEF Numbered
      <4>2. cl[j].op.id \in Nat
        BY <4>1, ClientFields, OperationFields DEF Seated
      <4>3. ASSUME NEW x \in Clients \ {j}, cl2[x].op # NoRequest PROVE cl2[x].op.id # cl[j].op.id
        BY <1>0a, <4>1, <4>3 DEF Numbered, op
      <4>4. ASSUME NEW k \in Connections, NEW q \in Copies(h, inb2, k, cl[j].op.id)
            PROVE  h.owner[k] = j /\ q.kind = cl[j].op.kind
        <5>1. q \in Copies(h, inb, k, cl[j].op.id)
          BY <1>1, <4>1, <4>2
        <5>2. QED
          BY <4>1, <5>1 DEF Numbered
      <4>5. QED
        BY <4>1, <4>3, <4>4
    <3>3. QED
      BY <3>1, <3>2
  <2>4. QED
    BY <2>1, <2>2, <2>3 DEF Numbered
<1>3. Joined(h, inb2, cl2)
  <2>1. ASSUME NEW j \in Clients, IsJoining(cl2[j])
        PROVE  /\ \A q \in Of(inb2[cl2[j].conn]) : q.kind \notin Kinds
               /\ \A m \in Of(h.outbound[cl2[j].conn]) : IsPush(m) \/ m.id = 0
    <3>1. j # i
      BY <1>0a, <2>1 DEF IsJoining
    <3>2. cl2[j] = cl[j] /\ cl[j].conn \in Connections \ {c}
      BY <1>0a, <2>1, <3>1 DEF Seated, IsJoining
    <3>3. QED
      BY <1>1, <2>1, <3>2 DEF Joined
  <2>2. ASSUME NEW j \in Clients, cl2[j].phase = "waiting", cl2[j].attempt > 0, IsOpen(h, cl2[j].conn)
        PROVE  cl2[j].conn \in h.subscribers
    <3>1. CASE j = i
      BY <1>0a, <2>2, <3>1
    <3>2. CASE j # i
      BY <1>0a, <2>2, <3>2 DEF Joined
    <3>3. QED
      BY <3>1, <3>2
  <2>3. QED
    BY <2>1, <2>2 DEF Joined
<1>4. Tried(cl2)
  BY <1>0a DEF Tried
<1>5. ASSUME NEW j \in Clients \ {i}, NEW id \in Nat, Sends(cl2[j], id), cl2[j].attempt = 0
      PROVE  SentOnce(h, inb2, cl2[j], id)
  <2>1. cl2[j] = cl[j] /\ cl[j].op # NoRequest /\ cl[j].op.id = id /\ cl[j].conn \in Connections \ {c}
    BY <1>0a, <1>5 DEF Sends, NoRequest, Seated
  <2>2. SentOnce(h, inb, cl[j], id) /\ id # op.id
    BY <1>0, <1>5, <2>1 DEF FirstTry
  <2>3. \A k \in Connections : Copies(h, inb2, k, id) = Copies(h, inb, k, id)
    BY <1>1, <2>2
  <2>4. inb2[cl[j].conn] = inb[cl[j].conn]
    BY <1>1, <2>1
  <2>5. QED
    BY <2>1, <2>2, <2>3, <2>4 DEF SentOnce
<1>6. ASSUME NEW id \in Nat, Sends(t, id), t.attempt = 0 PROVE SentOnce(h, inb2, t, id)
  <2>1. id = op.id /\ id = w + 1 /\ \A k \in Connections : Copies(h, inb, k, id) = {}
    BY <1>0, <1>6 DEF Sends, op
  <2>2. id \notin h.committed
    <3>1. \A x \in h.committed : x <= w
      BY DEF Remembered
    <3>2. w \in Nat
      BY DEF Seated
    <3>3. ~(w + 1 <= w)
      BY <3>2
    <3>4. QED
      BY <2>1, <3>1, <3>3
  <2>3. ASSUME NEW k \in Connections, NEW q \in Copies(h, inb2, k, id)
        PROVE  k = t.conn /\ id \notin h.committed /\ \A m \in Of(h.outbound[k]) : IsPush(m) \/ m.id # id
    <3>1. k = c
      BY <1>1, <2>1
    <3>2. QED
      BY <1>0, <1>0a, <1>6, <2>1, <2>2, <3>1
  <2>4. ASSUME NEW x \in 1 .. Len(inb2[c]), inb2[c][x] \in Copies(h, inb2, c, id) PROVE x = Len(inb[c]) + 1
    <3>1. CASE x \in 1 .. Len(inb[c])
      <4>1. inb2[c][x] \in Of(inb[c])
        BY <1>1, <3>1 DEF Of
      <4>2. inb2[c][x] \in Copies(h, inb, c, id)
        BY <2>4, <4>1 DEF Copies
      <4>3. QED
        BY <1>0, <2>1, <4>2
    <3>2. QED
      BY <1>1, <3>1
  <2>5. QED
    BY <1>0a, <2>2, <2>3, <2>4 DEF SentOnce
<1>7. FirstTry(h, inb2, cl2)
  <2>1. ASSUME NEW j \in Clients, NEW id \in Nat, Sends(cl2[j], id), cl2[j].attempt = 0 PROVE SentOnce(h, inb2, cl2[j], id)
    BY <1>0a, <1>5, <1>6, <2>1
  <2>2. QED
    BY <2>1 DEF FirstTry
<1>8. QED
  BY <1>2, <1>3, <1>4, <1>7

Leased(h, inb, cl, ids) ==
  Granteds(h, inb, cl) /\ Renewed(h, inb, cl) /\ Refusals(h, inb, cl) /\ Finals(h, inb, cl, ids)

IsSending(h, inb, w, cl, i, t, w2, cl2, inb2, ids) ==
  /\ Seated(h, inb, cl, w) /\ Numbered(h, inb, cl, w) /\ Joined(h, inb, cl)
  /\ IsSent(h, w, cl, i, t, w2) /\ Becomes(cl, cl2, i, t)
  /\ inb2 = [inb EXCEPT ![cl[i].conn] = Append(inb[cl[i].conn], t.op)]
  /\ ids \subseteq Nat /\ \A id \in ids : id <= w

LEMMA SentLeases ==
  ASSUME NEW h, NEW inb, NEW w, NEW cl, NEW i \in Clients, NEW t, NEW w2, NEW cl2, NEW inb2, NEW ids,
         IsSending(h, inb, w, cl, i, t, w2, cl2, inb2, ids), ~h.forgot, Leased(h, inb, cl, ids)
  PROVE  Leased(h, inb2, cl2, ids)
<1>k. Granteds(h, inb, cl) /\ Renewed(h, inb, cl) /\ Refusals(h, inb, cl) /\ Finals(h, inb, cl, ids)
  BY DEF Leased
<1>s. /\ Seated(h, inb, cl, w) /\ Numbered(h, inb, cl, w) /\ Joined(h, inb, cl)
      /\ IsSent(h, w, cl, i, t, w2) /\ Becomes(cl, cl2, i, t)
      /\ inb2 = [inb EXCEPT ![cl[i].conn] = Append(inb[cl[i].conn], t.op)]
      /\ ids \subseteq Nat /\ \A id \in ids : id <= w
  BY DEF IsSending
<1>00. IsFresh(h, inb, w, cl, i, t, w2)
  BY <1>s, SentFresh
<1> DEFINE r == cl[i]
           c == r.conn
           op == t.op
<1>0. /\ c \in Connections /\ op.id \in Nat /\ op.epoch \in Nat /\ op # NoRequest
      /\ Copies(h, inb, c, op.id) = {}
      /\ Rejected(op.id) \notin Of(h.outbound[c])
      /\ \A j \in Clients \ {i} : cl[j].op # NoRequest => cl[j].op.id # op.id
      /\ t.attempt = 0 => /\ w2 = w + 1 /\ op.id = w + 1
                          /\ \A k \in Connections : Copies(h, inb, k, op.id) = {}
  BY <1>00 DEF IsFresh
<1>0a. /\ t.phase = "waiting" /\ t.conn = c /\ op \in Operations /\ inb \in [Connections -> Seq(Requests)] /\ w \in Nat
       /\ \A j \in Clients \ {i} : cl[j].conn # c
       /\ t.lease <= h.epoch /\ op.epoch <= h.epoch
       /\ h.owner[c] \in {i, NoClient} /\ cl2[i] = t /\ \A j \in Clients \ {i} : cl2[j] = cl[j]
  BY <1>s DEF IsSent, Seated, Becomes
<1>0c. \/ t.attempt = 0
       \/ /\ r.phase = "rejoining" /\ r.op # NoRequest /\ op.id = r.op.id /\ op.kind = r.op.kind /\ t.attempt # 0
          /\ i \in Pumps => r.op.kind = "command"
          /\ r.op.kind = "command" => r.op.epoch <= op.epoch /\ (i \in Pumps => op.epoch = r.op.epoch)
  BY <1>s DEF IsSent
<1>0b. inb2 = [inb EXCEPT ![c] = Append(inb[c], op)]
  BY <1>s
<1> HIDE DEF op, c, r
<1>1a. Adds(h, inb, inb2, c, op)
  BY <1>0, <1>0a, <1>0b, SentCopies
<1>1. /\ \A k \in Connections : \A q \in Of(inb2[k]) : q \in Of(inb[k]) \/ (k = c /\ q = op)
      /\ \A k \in Connections, id \in Nat :
           /\ \A q \in Copies(h, inb2, k, id) : q \in Copies(h, inb, k, id) \/ (k = c /\ IsOpen(h, c) /\ op.id = id /\ q = op)
           /\ op.id # id => Copies(h, inb2, k, id) = Copies(h, inb, k, id)
  BY <1>1a DEF Adds
<1>2. Granteds(h, inb2, cl2)
  <2>1. ASSUME NEW j \in Clients PROVE cl2[j].lease <= h.epoch /\ (cl2[j].op # NoRequest => cl2[j].op.epoch <= h.epoch)
    BY <1>k, <1>0a DEF Granteds, op
  <2>2. ASSUME NEW k \in Connections, NEW q \in Of(inb2[k]), q.kind \in Kinds PROVE q.epoch <= h.epoch
    BY <1>k, <1>0a, <1>1, <2>2 DEF Granteds
  <2>3. QED
    BY <1>k, <2>1, <2>2 DEF Granteds
<1>3. Renewed(h, inb2, cl2)
  <2>1. ASSUME NEW j \in Clients, cl2[j].op.kind = "command"
        PROVE  /\ \A k \in Connections : \A q \in Copies(h, inb2, k, cl2[j].op.id) :
                    /\ q.epoch <= cl2[j].op.epoch
                    /\ j \in Pumps \/ (cl2[j].phase = "waiting" /\ k = cl2[j].conn) => q.epoch = cl2[j].op.epoch
               /\ cl2[j].phase = "rejoining" => \A m \in Of(h.outbound[cl2[j].conn]) :
                    m.kind = "attached" /\ m.epoch # 0 => cl2[j].op.epoch <= m.epoch
    <3>1. CASE j # i
      <4>1. cl2[j] = cl[j] /\ cl[j].op # NoRequest
        BY <1>0a, <2>1, <3>1 DEF NoRequest
      <4>2. cl[j].op.id \in Nat /\ cl[j].op.id # op.id
        BY <1>0, <3>1, <4>1, ClientFields, OperationFields, <1>s DEF Seated
      <4>3. \A k \in Connections : Copies(h, inb2, k, cl[j].op.id) = Copies(h, inb, k, cl[j].op.id)
        BY <1>1, <4>2
      <4>4. QED
        BY <1>k, <2>1, <4>1, <4>3 DEF Renewed
    <3>2. CASE j = i
      <4>1. cl2[j] = t /\ t.op = op /\ op.kind = "command"
        BY <1>0a, <2>1, <3>2 DEF op
      <4>2. ASSUME NEW k \in Connections, NEW q \in Copies(h, inb2, k, op.id)
            PROVE  q.epoch <= op.epoch /\ (i \in Pumps \/ k = c => q.epoch = op.epoch)
        <5>1. CASE q = op
          BY <1>0, <5>1
        <5>2. CASE q \in Copies(h, inb, k, op.id)
          <6>1. k # c /\ t.attempt # 0
            BY <1>0, <5>2
          <6>2. /\ r.op.kind = "command" /\ r.op # NoRequest /\ op.id = r.op.id
                /\ r.op.epoch <= op.epoch /\ (i \in Pumps => op.epoch = r.op.epoch)
            BY <1>0c, <4>1, <6>1
          <6>3. q.epoch <= r.op.epoch /\ (i \in Pumps => q.epoch = r.op.epoch)
            BY <1>k, <5>2, <6>2 DEF Renewed, r
          <6>4. q.epoch \in Nat /\ r.op.epoch \in Nat
            <7>1. q \in Requests /\ q.kind \in Kinds
              BY <1>0a, <5>2, ElementOfSeq DEF Copies, Of
            <7>2. r.op.epoch \in Nat
              BY <6>2, ClientFields, OperationFields, <1>s DEF Seated, r
            <7>3. QED
              BY <7>1, <7>2, KindsAre
          <6>5. QED
            BY <1>0, <6>1, <6>2, <6>3, <6>4
        <5>3. QED
          BY <1>0, <1>1, <5>1, <5>2
      <4>3. cl2[j].op = op /\ cl2[j].phase = "waiting" /\ cl2[j].conn = c
        BY <1>0a, <3>2, <4>1
      <4>4. QED
        BY <3>2, <4>2, <4>3
    <3>3. QED
      BY <3>1, <3>2
  <2>2. QED
    BY <1>k, <2>1 DEF Renewed
<1>4. ASSUME NEW id \in Nat, id # op.id, Barred(h, inb, cl, id) PROVE Barred(h, inb2, cl2, id)
  <2>1. \A k \in Connections : Copies(h, inb2, k, id) = Copies(h, inb, k, id)
    BY <1>1, <1>4
  <2>2. ASSUME NEW j \in Pumps, cl2[j].op.kind = "command", cl2[j].op.id = id
        PROVE  h.driver # [owner |-> j, epoch |-> cl2[j].op.epoch]
    <3>1. j # i /\ j \in Clients
      BY <1>0a, <1>4, <2>2, Constants DEF op
    <3>2. QED
      BY <1>0a, <1>4, <2>2, <3>1 DEF Barred
  <2>3. QED
    BY <1>4, <2>1, <2>2 DEF Barred
<1>5. Refusals(h, inb2, cl2)
  <2>1. ASSUME NEW j \in Clients, NEW id \in Nat, Sends(cl2[j], id), cl2[j].attempt > 0,
               Rejected(id) \in Of(h.outbound[cl2[j].conn])
        PROVE  Barred(h, inb2, cl2, id)
    <3>1. CASE j = i
      <4>1. id = op.id /\ cl2[j].conn = c
        BY <1>0a, <2>1, <3>1 DEF Sends, op
      <4>2. QED
        BY <1>0, <2>1, <4>1
    <3>2. CASE j # i
      <4>1. cl2[j] = cl[j] /\ cl[j].op # NoRequest /\ cl[j].op.id = id
        BY <1>0a, <2>1, <3>2 DEF Sends, NoRequest
      <4>2. id # op.id /\ Barred(h, inb, cl, id)
        BY <1>k, <1>0, <2>1, <3>2, <4>1 DEF Refusals
      <4>3. QED
        BY <1>4, <4>2
    <3>3. QED
      BY <3>1, <3>2
  <2>2. QED
    BY <1>k, <2>1 DEF Refusals
<1>6. Finals(h, inb2, cl2, ids)
  <2>1. ASSUME NEW id \in ids
        PROVE  Barred(h, inb2, cl2, id) /\ \A j \in Blocking : cl2[j].op # NoRequest => cl2[j].op.id # id
    <3>0. id \in Nat /\ id <= w /\ Barred(h, inb, cl, id) /\ \A j \in Blocking : cl[j].op # NoRequest => cl[j].op.id # id
      BY <1>k, <1>s DEF Finals
    <3>1. CASE id # op.id
      <4>1. Barred(h, inb2, cl2, id)
        BY <1>4, <3>0, <3>1
      <4>2. ASSUME NEW j \in Blocking, cl2[j].op # NoRequest PROVE cl2[j].op.id # id
        <5>1. j \in Clients
          BY Constants
        <5>2. QED
          BY <1>0a, <3>0, <3>1, <4>2, <5>1 DEF op
      <4>3. QED
        BY <4>1, <4>2
    <3>2. CASE id = op.id
      <4>1. t.attempt # 0
        BY <1>0, <1>0a, <3>0, <3>2
      <4>2. /\ r.op # NoRequest /\ op.id = r.op.id
            /\ i \in Pumps => r.op.kind = "command" /\ op.kind = "command" /\ op.epoch = r.op.epoch
        BY <1>0c, <4>1
      <4>3. i \in Pumps /\ i \notin Blocking /\ op.kind = "command" /\ op.epoch = r.op.epoch /\ r.op.kind = "command"
        BY <3>0, <3>2, <4>2, Constants DEF r
      <4>4. h.driver # [owner |-> i, epoch |-> op.epoch]
        BY <3>0, <3>2, <4>2, <4>3 DEF Barred, r
      <4>5. ASSUME NEW k \in Connections, NEW q \in Copies(h, inb2, k, id)
            PROVE  h.driver # [owner |-> h.owner[k], epoch |-> q.epoch]
        <5>1. q \in Copies(h, inb, k, id) \/ (k = c /\ IsOpen(h, c) /\ q = op)
          BY <1>1, <3>0
        <5>2. CASE q \in Copies(h, inb, k, id)
          BY <3>0, <5>2 DEF Barred
        <5>3. CASE k = c /\ IsOpen(h, c) /\ q = op
          <6>1. h.owner[k] = i
            BY <1>0a, <5>3 DEF IsOpen
          <6>2. QED
            BY <4>4, <5>3, <6>1
        <5>4. QED
          BY <5>1, <5>2, <5>3
      <4>6. ASSUME NEW j \in Pumps, cl2[j].op.kind = "command", cl2[j].op.id = id
            PROVE  h.driver # [owner |-> j, epoch |-> cl2[j].op.epoch]
        <5>1. CASE j = i
          BY <1>0a, <4>4, <5>1 DEF op
        <5>2. CASE j # i
          <6>1. j \in Clients
            BY Constants
          <6>2. QED
            BY <1>0a, <3>0, <4>6, <5>2, <6>1 DEF Barred
        <5>3. QED
          BY <5>1, <5>2
      <4>7. ASSUME NEW j \in Blocking, cl2[j].op # NoRequest PROVE cl2[j].op.id # id
        <5>1. j \in Clients /\ j # i
          BY <4>3, Constants
        <5>2. QED
          BY <1>0a, <3>0, <4>7, <5>1
      <4>8. QED
        BY <3>0, <4>5, <4>6, <4>7 DEF Barred
    <3>3. QED
      BY <3>1, <3>2
  <2>2. QED
    BY <1>k, <2>1 DEF Finals
<1>7. QED
  BY <1>2, <1>3, <1>5, <1>6 DEF Leased

LEMMA SentKeeps ==
  ASSUME NEW h, NEW inb, NEW w, NEW cl, Seated(h, inb, cl, w), NEW done, NEW ids, AInvs(h, inb, cl, w, done, ids),
         NEW i \in Clients, NEW t, NEW w2, IsSent(h, w, cl, i, t, w2),
         NEW cl2, Becomes(cl, cl2, i, t), NEW inb2, inb2 = [inb EXCEPT ![cl[i].conn] = Append(inb[cl[i].conn], t.op)]
  PROVE  AInvs(h, inb2, cl2, w2, done, ids)
<1>0. /\ Remembered(h, done, ids, w) /\ Numbered(h, inb, cl, w) /\ Joined(h, inb, cl) /\ Tried(cl) /\ FirstTry(h, inb, cl)
  BY DEF AInvs
<1>1. w2 \in Nat /\ w <= w2
  <2>1. IsFresh(h, inb, w, cl, i, t, w2)
    BY <1>0, SentFresh
  <2>2. QED
    BY <2>1 DEF IsFresh
<1>2. AInvs(h, inb, cl, w2, done, ids)
  BY <1>1, WorkKeeps
<1>3. Remembered(h, done, ids, w2) /\ Numbered(h, inb, cl, w2)
  BY <1>2 DEF AInvs
<1>4. Numbered(h, inb2, cl2, w2) /\ Joined(h, inb2, cl2) /\ Tried(cl2) /\ FirstTry(h, inb2, cl2)
  BY <1>0, <1>3, SentTries, Zenon
<1>5. ~h.forgot => Granteds(h, inb2, cl2) /\ Renewed(h, inb2, cl2) /\ Refusals(h, inb2, cl2) /\ Finals(h, inb2, cl2, ids)
  <2>1. SUFFICES ASSUME ~h.forgot
                 PROVE  Granteds(h, inb2, cl2) /\ Renewed(h, inb2, cl2) /\ Refusals(h, inb2, cl2) /\ Finals(h, inb2, cl2, ids)
    OBVIOUS
  <2>2. Leased(h, inb, cl, ids)
    BY <2>1 DEF AInvs, Leased
  <2>3. IsSending(h, inb, w, cl, i, t, w2, cl2, inb2, ids)
    BY <1>0 DEF IsSending, Remembered
  <2>4. Leased(h, inb2, cl2, ids)
    BY <2>1, <2>2, <2>3, SentLeases
  <2>5. QED
    BY <2>4 DEF Leased
<1>6. QED
  BY <1>3, <1>4, <1>5 DEF AInvs

-----------------------------------------------------------------------------
(* Messages are read or lost, and connections opened *)

\* g has less on its way than h.
IsLess(h, inb, g, inb2) ==
  /\ g.owner = h.owner /\ g.subscribers = h.subscribers /\ g.driver = h.driver /\ g.epoch = h.epoch
  /\ g.forgot = h.forgot /\ g.committed = h.committed
  /\ \A k \in Connections : Of(g.outbound[k]) \subseteq Of(h.outbound[k]) /\ Thins(inb[k], inb2[k])

LEMMA ClosedIs == Closed.kind = "closed" /\ \A h, c : ~IsApplied(h, c, Closed)
BY DEF Closed, IsApplied

LEMMA LessKeeps ==
  ASSUME NEW h, NEW inb, NEW w, NEW cl, Seated(h, inb, cl, w),
         NEW done, NEW ids, AInvs(h, inb, cl, w, done, ids), NEW g, NEW inb2, IsLess(h, inb, g, inb2)
  PROVE  AInvs(g, inb2, cl, w, done, ids)
<1>1. h.epoch \in Nat /\ h.subscribers \subseteq Connections /\ \A k \in h.subscribers : IsOpen(h, k)
  BY HostFields DEF Seated, Sound
<1>2. Informs(h, g, 0, Answers(h, g, 0, Closed))
  BY DEF IsLess, Informs
<1>3. Goes(h, g, 0, Answers(h, g, 0, Closed))
  BY <1>1, <1>2 DEF IsLess, Goes
<1>4. g.committed = h.committed \cup (IF IsApplied(h, 0, Closed) THEN {Closed.id} ELSE {})
  BY ClosedIs DEF IsLess
<1>5. IsTurn(h, inb, g, inb2, 0, Closed)
  BY <1>3, <1>4 DEF IsTurn, Handled, IsLess
<1>6. done = IF IsApplied(h, 0, Closed) THEN Append(done, Closed.id) ELSE done
  BY ClosedIs
<1>7. QED
  BY <1>5, <1>6, TurnKeeps

\* g is h, but for the owner of c, on which no operation is and that no client has.
IsOpened(h, inb, cl, c, g) ==
  /\ c \in Connections /\ (\A q \in Of(inb[c]) : q.kind \notin Kinds) /\ Of(h.outbound[c]) = {}
  /\ \A i \in Clients : cl[i].conn # c /\ (cl[i].phase # "new" => cl[i].conn \in Connections)
  /\ \A k \in Connections \ {c} : g.owner[k] = h.owner[k]
  /\ g.outbound = h.outbound /\ g.subscribers = h.subscribers /\ g.driver = h.driver /\ g.epoch = h.epoch
  /\ g.forgot = h.forgot /\ g.committed = h.committed

LEMMA OpenKeeps ==
  ASSUME NEW h, NEW inb, NEW w, NEW cl, NEW done, NEW ids, AInvs(h, inb, cl, w, done, ids),
         NEW c, NEW g, IsOpened(h, inb, cl, c, g)
  PROVE  AInvs(g, inb, cl, w, done, ids)
<1>o. /\ c \in Connections /\ (\A q \in Of(inb[c]) : q.kind \notin Kinds) /\ Of(h.outbound[c]) = {}
      /\ \A i \in Clients : cl[i].conn # c /\ (cl[i].phase # "new" => cl[i].conn \in Connections)
      /\ \A k \in Connections \ {c} : g.owner[k] = h.owner[k]
      /\ g.outbound = h.outbound /\ g.subscribers = h.subscribers /\ g.driver = h.driver /\ g.epoch = h.epoch
      /\ g.forgot = h.forgot /\ g.committed = h.committed
  BY DEF IsOpened
<1>0. /\ Remembered(h, done, ids, w)
      /\ Numbered(h, inb, cl, w) /\ Joined(h, inb, cl) /\ Tried(cl) /\ FirstTry(h, inb, cl)
      /\ ~h.forgot => Granteds(h, inb, cl) /\ Renewed(h, inb, cl) /\ Refusals(h, inb, cl) /\ Finals(h, inb, cl, ids)
  BY DEF AInvs
<1>1. \A k \in Connections : \A id : /\ Copies(g, inb, k, id) = Copies(h, inb, k, id)
                                     /\ k = c => Copies(g, inb, k, id) = {}
  <2>1. \A id : Copies(g, inb, c, id) = {} /\ Copies(h, inb, c, id) = {}
    BY <1>o DEF Copies
  <2>2. ASSUME NEW k \in Connections \ {c}, NEW id PROVE Copies(g, inb, k, id) = Copies(h, inb, k, id)
    BY <1>o DEF Copies, IsOpen
  <2>3. QED
    BY <1>o, <2>1, <2>2
<1>2. Remembered(g, done, ids, w)
  BY <1>o, <1>0 DEF Remembered
<1>3. Numbered(g, inb, cl, w)
  <2>1. ASSUME NEW i \in Clients, cl[i].op # NoRequest, NEW k \in Connections, NEW q \in Copies(g, inb, k, cl[i].op.id)
        PROVE  g.owner[k] = i /\ q.kind = cl[i].op.kind
    <3>1. k # c /\ q \in Copies(h, inb, k, cl[i].op.id)
      BY <1>o, <1>1, <2>1
    <3>2. QED
      BY <1>o, <1>0, <2>1, <3>1 DEF Numbered
  <2>2. QED
    BY <1>o, <1>0, <2>1 DEF Numbered
<1>4. Joined(g, inb, cl)
  <2>1. ASSUME NEW i \in Clients, cl[i].phase = "waiting", cl[i].attempt > 0, IsOpen(g, cl[i].conn)
        PROVE  cl[i].conn \in g.subscribers
    BY <1>o, <1>0, <2>1 DEF Joined, IsOpen
  <2>2. ASSUME NEW k \in Connections, IsOpen(g, k), NEW m \in Of(g.outbound[k]), m.kind = "attached" PROVE k \in g.subscribers
    BY <1>o, <1>0, <2>2 DEF Joined, IsOpen
  <2>3. QED
    BY <1>o, <1>0, <2>1, <2>2 DEF Joined
<1>5. FirstTry(g, inb, cl)
  <2>1. ASSUME NEW i \in Clients, NEW id \in Nat, Sends(cl[i], id), cl[i].attempt = 0 PROVE SentOnce(g, inb, cl[i], id)
    <3>1. SentOnce(h, inb, cl[i], id) /\ cl[i].conn \in Connections
      BY <1>o, <1>0, <2>1 DEF FirstTry, Sends
    <3>2. QED
      BY <1>o, <1>1, <3>1 DEF SentOnce
  <2>2. QED
    BY <1>o, <2>1 DEF FirstTry
<1>6. SUFFICES ASSUME ~h.forgot
               PROVE  Granteds(g, inb, cl) /\ Renewed(g, inb, cl) /\ Refusals(g, inb, cl) /\ Finals(g, inb, cl, ids)
  BY <1>o, <1>0, <1>2, <1>3, <1>4, <1>5 DEF AInvs
<1>7. Granteds(g, inb, cl)
  BY <1>o, <1>0, <1>6 DEF Granteds
<1>8. Renewed(g, inb, cl)
  BY <1>o, <1>0, <1>1, <1>6 DEF Renewed
<1>9. ASSUME NEW id, Barred(h, inb, cl, id) PROVE Barred(g, inb, cl, id)
  <2>1. ASSUME NEW k \in Connections, NEW q \in Copies(g, inb, k, id) PROVE g.driver # [owner |-> g.owner[k], epoch |-> q.epoch]
    <3>1. k # c /\ q \in Copies(h, inb, k, id)
      BY <1>o, <1>1, <2>1
    <3>2. QED
      BY <1>o, <1>9, <3>1 DEF Barred
  <2>2. QED
    BY <1>o, <1>9, <2>1 DEF Barred
<1>10. Refusals(g, inb, cl)
  BY <1>o, <1>0, <1>6, <1>9 DEF Refusals
<1>11. Finals(g, inb, cl, ids)
  BY <1>o, <1>0, <1>6, <1>9 DEF Finals
<1>12. QED
  BY <1>o, <1>7, <1>8, <1>10, <1>11

\* More commands are refused or fenced.
LEMMA MoreFinals ==
  ASSUME NEW h, NEW inb, NEW w, NEW cl, NEW done, NEW ids, AInvs(h, inb, cl, w, done, ids), NEW more,
         more \subseteq Nat, \A id \in more : id <= w,
         ~h.forgot => Finals(h, inb, cl, more)
  PROVE  AInvs(h, inb, cl, w, done, ids \cup more)
<1>1. Remembered(h, done, ids \cup more, w)
  BY DEF AInvs, Remembered
<1>2. ~h.forgot => Finals(h, inb, cl, ids \cup more)
  BY DEF AInvs, Finals
<1>3. QED
  BY <1>1, <1>2 DEF AInvs

-----------------------------------------------------------------------------
(* The steps *)

LEMMA IsSeated ==
  ASSUME IInv
  PROVE  Seated(host, inbox, client, work)
<1>1. ASSUME NEW i \in Clients, client[i].phase # "new"
      PROVE  client[i].conn \in Connections /\ host.owner[client[i].conn] \in {i, NoClient}
  <2>1. client[i].conn # 0
    BY <1>1, ClientFields DEF IInv, IsClient
  <2>2. QED
    BY <2>1, Placing DEF IInv, Placed
<1>2. QED
  BY <1>1 DEF IInv, Seated

LEMMA TakenIsLess ==
  ASSUME IInv, NEW i \in Clients, HasArrived(i)
  PROVE  /\ IsLess(host, inbox, Taken(i), inbox) /\ Seated(Taken(i), inbox, client, work)
         /\ client[i].conn \in Connections /\ Arriving(i) \in Of(host.outbound[client[i].conn]) /\ Arriving(i) \in Messages
<1> DEFINE c == client[i].conn
           g == Taken(i)
           q == host.outbound[c]
<1>1. c \in Connections /\ Nearby(host, g, c) /\ Arriving(i) \in Messages /\ Arriving(i) = Head(q) /\ q # <<>>
  BY TakenIs DEF HasArrived
<1>2. host \in Hosts /\ q \in Seq(Messages) /\ inbox \in [Connections -> Seq(Requests)]
  BY <1>1, HostFields DEF IInv, Sound
<1>3. g.committed = host.committed /\ g.forgot = host.forgot /\ g.outbound[c] = Tail(q)
  BY <1>1, <1>2, HostFields DEF Taken, Hosts
<1>4. Of(Tail(q)) \subseteq Of(q) /\ Head(q) \in Of(q)
  <2>1. Len(q) \in Nat /\ Len(q) > 0 /\ Head(q) = q[1] /\ Len(Tail(q)) = Len(q) - 1
        /\ \A k \in 1 .. Len(Tail(q)) : Tail(q)[k] = q[k + 1]
    BY <1>1, <1>2, HeadTailProperties, LenProperties, EmptySeq
  <2> HIDE DEF q
  <2>2. \A k \in 1 .. Len(Tail(q)) : k + 1 \in 1 .. Len(q)
    BY <2>1
  <2>3. QED
    BY <2>1, <2>2 DEF Of
<1>5. \A k \in Connections : Thins(inbox[k], inbox[k])
  BY <1>2, ThinsSame
<1>6. \A k \in Connections : Of(g.outbound[k]) \subseteq Of(host.outbound[k])
  BY <1>1, <1>3, <1>4 DEF Nearby
<1>7. Sound(g)
  BY <1>1, NearbySound DEF IInv
<1>8. Seated(g, inbox, client, work)
  BY <1>1, <1>7, IsSeated DEF Seated, Nearby
<1>9. QED
  BY <1>1, <1>3, <1>4, <1>5, <1>6, <1>8 DEF IsLess, Nearby

\* How often a client has sent its operation again.
LEMMA AttemptsAre ==
  ASSUME NEW r \in ClientStates, NEW i \in Clients, NEW m \in Messages
  PROVE  /\ Acknowledge(r, i, m).attempt = r.attempt
         /\ \A ids \in SUBSET Nat : [r EXCEPT !.inflight = ids] \in ClientStates /\ [r EXCEPT !.inflight = ids].attempt = r.attempt
         /\ \A phase \in Phases : [Finished(r) EXCEPT !.phase = phase].attempt = 0
         /\ Retry(r, i).phase = "broken" => Retry(r, i).attempt > 0
         /\ Retry(r, i).phase = "ready" => Retry(r, i).attempt = 0
         /\ RejoinFailed(r, i).phase = "broken" => RejoinFailed(r, i).attempt = r.attempt
         /\ RejoinFailed(r, i).phase = "ready" => RejoinFailed(r, i).attempt = 0
<1>1. Acknowledge(r, i, m).attempt = r.attempt
  BY DEF Acknowledge, ObserveDriver, ClientStates
<1>2. \A ids \in SUBSET Nat : [r EXCEPT !.inflight = ids] \in ClientStates /\ [r EXCEPT !.inflight = ids].attempt = r.attempt
  BY DEF ClientStates
<1>3. \A phase \in Phases : [Finished(r) EXCEPT !.phase = phase].attempt = 0
  BY DEF Finished, ClientStates
<1>4. /\ Retry(r, i).phase = "broken" => Retry(r, i).attempt > 0
      /\ Retry(r, i).phase = "ready" => Retry(r, i).attempt = 0
  <2>1. CASE CanRetry(r, i)
    <3>1. r.attempt \in Nat
      BY ClientFields
    <3>2. Retry(r, i) = [r EXCEPT !.phase = "broken", !.attempt = r.attempt + 1, !.tries = 0]
      BY <2>1 DEF Retry
    <3>3. Retry(r, i).phase = "broken" /\ Retry(r, i).attempt = r.attempt + 1
      BY <3>2 DEF ClientStates
    <3>4. QED
      BY <3>1, <3>3
  <2>2. CASE ~CanRetry(r, i)
    <3>1. Retry(r, i) = [Finished(r) EXCEPT !.phase = "ready"]
      BY <2>2 DEF Retry
    <3>2. Retry(r, i).phase = "ready" /\ Retry(r, i).attempt = 0
      BY <3>1 DEF Finished, ClientStates
    <3>3. QED
      BY <3>2
  <2>3. QED
    BY <2>1, <2>2
<1>5. /\ RejoinFailed(r, i).phase = "broken" => RejoinFailed(r, i).attempt = r.attempt
      /\ RejoinFailed(r, i).phase = "ready" => RejoinFailed(r, i).attempt = 0
  BY DEF RejoinFailed, Finished, ClientStates
<1>6. QED
  BY <1>1, <1>2, <1>3, <1>4, <1>5

\* Nothing that counts changes, or the operation is over, or waits for a new
\* connection.
LEMMA CalmCases ==
  ASSUME NEW h, NEW inb, NEW w, NEW cl, NEW done, NEW ids, AInvs(h, inb, cl, w, done, ids),
         NEW i \in Clients, NEW r, r = cl[i], NEW t, ~h.forgot /\ t.lease # r.lease => t.lease <= h.epoch,
         \/ t.phase = r.phase /\ t.conn = r.conn /\ t.op = r.op /\ t.attempt = r.attempt
         \/ t.phase \in {"ready", "failed"} /\ t.op = NoRequest /\ (t.phase = "ready" => t.attempt = 0)
         \/ t.phase = "broken" /\ t.op = r.op /\ (t.op # NoRequest => t.attempt > 0)
  PROVE  IsCalm(h, inb, r, t)
<1>1. ~h.forgot => t.lease <= h.epoch
  BY DEF AInvs, Granteds
<1>2. Tried(cl)
  BY DEF AInvs
<1>3. CASE t.phase = r.phase /\ t.conn = r.conn /\ t.op = r.op /\ t.attempt = r.attempt
  BY <1>1, <1>2, <1>3 DEF IsCalm, Tried
<1>4. CASE t.phase \in {"ready", "failed"} /\ t.op = NoRequest /\ (t.phase = "ready" => t.attempt = 0)
  BY <1>1, <1>4 DEF IsCalm, IsJoining
<1>5. CASE t.phase = "broken" /\ t.op = r.op /\ (t.op # NoRequest => t.attempt > 0)
  BY <1>1, <1>5 DEF IsCalm, IsJoining
<1>6. QED
  BY <1>3, <1>4, <1>5

LEMMA ConsumeAInv ==
  ASSUME IInv, AInv, NEW i \in Clients, Consume(i)
  PROVE  AInv'
<1> DEFINE r == client[i]
           t == [r EXCEPT !.pending = Tail(r.pending)]
<1>1. client' = [client EXCEPT ![i] = t] /\ UNCHANGED <<host, inbox, work, applied, refused, fenced>>
  BY DEF Consume, history
<1>2. r \in ClientStates /\ client \in [Clients -> ClientStates]
  BY DEF IInv
<1>3. t.phase = r.phase /\ t.conn = r.conn /\ t.op = r.op /\ t.attempt = r.attempt /\ t.lease = r.lease
  BY <1>2 DEF ClientStates
<1> HIDE DEF t
<1>4. IsCalm(host, inbox, r, t)
  BY <1>3, CalmCases DEF AInv
<1>5. Becomes(client, client', i, t)
  BY <1>1, <1>2 DEF Becomes
<1>6. AInvs(host, inbox, client', work, applied, refused \cup fenced)
  BY <1>4, <1>5, CalmKeeps DEF AInv
<1>7. QED
  BY <1>1, <1>6 DEF AInv

LEMMA LostAInv ==
  ASSUME IInv, AInv, NEW i \in Clients, Lost(i)
  PROVE  AInv'
<1> DEFINE r == client[i]
           none == {}
           g == [r EXCEPT !.inflight = none]
           t == CASE r.phase = "joining" -> [r EXCEPT !.phase = "failed"]
                  [] r.phase = "ready" -> [r EXCEPT !.phase = "broken", !.tries = 0]
                  [] r.phase = "waiting" -> Retry(g, i)
                  [] r.phase = "rejoining" -> RejoinFailed(g, i)
<1>1. /\ r.phase \in {"joining", "ready", "waiting", "rejoining"}
      /\ client' = [client EXCEPT ![i] = t] /\ UNCHANGED <<host, inbox, work, applied, refused, fenced>>
  BY DEF Lost, history
<1>2. r \in ClientStates /\ client \in [Clients -> ClientStates] /\ none \in SUBSET Nat
  BY DEF IInv
<1> HIDE DEF none
<1>3. g \in ClientStates /\ g.op = r.op /\ g.lease = r.lease /\ g.attempt = r.attempt /\ g.conn = r.conn
  BY <1>2 DEF ClientStates
<1> HIDE DEF g
<1>4. Tried(client)
  BY DEF AInv, AInvs
<1>5. /\ t.lease = r.lease
      /\ \/ t.phase \in {"ready", "failed"} /\ t.op = NoRequest /\ (t.phase = "ready" => t.attempt = 0)
         \/ t.phase = "broken" /\ t.op = r.op /\ (t.op # NoRequest => t.attempt > 0)
  <2>1. CASE r.phase = "joining"
    <3>1. t = [r EXCEPT !.phase = "failed"] /\ r.op = NoRequest
      BY <1>4, <2>1 DEF Tried
    <3> HIDE DEF t
    <3>2. QED
      BY <1>2, <3>1 DEF ClientStates
  <2>2. CASE r.phase = "ready"
    <3>1. t = [r EXCEPT !.phase = "broken", !.tries = 0] /\ r.op = NoRequest
      BY <1>4, <2>2 DEF Tried
    <3> HIDE DEF t
    <3>2. QED
      BY <1>2, <3>1 DEF ClientStates
  <2>3. CASE r.phase = "waiting"
    <3>1. t = Retry(g, i)
      BY <2>3
    <3> HIDE DEF t
    <3>2. QED
      BY <1>3, <3>1, RetryIs, AttemptsAre, MessageTypes DEF Unmoved
  <2>4. CASE r.phase = "rejoining"
    <3>1. t = RejoinFailed(g, i) /\ (r.op # NoRequest => r.attempt > 0)
      BY <1>4, <2>4 DEF Tried
    <3> HIDE DEF t
    <3>2. QED
      BY <1>3, <3>1, RejoinFailedIs, AttemptsAre, MessageTypes DEF Unmoved
  <2>5. QED
    BY <1>1, <2>1, <2>2, <2>3, <2>4
<1> HIDE DEF t
<1>6. IsCalm(host, inbox, r, t)
  BY <1>5, CalmCases DEF AInv
<1>7. Becomes(client, client', i, t)
  BY <1>1, <1>2 DEF Becomes
<1>8. AInvs(host, inbox, client', work, applied, refused \cup fenced)
  BY <1>6, <1>7, CalmKeeps DEF AInv
<1>9. QED
  BY <1>1, <1>8 DEF AInv

LEMMA TimeOutAInv ==
  ASSUME IInv, AInv, NEW i \in Clients, TimeOut(i)
  PROVE  AInv'
<1> DEFINE r == client[i]
           g == Retry(r, i)
           ids == IF i \in Pumps THEN {} ELSE g.inflight \cup r.inflight
           t == [g EXCEPT !.inflight = ids]
<1>1. /\ r.phase = "waiting" /\ work' = work + 1
      /\ client' = [client EXCEPT ![i] = t] /\ UNCHANGED <<host, inbox, applied, refused, fenced>>
  BY DEF TimeOut, Works, history
<1>2. r \in ClientStates /\ client \in [Clients -> ClientStates] /\ work \in Nat
  BY DEF IInv
<1>3. /\ g \in ClientStates /\ g.lease = r.lease
      /\ \/ g.phase \in {"ready", "failed"} /\ g.op = NoRequest /\ (g.phase = "ready" => g.attempt = 0)
         \/ g.phase = "broken" /\ g.op = r.op /\ (g.op # NoRequest => g.attempt > 0)
  BY <1>2, RetryIs, AttemptsAre, MessageTypes DEF Unmoved
<1> HIDE DEF g, ids
<1>4. t.phase = g.phase /\ t.op = g.op /\ t.attempt = g.attempt /\ t.lease = g.lease
  BY <1>3 DEF ClientStates
<1> HIDE DEF t
<1>5. IsCalm(host, inbox, r, t)
  BY <1>3, <1>4, CalmCases DEF AInv
<1>6. Becomes(client, client', i, t)
  BY <1>1, <1>2 DEF Becomes
<1>7. AInvs(host, inbox, client, work', applied, refused \cup fenced)
  BY <1>1, <1>2, IsSeated, WorkKeeps DEF AInv
<1>8. AInvs(host, inbox, client', work', applied, refused \cup fenced)
  BY <1>5, <1>6, <1>7, CalmKeeps
<1>9. QED
  BY <1>1, <1>8 DEF AInv

LEMMA ReadPushAInv ==
  ASSUME IInv, AInv, NEW i \in Clients, ReadPush(i)
  PROVE  AInv'
<1> DEFINE m == Arriving(i)
           r == client[i]
           c == r.conn
           h == Taken(i)
           phase == IF r.phase = "joining" THEN "failed" ELSE "ready"
           kept == IF r.phase = "rejoining" THEN [r EXCEPT !.buffered = Append(r.buffered, m)]
                                            ELSE [r EXCEPT !.pending = Append(r.pending, m)]
           over == [Finished(r) EXCEPT !.phase = phase]
           t == IF i \in Pumps \/ r.phase = "ready" THEN Acknowledge(r, i, m)
                ELSE IF r.phase # "rejoining" /\ Len(r.pending) >= PendingCapacity THEN over
                ELSE Acknowledge(kept, i, m)
<1>1. /\ HasArrived(i) /\ host' = h /\ client' = [client EXCEPT ![i] = t]
      /\ UNCHANGED <<inbox, work, applied, refused, fenced>>
  BY DEF ReadPush, history
<1>2. r \in ClientStates /\ client \in [Clients -> ClientStates]
  BY DEF IInv
<1>3. /\ IsLess(host, inbox, h, inbox) /\ c \in Connections /\ m \in Of(host.outbound[c]) /\ m \in Messages
  BY <1>1, TakenIsLess
<1>4. AInvs(h, inbox, client, work, applied, refused \cup fenced)
  BY <1>3, IsSeated, LessKeeps DEF AInv
<1>5. kept \in ClientStates /\ kept.phase = r.phase /\ kept.conn = r.conn /\ kept.op = r.op /\ kept.attempt = r.attempt
      /\ kept.lease = r.lease
  <2>1. r.pending \in Seq(Messages) /\ r.buffered \in Seq(Messages)
    BY <1>2, ClientFields
  <2>2. Append(r.pending, m) \in Seq(Messages) /\ Append(r.buffered, m) \in Seq(Messages)
    BY <1>3, <2>1, AppendProperties
  <2> DEFINE x == Append(r.pending, m)
             y == Append(r.buffered, m)
  <2>3. kept = IF r.phase = "rejoining" THEN [r EXCEPT !.buffered = y] ELSE [r EXCEPT !.pending = x]
    OBVIOUS
  <2>4. x \in Seq(Messages) /\ y \in Seq(Messages)
    BY <2>2
  <2> HIDE DEF kept, x, y
  <2>5. QED
    BY <1>2, <2>3, <2>4 DEF ClientStates
<1>6. phase \in Phases /\ phase \in {"ready", "failed"}
  BY DEF Phases
<1> HIDE DEF kept, phase, m
<1>7. ~host.forgot /\ m.kind = "driver" => Says(m, i) <= host.epoch
  <2>1. m.kind = "driver" /\ ~host.forgot => m.lease.epoch <= host.epoch /\ 0 <= host.epoch
    BY <1>3, HostFields DEF AInv, AInvs, Granteds, IInv, Sound
  <2>2. QED
    BY <2>1 DEF Says
<1>8. ASSUME NEW x \in ClientStates, x.phase = r.phase, x.conn = r.conn, x.op = r.op, x.attempt = r.attempt, x.lease = r.lease,
             t = Acknowledge(x, i, m)
      PROVE  IsCalm(h, inbox, r, t)
  <2> HIDE DEF t, h
  <2>1. t.phase = r.phase /\ t.conn = r.conn /\ t.op = r.op /\ t.attempt = r.attempt
    BY <1>3, <1>8, AcknowledgeIs, AttemptsAre
  <2>2. t.lease = r.lease \/ (m.kind = "driver" /\ t.lease = Says(m, i))
    BY <1>3, <1>8, AcknowledgeIs
  <2>3. ~h.forgot /\ t.lease # r.lease => t.lease <= h.epoch
    BY <1>3, <1>7, <2>2 DEF IsLess
  <2>4. QED
    BY <1>4, <2>1, <2>3, CalmCases
<1>9. IsCalm(h, inbox, r, t)
  <2>1. CASE i \in Pumps \/ r.phase = "ready"
    BY <1>2, <1>8, <2>1
  <2>2. CASE ~(i \in Pumps \/ r.phase = "ready") /\ (r.phase # "rejoining" /\ Len(r.pending) >= PendingCapacity)
    <3>1. t = over
      BY <2>2
    <3>2. over.lease = r.lease /\ over.op = NoRequest /\ over.phase = phase /\ over.attempt = 0
      BY <1>2, <1>3, <1>6, FinishedIs, AttemptsAre DEF Unmoved
    <3> HIDE DEF t, over, h
    <3>3. QED
      BY <1>4, <1>6, <3>1, <3>2, CalmCases
  <2>3. CASE ~(i \in Pumps \/ r.phase = "ready") /\ ~(r.phase # "rejoining" /\ Len(r.pending) >= PendingCapacity)
    BY <1>5, <1>8, <2>3
  <2>4. QED
    BY <2>1, <2>2, <2>3
<1> HIDE DEF t
<1>10. Becomes(client, client', i, t)
  BY <1>1, <1>2 DEF Becomes
<1>11. AInvs(h, inbox, client', work, applied, refused \cup fenced)
  BY <1>4, <1>9, <1>10, CalmKeeps
<1>12. QED
  BY <1>1, <1>11 DEF AInv

LEMMA BreakAInv ==
  ASSUME IInv, AInv, NEW i \in Clients, Break(i)
  PROVE  AInv'
<1> DEFINE c == client[i].conn
<1>1. /\ c # 0 /\ host' = [host EXCEPT !.outbound[c] = <<>>] /\ work' = work + 1
      /\ UNCHANGED <<client, applied, refused, fenced>>
  BY DEF Break, Works, history
<1>2. PICK arrived \in {<<>>, inbox[c]} : inbox' = [inbox EXCEPT ![c] = Append(arrived, Closed)]
  BY DEF Break
<1>3. host \in Hosts /\ inbox \in [Connections -> Seq(Requests)] /\ work \in Nat /\ c \in Connections
  BY <1>1, Placing DEF IInv, Sound
<1>4. /\ host'.owner = host.owner /\ host'.subscribers = host.subscribers /\ host'.driver = host.driver
      /\ host'.epoch = host.epoch /\ host'.forgot = host.forgot /\ host'.committed = host.committed
      /\ host'.outbound[c] = <<>> /\ \A k \in Connections \ {c} : host'.outbound[k] = host.outbound[k]
  BY <1>1, <1>3, HostFields DEF Hosts
<1>5. \A k \in Connections : Of(host'.outbound[k]) \subseteq Of(host.outbound[k])
  BY <1>4 DEF Of
<1>6. ASSUME NEW k \in Connections PROVE Thins(inbox[k], inbox'[k])
  <2>1. CASE k = c
    BY <1>2, <1>3, <2>1, ThinsClosed
  <2>2. CASE k # c
    BY <1>2, <1>3, <2>2, ThinsSame
  <2>3. QED
    BY <2>1, <2>2
<1>7. IsLess(host, inbox, host', inbox')
  BY <1>4, <1>5, <1>6 DEF IsLess
<1>8. AInvs(host, inbox, client, work', applied, refused \cup fenced) /\ Seated(host, inbox, client, work')
  <2>1. Seated(host, inbox, client, work) /\ AInvs(host, inbox, client, work, applied, refused \cup fenced)
    BY IsSeated DEF AInv
  <2>2. work' \in Nat /\ work <= work'
    BY <1>1, <1>3
  <2>3. Seated(host, inbox, client, work')
    BY <2>1, <2>2 DEF Seated
  <2>4. QED
    BY <2>1, <2>2, <2>3, WorkKeeps, Zenon
<1>9. AInvs(host', inbox', client, work', applied, refused \cup fenced)
  BY <1>7, <1>8, LessKeeps
<1>10. QED
  BY <1>1, <1>9 DEF AInv

LEMMA PublishAInv ==
  ASSUME IInv, AInv, Publish
  PROVE  AInv'
<1>1. PICK order \in SetToSeqs(host.subscribers), n \in EventCounts \ {0} :
        host' = Published(host, n, FALSE, order)
  BY DEF Publish
<1>2. UNCHANGED <<inbox, client, applied, refused, fenced>> /\ work' = work + 1
  BY DEF Publish, Works, history
<1>3. n \in Nat
  BY <1>1, DeliveryAssumption
<1>4. Sound(host) /\ Dated(host.log, host.sequence) /\ host.subscribers \in SUBSET Connections /\ work \in Nat
      /\ inbox \in [Connections -> Seq(Requests)]
  BY HostFields DEF IInv, Sound
<1>5. Visits(order, host)
  BY <1>1, <1>4, OrderVisits
<1>6. Goes(host, host', 0, {}) /\ host'.committed = host.committed
  BY <1>1, <1>3, <1>4, <1>5, PublishedGoes
<1>7. Goes(host, host', 0, Answers(host, host', 0, Closed))
  BY <1>6, GoesMore
<1>8. \A k \in Connections : Thins(inbox[k], inbox[k])
  BY <1>4, ThinsSame
<1>9. IsTurn(host, inbox, host', inbox, 0, Closed)
  BY <1>6, <1>7, <1>8, ClosedIs DEF IsTurn, Handled
<1>10. AInvs(host, inbox, client, work', applied, refused \cup fenced) /\ Seated(host, inbox, client, work')
  <2>1. Seated(host, inbox, client, work) /\ AInvs(host, inbox, client, work, applied, refused \cup fenced)
    BY IsSeated DEF AInv
  <2>2. work' \in Nat /\ work <= work'
    BY <1>2, <1>4
  <2>3. Seated(host, inbox, client, work')
    BY <2>1, <2>2 DEF Seated
  <2>4. QED
    BY <2>1, <2>2, <2>3, WorkKeeps, Zenon
<1>11. applied = IF IsApplied(host, 0, Closed) THEN Append(applied, Closed.id) ELSE applied
  BY ClosedIs
<1>12. AInvs(host', inbox, client, work', applied, refused \cup fenced)
  BY <1>9, <1>10, <1>11, TurnKeeps
<1>13. QED
  BY <1>2, <1>12 DEF AInv

LEMMA ReplaceLeaderAInv ==
  ASSUME IInv, AInv, ReplaceLeader
  PROVE  AInv'
<1>1. PICK epoch \in host.saved .. host.epoch :
        host' = [host EXCEPT !.owner = [c \in Connections |-> NoClient], !.subscribers = {},
                             !.driver = NoLease, !.epoch = epoch + 1, !.saved = epoch + 1,
                             !.forgot = @ \/ epoch < host.epoch,
                             !.outbound = [c \in Connections |-> <<>>]]
  BY Zenon DEF ReplaceLeader
<1>2. UNCHANGED <<client, applied, refused, fenced>> /\ work' = work + 1 /\ inbox' = [c \in Connections |-> <<>>]
  BY DEF ReplaceLeader, Works, history
<1>3. host \in Hosts /\ work \in Nat /\ client \in [Clients -> ClientStates]
  BY DEF IInv, Sound
<1>4. /\ host'.committed = host.committed /\ host'.driver = NoLease /\ host'.subscribers = {}
      /\ host'.epoch = epoch + 1 /\ host'.forgot = (host.forgot \/ epoch < host.epoch)
      /\ \A c \in Connections : ~IsOpen(host', c) /\ host'.outbound[c] = <<>> /\ inbox'[c] = <<>>
  BY <1>1, <1>2, <1>3 DEF Hosts, IsOpen
<1> DEFINE ids == refused \cup fenced
<1>5. AInvs(host, inbox, client, work', applied, ids)
  BY <1>2, <1>3, IsSeated, WorkKeeps DEF AInv
<1>6. \A c \in Connections : Of(host'.outbound[c]) = {} /\ Of(inbox'[c]) = {} /\ \A id : Copies(host', inbox', c, id) = {}
  BY <1>4 DEF Of, Copies
<1> HIDE DEF ids
<1>7. Remembered(host', applied, ids, work')
  BY <1>4, <1>5 DEF AInvs, Remembered
<1>8. Numbered(host', inbox', client, work')
  BY <1>5, <1>6 DEF AInvs, Numbered
<1>9. \A i \in Clients : client[i].phase # "new" => client[i].conn \in Connections
  BY IsSeated DEF Seated
<1>10. Joined(host', inbox', client)
  BY <1>4, <1>6, <1>9 DEF Joined, IsJoining
<1>11. Tried(client)
  BY <1>5 DEF AInvs
<1>12. FirstTry(host', inbox', client)
  <2>1. ASSUME NEW i \in Clients, NEW id \in Nat, Sends(client[i], id) PROVE SentOnce(host', inbox', client[i], id)
    <3>1. client[i].conn \in Connections
      BY <1>9, <2>1 DEF Sends
    <3>2. Copies(host', inbox', client[i].conn, id) = {} /\ Of(host'.outbound[client[i].conn]) = {}
      BY <1>6, <3>1
    <3>3. QED
      BY <1>6, <3>2 DEF SentOnce
  <2>2. QED
    BY <2>1 DEF FirstTry
<1>13. SUFFICES ASSUME ~host'.forgot
                PROVE  Granteds(host', inbox', client) /\ Renewed(host', inbox', client)
                       /\ Refusals(host', inbox', client) /\ Finals(host', inbox', client, ids)
  BY <1>2, <1>7, <1>8, <1>10, <1>11, <1>12 DEF AInv, AInvs, ids
<1>14. ~host.forgot /\ epoch = host.epoch /\ host.epoch \in Nat /\ host'.epoch = host.epoch + 1
  <2>1. ~(host.forgot \/ epoch < host.epoch)
    BY <1>4, <1>13, Zenon
  <2>2. ~host.forgot /\ ~(epoch < host.epoch)
    BY <2>1, Zenon
  <2>3. host.saved \in Nat /\ host.epoch \in Nat
    BY <1>3, HostFields
  <2>4. epoch = host.epoch
    BY <1>1, <2>2, <2>3
  <2>5. QED
    BY <1>4, <2>2, <2>3, <2>4
<1>15. /\ Granteds(host, inbox, client) /\ Renewed(host, inbox, client)
       /\ Refusals(host, inbox, client) /\ Finals(host, inbox, client, ids)
  BY <1>5, <1>14 DEF AInvs
<1>16. Granteds(host', inbox', client)
  <2>1. ASSUME NEW i \in Clients
        PROVE  client[i].lease <= host'.epoch /\ (client[i].op # NoRequest => client[i].op.epoch <= host'.epoch)
    <3>1. client[i].lease \in Nat /\ (client[i].op # NoRequest => client[i].op.epoch \in Nat)
      BY <1>3, ClientFields, OperationFields
    <3>2. client[i].lease <= host.epoch /\ (client[i].op # NoRequest => client[i].op.epoch <= host.epoch)
      BY <1>15 DEF Granteds
    <3>3. QED
      BY <1>14, <3>1, <3>2
  <2>2. QED
    BY <1>6, <2>1 DEF Granteds
<1>17. Renewed(host', inbox', client)
  <2>1. ASSUME NEW i \in Clients, client[i].phase = "rejoining" PROVE Of(host'.outbound[client[i].conn]) = {}
    BY <1>6, <1>9, <2>1
  <2>2. QED
    BY <1>6, <2>1 DEF Renewed
<1>18. Refusals(host', inbox', client)
  <2>1. ASSUME NEW i \in Clients, NEW id \in Nat, Sends(client[i], id) PROVE Of(host'.outbound[client[i].conn]) = {}
    BY <1>6, <1>9, <2>1 DEF Sends
  <2>2. QED
    BY <2>1 DEF Refusals
<1>19. Finals(host', inbox', client, ids)
  <2>1. ASSUME NEW id \in ids PROVE Barred(host', inbox', client, id)
    <3>1. id \notin host'.committed
      BY <1>4, <1>15 DEF Finals, Barred
    <3>2. \A i \in Pumps : \A e : host'.driver # [owner |-> i, epoch |-> e]
      BY <1>4, Constants DEF NoLease
    <3>3. QED
      BY <1>6, <3>1, <3>2 DEF Barred
  <2>2. QED
    BY <1>15, <2>1 DEF Finals
<1>20. QED
  BY <1>16, <1>17, <1>18, <1>19

LEMMA OpenAInv ==
  ASSUME IInv, AInv, NEW i \in Clients, NEW request, \A q \in Of(request) : q.kind \notin Kinds,
         Open(i, opened + 1, request), NEW r, r = client[i],
         NEW t, t.conn = opened + 1, t.lease = r.lease, t.op = r.op \/ t.op = NoRequest,
         t.phase \in {"joining", "rejoining", "ready"}, t.phase # "rejoining" => t.op = NoRequest,
         t.phase = "ready" => t.attempt = 0, t.op # NoRequest => t.attempt > 0,
         client' = [client EXCEPT ![i] = t], UNCHANGED <<work, applied, refused, fenced>>
  PROVE  AInv'
<1> DEFINE c == opened + 1
           old == r.conn
           outbound == [k \in Connections |-> IF k = old THEN <<>> ELSE host.outbound[k]]
           h == [host EXCEPT !.outbound = outbound]
           ids == refused \cup fenced
<1>1. /\ c \in Connections
      /\ host' = [host EXCEPT !.owner[c] = i, !.outbound = outbound]
      /\ inbox' = [k \in Connections |->
           CASE k = c -> request
             [] k = old -> IF old \in cut \/ ~IsOpen(host, old) THEN inbox[k] ELSE Append(inbox[k], Closed)
             [] OTHER -> inbox[k]]
  BY DEF Open
<1>2. /\ host \in Hosts /\ inbox \in [Connections -> Seq(Requests)] /\ client \in [Clients -> ClientStates] /\ opened \in Nat
  BY DEF IInv, Sound
<1>3. \A j \in Clients : client[j].conn # c /\ (client[j].phase # "new" => client[j].conn \in Connections)
  <2>1. \A j \in Clients : client[j].conn \in Nat /\ client[j].conn <= opened
    BY <1>2, ClientFields DEF IInv, Placed
  <2>2. c > opened
    BY <1>2
  <2> HIDE DEF c
  <2>3. \A j \in Clients : client[j].conn # c
    BY <1>2, <2>1, <2>2
  <2>4. QED
    BY <2>3, IsSeated DEF Seated
<1>4. host.outbound[c] = <<>> /\ c # old
  <2>1. c > opened
    BY <1>2
  <2>2. QED
    BY <1>1, <1>3, <2>1 DEF IInv, Placed
<1>5. /\ \A k \in Connections : outbound[k] = (IF k = old THEN <<>> ELSE host.outbound[k])
  OBVIOUS
<1> HIDE DEF outbound, ids
<1>6. /\ h.owner = host.owner /\ h.subscribers = host.subscribers /\ h.driver = host.driver /\ h.epoch = host.epoch
      /\ h.forgot = host.forgot /\ h.committed = host.committed /\ h.outbound = outbound
      /\ host'.subscribers = host.subscribers /\ host'.driver = host.driver /\ host'.epoch = host.epoch
      /\ host'.forgot = host.forgot /\ host'.committed = host.committed /\ host'.outbound = outbound
      /\ \A k \in Connections \ {c} : host'.owner[k] = host.owner[k]
  BY <1>1, <1>2, HostFields DEF Hosts
<1> HIDE DEF h, c
<1>7. \A k \in Connections : Of(outbound[k]) \subseteq Of(host.outbound[k])
  BY <1>5 DEF Of
<1>8. inbox'[c] = request /\ Of(outbound[c]) = {}
  BY <1>1, <1>4, <1>5 DEF Of
<1>9. ASSUME NEW k \in Connections PROVE Thins(inbox[k], inbox'[k])
  <2>1. CASE k = c
    <3>1. \A x \in 1 .. Len(request) : request[x].kind \notin Kinds
      BY DEF Of
    <3>2. QED
      BY <1>8, <2>1, <3>1 DEF Thins
  <2>2. CASE k # c
    <3>1. inbox'[k] = inbox[k] \/ inbox'[k] = Append(inbox[k], Closed)
      BY <1>1, <2>2
    <3>2. QED
      BY <1>2, <3>1, ThinsSame, ThinsClosed
  <2>3. QED
    BY <2>1, <2>2
<1>10. IsLess(host, inbox, h, inbox')
  BY <1>6, <1>7, <1>9 DEF IsLess
<1>11. AInvs(h, inbox', client, work, applied, ids)
  BY <1>10, IsSeated, LessKeeps DEF AInv, ids
<1>12. AInvs(host', inbox', client, work, applied, ids)
  <2>1. IsOpened(h, inbox', client, c, host')
    BY <1>1, <1>3, <1>6, <1>8 DEF IsOpened
  <2>2. QED
    BY <1>11, <2>1, OpenKeeps
<1>13. IsCalm(host', inbox', r, t)
  <2>1. ~host'.forgot => t.lease <= host'.epoch
    BY <1>12 DEF AInvs, Granteds
  <2>2. (\A q \in Of(inbox'[t.conn]) : q.kind \notin Kinds) /\ Of(host'.outbound[t.conn]) = {}
    BY <1>6, <1>8 DEF c
  <2>3. QED
    BY <2>1, <2>2 DEF IsCalm
<1>14. Becomes(client, client', i, t)
  BY <1>2 DEF Becomes
<1>15. AInvs(host', inbox', client', work, applied, ids)
  BY <1>12, <1>13, <1>14, CalmKeeps
<1>16. QED
  BY <1>15 DEF AInv, ids

LEMMA ConnectAInv ==
  ASSUME IInv, AInv, NEW i \in Clients, NEW join \in Joins[i], Connect(i, join[1], join[2])
  PROVE  AInv'
<1> DEFINE r == client[i]
           c == opened + 1
           mode == join[1]
           force == join[2]
           ids == {0}
           request == <<Attach(mode, force, NoCursor)>>
           t == [r EXCEPT !.phase = "joining", !.conn = c, !.mode = mode, !.force = force, !.inflight = ids]
<1>1. /\ r.phase = "new" /\ Open(i, opened + 1, request) /\ client' = [client EXCEPT ![i] = t]
      /\ UNCHANGED <<work, applied, refused, fenced>>
  BY DEF Connect, history
<1>2. r \in ClientStates
  BY DEF IInv
<1>3. r.op = NoRequest
  BY <1>1 DEF AInv, AInvs, Tried
<1>4. \A q \in Of(request) : q.kind \notin Kinds
  BY DEF Of, Attach, Kinds
<1> HIDE DEF mode, force, ids, c, request
<1>5. t.phase = "joining" /\ t.conn = c /\ t.lease = r.lease /\ t.op = r.op
  BY <1>2 DEF ClientStates
<1> HIDE DEF t
<1>6. t.conn = opened + 1
  BY <1>5 DEF c
<1>7. QED
  BY <1>1, <1>3, <1>4, <1>5, <1>6, OpenAInv

LEMMA ReconnectAInv ==
  ASSUME IInv, AInv, NEW i \in Clients, Reconnect(i)
  PROVE  AInv'
<1> DEFINE r == client[i]
           c == opened + 1
           ids == {0}
           request == IF r.inflight = {} THEN <<Attach(r.mode, r.force, r.cursor)>> ELSE <<>>
           t == IF r.inflight = {} THEN [r EXCEPT !.phase = "rejoining", !.conn = c, !.inflight = ids]
                ELSE [r EXCEPT !.phase = "ready", !.conn = c, !.op = NoRequest, !.attempt = 0]
<1>1. /\ r.phase = "broken" /\ Open(i, opened + 1, request) /\ client' = [client EXCEPT ![i] = t]
      /\ UNCHANGED <<work, applied, refused, fenced>>
  BY DEF Reconnect, history
<1>2. r \in ClientStates
  BY DEF IInv
<1>3. r.op # NoRequest => r.attempt > 0
  BY <1>1 DEF AInv, AInvs, Tried
<1>4. \A q \in Of(request) : q.kind \notin Kinds
  BY DEF Of, Attach, Kinds
<1> HIDE DEF ids, c, request
<1>5. /\ t.conn = c /\ t.lease = r.lease
      /\ \/ t.phase = "rejoining" /\ t.op = r.op /\ t.attempt = r.attempt
         \/ t.phase = "ready" /\ t.op = NoRequest /\ t.attempt = 0
  <2>1. CASE r.inflight = {}
    <3>1. t = [r EXCEPT !.phase = "rejoining", !.conn = c, !.inflight = ids]
      BY <2>1
    <3> HIDE DEF t
    <3>2. QED
      BY <1>2, <3>1 DEF ClientStates
  <2>2. CASE r.inflight # {}
    <3>1. t = [r EXCEPT !.phase = "ready", !.conn = c, !.op = NoRequest, !.attempt = 0]
      BY <2>2
    <3> HIDE DEF t
    <3>2. QED
      BY <1>2, <3>1 DEF ClientStates
  <2>3. QED
    BY <2>1, <2>2
<1> HIDE DEF t
<1>6. t.conn = opened + 1
  BY <1>5 DEF c
<1>7. QED
  BY <1>1, <1>3, <1>4, <1>5, <1>6, OpenAInv

LEMMA AskAInv ==
  ASSUME IInv, AInv, NEW i \in Clients, NEW kind \in {"command", "acquire", "release"}, NEW force \in BOOLEAN, Ask(i, kind, force)
  PROVE  AInv'
<1> DEFINE r == client[i]
           c == r.conn
           q == Operation(kind, work + 1, force, r.lease)
           ids == {q.id}
           t == [r EXCEPT !.phase = "waiting", !.op = q, !.inflight = ids]
<1>1. /\ r.phase = "ready" /\ work' = work + 1
      /\ client' = [client EXCEPT ![i] = t] /\ inbox' = [inbox EXCEPT ![c] = Append(inbox[c], q)]
      /\ UNCHANGED <<host, applied, refused, fenced>>
  BY DEF Ask, Works, IInv, history
<1>2. r \in ClientStates /\ c # 0 /\ work \in Nat /\ client \in [Clients -> ClientStates]
  BY <1>1 DEF IInv, IsClient
<1>3. q \in Operations /\ q.id = work + 1 /\ q.epoch = r.lease
  <2>1. work + 1 \in Nat \ {0} /\ r.lease \in Nat
    BY <1>2, ClientFields
  <2>2. QED
    BY <2>1 DEF Operation, Operations
<1> HIDE DEF q, ids
<1>4. t.phase = "waiting" /\ t.op = q /\ t.conn = c /\ t.lease = r.lease /\ t.attempt = r.attempt
  BY <1>2 DEF ClientStates
<1> HIDE DEF t
<1>5. r.attempt = 0 /\ (~host.forgot => r.lease <= host.epoch)
  BY <1>1 DEF AInv, AInvs, Tried, Granteds
<1>6. \A j \in Clients \ {i} : client[j].conn # c
  BY <1>2 DEF IInv, Placed
<1>7. IsSent(host, work, client, i, t, work')
  BY <1>1, <1>3, <1>4, <1>5, <1>6 DEF IsSent
<1>8. Becomes(client, client', i, t) /\ inbox' = [inbox EXCEPT ![client[i].conn] = Append(inbox[client[i].conn], t.op)]
  BY <1>1, <1>2, <1>4 DEF Becomes
<1>9. AInvs(host, inbox', client', work', applied, refused \cup fenced)
  BY <1>7, <1>8, IsSeated, SentKeeps DEF AInv
<1>10. QED
  BY <1>1, <1>9 DEF AInv

LEMMA HandleAInv ==
  ASSUME IInv, AInv, NEW c \in Connections, Handle(c)
  PROVE  AInv'
<1> DEFINE q == Head(inbox[c])
           more == Fenced(host, host')
           ids == refused \cup fenced
<1>1. PICK order \in SetToSeqs(host.subscribers \cup {c}), n \in EventCounts \cup {0} :
        /\ host' = HandleRequest(host, c, q, n, order)
        /\ applied' = IF q.kind = "command" /\ Applies(host, c, q) THEN Append(applied, q.id) ELSE applied
  BY DEF Handle
<1>2. /\ inbox[c] # <<>> /\ fenced' = fenced \cup more /\ inbox' = [inbox EXCEPT ![c] = Tail(inbox[c])]
      /\ UNCHANGED <<client, work, refused>>
  BY DEF Handle
<1>3. /\ Sound(host) /\ Dated(host.log, host.sequence) /\ inbox \in [Connections -> Seq(Requests)] /\ n \in Nat
      /\ client \in [Clients -> ClientStates]
  BY <1>1, DeliveryAssumption DEF IInv
<1>4. q \in Requests /\ inbox'[c] = Tail(inbox[c]) /\ \A k \in Connections \ {c} : inbox'[k] = inbox[k]
  BY <1>2, <1>3, HeadTailProperties
<1> HIDE DEF q, more, ids
<1>5. Handled(host, host', c, q)
  BY <1>1, <1>3, <1>4, HandledRequest
<1>6. ASSUME NEW k \in Connections PROVE Thins(inbox[k], inbox'[k])
  <2>1. CASE k = c
    BY <1>2, <1>3, <1>4, <2>1, ThinsTail
  <2>2. CASE k # c
    BY <1>3, <1>4, <2>2, ThinsSame
  <2>3. QED
    BY <2>1, <2>2
<1>7. IsTurn(host, inbox, host', inbox', c, q)
  BY <1>2, <1>4, <1>5, <1>6 DEF IsTurn, q
<1>8. applied' = IF IsApplied(host, c, q) THEN Append(applied, q.id) ELSE applied
  BY <1>1 DEF IsApplied
<1>9. AInvs(host', inbox', client, work, applied', ids)
  BY <1>7, <1>8, IsSeated, TurnKeeps DEF AInv, ids
<1>10. Numbered(host', inbox', client, work)
  BY <1>9 DEF AInvs
<1>11. ASSUME NEW id \in more
       PROVE  /\ id \in Nat /\ id <= work /\ Barred(host', inbox', client, id)
              /\ \A j \in Blocking : client[j].op # NoRequest => client[j].op.id # id
  <2>1. PICK i \in Pumps : /\ client[i].op.kind = "command" /\ client[i].op.id = id /\ id \notin host'.committed
                           /\ host'.driver.owner \notin {i, NoClient}
    BY <1>11 DEF more, Fenced
  <2>2. i \in Clients /\ client[i].op # NoRequest
    BY <2>1, Constants DEF NoRequest
  <2>3. id \in Nat
    BY <1>3, <2>1, <2>2, ClientFields, OperationFields
  <2>4. /\ id <= work
        /\ \A j \in Clients \ {i} : client[j].op # NoRequest => client[j].op.id # id
        /\ \A k \in Connections : \A x \in Copies(host', inbox', k, id) : host'.owner[k] = i
    BY <1>10, <2>1, <2>2 DEF Numbered
  <2>5. \A e : host'.driver # [owner |-> i, epoch |-> e]
    BY <2>1
  <2>6. ASSUME NEW j \in Pumps, client[j].op.kind = "command", client[j].op.id = id
        PROVE  host'.driver # [owner |-> j, epoch |-> client[j].op.epoch]
    <3>1. j = i
      BY <2>4, <2>6, Constants DEF NoRequest
    <3>2. QED
      BY <2>5, <3>1
  <2>7. Barred(host', inbox', client, id)
    BY <2>1, <2>4, <2>5, <2>6 DEF Barred
  <2>8. ASSUME NEW j \in Blocking, client[j].op # NoRequest PROVE client[j].op.id # id
    BY <2>4, <2>8, Constants
  <2>9. QED
    BY <2>3, <2>4, <2>7, <2>8
<1>12. more \subseteq Nat /\ (\A id \in more : id <= work) /\ Finals(host', inbox', client, more)
  BY <1>11 DEF Finals
<1>13. AInvs(host', inbox', client, work, applied', ids \cup more)
  BY <1>9, <1>12, MoreFinals
<1>14. refused' \cup fenced' = ids \cup more
  BY <1>2 DEF ids
<1>15. QED
  BY <1>2, <1>13, <1>14 DEF AInv

LEMMA ReadAnswerAInv ==
  ASSUME IInv, AInv, NEW i \in Clients, ReadAnswer(i)
  PROVE  AInv'
<1> DEFINE m == Arriving(i)
           r == client[i]
           c == r.conn
           h == Taken(i)
           none == {}
           again == i \in Pumps /\ m.kind = "rejected" /\ CanRetry(r, i)
           g == [r EXCEPT !.inflight = none]
           f == [Finished(r) EXCEPT !.phase = "ready"]
           o == ObserveResult(f, i, r.op, m)
           t == IF again THEN Retry(g, i) ELSE o
           more == IF m.kind = "rejected" /\ r.op.kind = "command" /\ ~again THEN {m.id} ELSE {}
           ids == refused \cup fenced
<1>1. /\ HasArrived(i) /\ IsAnswer(r, m) /\ host' = h /\ r.phase = "waiting"
      /\ client' = [client EXCEPT ![i] = t] /\ refused' = refused \cup more
      /\ UNCHANGED <<inbox, work, applied, fenced>>
  BY DEF ReadAnswer
<1>2. r \in ClientStates /\ client \in [Clients -> ClientStates] /\ r.op \in Operations \cup {NoRequest} /\ none \in SUBSET Nat
  BY ClientFields DEF IInv
<1>3. IsLess(host, inbox, h, inbox) /\ c \in Connections /\ m \in Of(host.outbound[c]) /\ m \in Messages
  BY <1>1, TakenIsLess
<1>4. AInvs(h, inbox, client, work, applied, ids)
  BY <1>3, IsSeated, LessKeeps DEF AInv
<1>5. ~IsPush(m) /\ m.id = r.op.id
  BY <1>1 DEF IsAnswer, Awaited
<1> HIDE DEF none
<1>6. g \in ClientStates /\ g.op = r.op /\ g.lease = r.lease
  BY <1>2 DEF ClientStates
<1>7. f \in ClientStates /\ f.phase = "ready" /\ f.op = NoRequest /\ f.lease = r.lease /\ f.attempt = 0
  <2>1. "ready" \in Phases
    BY DEF Phases
  <2>2. QED
    BY <1>2, <1>3, <2>1, FinishedIs, AttemptsAre DEF Unmoved
<1> HIDE DEF f, g, h, m, ids
<1>8. /\ o.phase = "ready" /\ o.op = NoRequest /\ o.attempt = 0
      /\ o.lease = r.lease \/ (m.kind = "driven" /\ o.lease = Says(m, i))
  <2>1. /\ o.phase = f.phase /\ o.op = f.op
        /\ m.kind = "driven" => o.lease = Says(m, i)
        /\ m.kind # "driven" => o.lease = f.lease
    BY <1>2, <1>3, <1>7, ObserveResultIs
  <2>2. o.attempt = f.attempt
    BY <1>7 DEF ObserveResult, ObserveDriver, ClientStates
  <2>3. QED
    BY <1>7, <2>1, <2>2
<1> HIDE DEF o
<1>9. ~host.forgot /\ m.kind = "driven" => Says(m, i) <= host.epoch
  <2>1. m.kind = "driven" /\ ~host.forgot => m.lease.epoch <= host.epoch /\ 0 <= host.epoch
    BY <1>3, HostFields DEF AInv, AInvs, Granteds, IInv, Sound
  <2>2. QED
    BY <2>1 DEF Says
<1>10. /\ \/ t.phase = "ready" /\ t.op = NoRequest /\ t.attempt = 0
          \/ again /\ t.phase = "broken" /\ t.op = r.op /\ t.attempt > 0
       /\ t.lease = r.lease \/ (m.kind = "driven" /\ t.lease = Says(m, i))
  <2>1. CASE again
    <3>1. t = Retry(g, i)
      BY <2>1
    <3> HIDE DEF t, again
    <3>2. QED
      BY <1>3, <1>6, <2>1, <3>1, RetryIs, AttemptsAre DEF Unmoved
  <2>2. CASE ~again
    BY <1>8, <2>2
  <2>3. QED
    BY <2>1, <2>2
<1> HIDE DEF t
<1>11. ~h.forgot /\ t.lease # r.lease => t.lease <= h.epoch
  BY <1>3, <1>9, <1>10 DEF IsLess
<1>12. IsCalm(h, inbox, r, t)
  BY <1>4, <1>10, <1>11, CalmCases
<1>13. Becomes(client, client', i, t)
  BY <1>1, <1>2 DEF Becomes
<1>14. AInvs(h, inbox, client', work, applied, ids)
  BY <1>4, <1>12, <1>13, CalmKeeps
<1>15. ASSUME m.kind = "rejected", r.op.kind = "command", ~again
       PROVE  /\ m.id \in Nat /\ m.id <= work
              /\ ~h.forgot => Finals(h, inbox, client', {m.id})
  <2> DEFINE id == m.id
  <2>1. r.op # NoRequest /\ id \in Nat /\ m = Rejected(id) /\ r.op.id = id /\ Sends(r, id)
    BY <1>1, <1>2, <1>3, <1>5, <1>15, MessageFields, OperationFields DEF Sends, NoRequest
  <2>2. id <= work /\ \A j \in Clients \ {i} : client[j].op # NoRequest => client[j].op.id # id
    BY <2>1 DEF AInv, AInvs, Numbered
  <2>3. t.op = NoRequest
    BY <1>10, <1>15
  <2>4. ASSUME NEW j \in Clients, client'[j].op # NoRequest PROVE client'[j].op.id # id
    BY <1>13, <2>2, <2>3, <2>4 DEF Becomes
  <2>5. SUFFICES ASSUME ~h.forgot PROVE Finals(h, inbox, client', {id})
    BY <2>1, <2>2
  <2>6. /\ id \notin host.committed
        /\ \A k \in Connections : \A q \in Copies(host, inbox, k, id) : host.driver # [owner |-> host.owner[k], epoch |-> q.epoch]
    <3>1. CASE r.attempt = 0
      <4>1. SentOnce(host, inbox, r, id)
        BY <2>1, <3>1 DEF AInv, AInvs, FirstTry
      <4>2. id \notin host.committed
        BY <1>3, <2>1, <4>1 DEF SentOnce
      <4>3. ASSUME NEW k \in Connections, NEW q \in Copies(host, inbox, k, id) PROVE FALSE
        BY <1>3, <1>5, <4>1, <4>3 DEF SentOnce
      <4>4. QED
        BY <4>2, <4>3
    <3>2. CASE r.attempt # 0
      <4>1. r.attempt > 0
        BY <1>2, <3>2, ClientFields
      <4>2. ~host.forgot
        BY <1>3, <2>5 DEF IsLess
      <4>3. Refusals(host, inbox, client)
        BY <4>2 DEF AInv, AInvs
      <4>4. Barred(host, inbox, client, id)
        BY <1>3, <2>1, <4>1, <4>3 DEF Refusals
      <4>5. QED
        BY <4>4 DEF Barred
    <3>3. QED
      BY <3>1, <3>2
  <2>7. \A k \in Connections : Copies(h, inbox, k, id) = Copies(host, inbox, k, id)
    BY <1>3 DEF IsLess, Copies, IsOpen
  <2>8. ASSUME NEW j \in Pumps, client'[j].op.kind = "command" PROVE client'[j].op.id # id
    BY <2>4, <2>8, Constants DEF NoRequest
  <2>9. Barred(h, inbox, client', id)
    BY <1>3, <2>6, <2>7, <2>8 DEF Barred, IsLess
  <2>10. \A j \in Blocking : client'[j].op # NoRequest => client'[j].op.id # id
    BY <2>4, Constants
  <2>11. QED
    BY <2>9, <2>10 DEF Finals
<1>16. more \subseteq Nat /\ (\A id \in more : id <= work) /\ (~h.forgot => Finals(h, inbox, client', more))
  <2>1. CASE more = {m.id} /\ m.kind = "rejected" /\ r.op.kind = "command" /\ ~again
    BY <1>15, <2>1
  <2>2. CASE more = {}
    BY <2>2 DEF Finals
  <2>3. QED
    BY <2>1, <2>2
<1> HIDE DEF more
<1>17. AInvs(h, inbox, client', work, applied, ids \cup more)
  BY <1>14, <1>16, MoreFinals
<1>18. refused' \cup fenced' = ids \cup more
  BY <1>1 DEF ids
<1>19. QED
  BY <1>1, <1>17, <1>18 DEF AInv

\* What an attachment lets a client do: give its operation up, or send it.
LEMMA ResumeSends ==
  ASSUME NEW i \in Clients, NEW a \in ClientStates, NEW r, client \in [Clients -> ClientStates], Resume(i, a, r)
  PROVE  \E t :
    /\ client' = [client EXCEPT ![i] = t] /\ t.conn = a.conn /\ t.lease = a.lease
    /\ \/ t.phase = "ready" /\ t.op = NoRequest /\ t.attempt = 0 /\ inbox' = inbox
       \/ /\ t.phase = "waiting" /\ a.op # NoRequest /\ t.attempt = a.attempt
          /\ t.op \in Operations /\ t.op.id = a.op.id /\ t.op.kind = a.op.kind
          /\ IF i \in Blocking /\ a.op.kind = "command" THEN t.op.epoch = a.lease /\ a.lease # 0 ELSE t.op = a.op
          /\ inbox' = [inbox EXCEPT ![a.conn] = Append(inbox[a.conn], t.op)]
<1>1. CASE a.op = NoRequest \/ Overflows(a) \/ (i \in Blocking /\ a.op.kind = "command" /\ a.lease = 0)
  <2> DEFINE u == Unbuffered(a)
             t == [Finished(u) EXCEPT !.phase = "ready"]
  <2>1. client' = [client EXCEPT ![i] = t] /\ inbox' = inbox
    BY <1>1 DEF Resume
  <2>2. u \in ClientStates /\ Unmoved(a, u)
    BY UnbufferedIs
  <2> HIDE DEF u
  <2>3. "ready" \in Phases
    BY DEF Phases
  <2>4. t.phase = "ready" /\ t.op = NoRequest /\ Unmoved(u, t) /\ t.attempt = 0
    BY <2>2, <2>3, FinishedIs, AttemptsAre, MessageTypes
  <2> HIDE DEF t
  <2>5. QED
    BY <2>1, <2>2, <2>4 DEF Unmoved
<1>2. CASE ~(a.op = NoRequest \/ Overflows(a) \/ (i \in Blocking /\ a.op.kind = "command" /\ a.lease = 0))
  <2> DEFINE u == Unbuffered(a)
             next == Refreshed(u, i)
             sent == {a.op.id}
             t == [next EXCEPT !.phase = "waiting", !.inflight = sent]
  <2>1. client' = [client EXCEPT ![i] = t] /\ inbox' = [inbox EXCEPT ![a.conn] = Append(inbox[a.conn], next.op)]
    BY <1>2 DEF Resume
  <2>2. u \in ClientStates /\ Unmoved(a, u) /\ u.op = a.op
    BY UnbufferedIs
  <2>3. u.attempt = a.attempt
    BY DEF Unbuffered, ClientStates
  <2> HIDE DEF u
  <2>4. a.op \in Operations /\ a.lease \in Nat
    BY <1>2, ClientFields, OperationFields
  <2>5. next \in ClientStates /\ Unmoved(u, next)
    BY <2>2, RefreshedIs
  <2>6. /\ next.attempt = u.attempt /\ next.op.id = a.op.id /\ next.op.kind = a.op.kind /\ next.op \in Operations
        /\ IF i \in Blocking /\ a.op.kind = "command" THEN next.op.epoch = a.lease /\ a.lease # 0 ELSE next.op = a.op
    <3>1. CASE i \in Blocking /\ a.op.kind = "command"
      <4> DEFINE op == [a.op EXCEPT !.epoch = a.lease]
      <4>1. next = [u EXCEPT !.op.epoch = u.lease]
        BY <1>2, <2>2, <3>1 DEF Refreshed
      <4>2. next = [u EXCEPT !.op = op]
        BY <2>2, <4>1 DEF Unmoved
      <4>3. op \in Operations /\ op.id = a.op.id /\ op.kind = a.op.kind /\ op.epoch = a.lease
        BY <2>4 DEF Operations
      <4> HIDE DEF op, next
      <4>4. next.op = op /\ next.attempt = u.attempt
        BY <2>2, <4>2 DEF ClientStates
      <4>5. QED
        BY <1>2, <3>1, <4>3, <4>4
    <3>2. CASE ~(i \in Blocking /\ a.op.kind = "command")
      <4>1. next = u
        BY <2>2, <3>2 DEF Refreshed
      <4> HIDE DEF next
      <4>2. QED
        BY <2>2, <2>4, <3>2, <4>1
    <3>3. QED
      BY <3>1, <3>2
  <2> HIDE DEF next, sent
  <2>7. t.phase = "waiting" /\ t.op = next.op /\ t.attempt = next.attempt /\ t.conn = next.conn /\ t.lease = next.lease
    BY <2>5 DEF ClientStates
  <2> HIDE DEF t
  <2>8. QED
    BY <1>2, <2>1, <2>2, <2>3, <2>5, <2>6, <2>7 DEF Unmoved
<1>3. QED
  BY <1>1, <1>2

LEMMA ReadAttachedAInv ==
  ASSUME IInv, AInv, NEW i \in Clients, ReadAttached(i)
  PROVE  AInv'
<1> DEFINE m == Arriving(i)
           r == client[i]
           c == r.conn
           h == Taken(i)
           ids == refused \cup fenced
<1>1. /\ HasArrived(i) /\ IsAnswer(r, m) /\ host' = h /\ r.phase \in {"joining", "rejoining"}
      /\ UNCHANGED <<work, applied, refused, fenced>>
  BY DEF ReadAttached, history
<1>2. r \in ClientStates /\ client \in [Clients -> ClientStates] /\ c # 0
  BY <1>1 DEF IInv, IsClient
<1>3. /\ IsLess(host, inbox, h, inbox) /\ Seated(h, inbox, client, work)
      /\ c \in Connections /\ m \in Of(host.outbound[c]) /\ m \in Messages
  BY <1>1, TakenIsLess
<1>4. AInvs(h, inbox, client, work, applied, ids)
  BY <1>3, IsSeated, LessKeeps DEF AInv
<1>5. Tried(client) /\ Joined(host, inbox, client)
  BY DEF AInv, AInvs
<1>6. ~host.forgot => Granteds(host, inbox, client) /\ Renewed(host, inbox, client)
  BY DEF AInv, AInvs
<1>7. CASE m.kind = "attached"
  <2> DEFINE a == [Attach0(r, m) EXCEPT !.tries = 0]
  <2>1. a \in ClientStates /\ a.conn = c /\ a.op = r.op /\ a.lease = m.epoch
    BY <1>2, <1>3, <1>7, Attach0Is
  <2>2. a.attempt = r.attempt
    BY <1>2 DEF Attach0, ClientStates
  <2>3. Resume(i, a, r)
    BY <1>7 DEF ReadAttached
  <2> HIDE DEF a
  <2>4. PICK t :
    /\ client' = [client EXCEPT ![i] = t] /\ t.conn = a.conn /\ t.lease = a.lease
    /\ \/ t.phase = "ready" /\ t.op = NoRequest /\ t.attempt = 0 /\ inbox' = inbox
       \/ /\ t.phase = "waiting" /\ a.op # NoRequest /\ t.attempt = a.attempt
          /\ t.op \in Operations /\ t.op.id = a.op.id /\ t.op.kind = a.op.kind
          /\ IF i \in Blocking /\ a.op.kind = "command" THEN t.op.epoch = a.lease /\ a.lease # 0 ELSE t.op = a.op
          /\ inbox' = [inbox EXCEPT ![a.conn] = Append(inbox[a.conn], t.op)]
    BY <1>2, <2>1, <2>3, ResumeSends
  <2>5. Becomes(client, client', i, t)
    BY <1>2, <2>4 DEF Becomes
  <2>6. ~h.forgot => ~host.forgot /\ m.epoch <= h.epoch
    BY <1>3, <1>6, <1>7 DEF IsLess, Granteds
  <2>7. CASE t.phase = "ready" /\ t.op = NoRequest /\ t.attempt = 0 /\ inbox' = inbox
    <3>1. ~h.forgot /\ t.lease # r.lease => t.lease <= h.epoch
      BY <2>1, <2>4, <2>6
    <3> HIDE DEF h
    <3>2. IsCalm(h, inbox, r, t)
      BY <1>4, <2>7, <3>1, CalmCases
    <3>3. AInvs(h, inbox, client', work, applied, ids)
      BY <1>4, <2>5, <3>2, CalmKeeps
    <3>4. QED
      BY <1>1, <2>7, <3>3 DEF AInv
  <2>8. CASE /\ t.phase = "waiting" /\ a.op # NoRequest /\ t.attempt = a.attempt
             /\ t.op \in Operations /\ t.op.id = a.op.id /\ t.op.kind = a.op.kind
             /\ IF i \in Blocking /\ a.op.kind = "command" THEN t.op.epoch = a.lease /\ a.lease # 0 ELSE t.op = a.op
             /\ inbox' = [inbox EXCEPT ![a.conn] = Append(inbox[a.conn], t.op)]
    <3>1. r.op # NoRequest /\ r.phase = "rejoining" /\ t.attempt > 0 /\ t.attempt # 0
      <4>1. r.op # NoRequest /\ t.attempt = r.attempt
        BY <2>1, <2>2, <2>8
      <4>2. r.phase = "rejoining" /\ r.attempt > 0
        BY <1>1, <1>5, <4>1 DEF Tried
      <4>3. r.attempt \in Nat
        BY <1>2, ClientFields
      <4>4. QED
        BY <4>1, <4>2, <4>3
    <3>2. \A j \in Clients \ {i} : client[j].conn # c
      BY <1>2 DEF IInv, Placed
    <3>3. IsOpen(h, c) => c \in h.subscribers
      BY <1>3, <1>5, <1>7 DEF IsLess, IsOpen, Joined
    <3>4. i \in Pumps => r.op.kind = "command"
      <4>1. i \in Pumps => IsPump(r)
        BY DEF IInv, Attends
      <4>2. QED
        BY <3>1, <4>1 DEF IsPump
    <3>5. ~h.forgot => t.lease <= h.epoch /\ t.op.epoch <= h.epoch
      <4>1. ~h.forgot => m.epoch <= h.epoch /\ r.op.epoch <= h.epoch
        BY <1>3, <1>6, <2>6, <3>1 DEF IsLess, Granteds
      <4>2. t.lease = m.epoch /\ (t.op.epoch = m.epoch \/ t.op = r.op)
        BY <2>1, <2>4, <2>8
      <4>3. QED
        BY <4>1, <4>2
    <3>6. ~h.forgot /\ r.op.kind = "command" => r.op.epoch <= t.op.epoch /\ (i \in Pumps => t.op.epoch = r.op.epoch)
      <4>1. SUFFICES ASSUME ~h.forgot, r.op.kind = "command"
                     PROVE  r.op.epoch <= t.op.epoch /\ (i \in Pumps => t.op.epoch = r.op.epoch)
        OBVIOUS
      <4>2. r.op.epoch \in Nat
        BY <1>2, <3>1, ClientFields, OperationFields
      <4>3. CASE i \in Blocking
        <5>1. t.op.epoch = m.epoch /\ m.epoch # 0 /\ i \notin Pumps
          BY <2>1, <2>8, <4>1, <4>3, Constants
        <5>2. r.op.epoch <= m.epoch
          BY <1>3, <1>6, <1>7, <2>6, <3>1, <4>1, <5>1 DEF Renewed
        <5>3. QED
          BY <5>1, <5>2
      <4>4. CASE i \notin Blocking
        <5>1. t.op = r.op
          BY <2>1, <2>8, <4>4
        <5>2. QED
          BY <4>2, <5>1
      <4>5. QED
        BY <4>3, <4>4
    <3>7. t.phase = "waiting" /\ t.conn = c /\ t.op \in Operations /\ t.op.id = r.op.id /\ t.op.kind = r.op.kind
      BY <2>1, <2>4, <2>8
    <3> HIDE DEF h
    <3>8. IsSent(h, work, client, i, t, work)
      BY <3>1, <3>2, <3>3, <3>4, <3>5, <3>6, <3>7 DEF IsSent
    <3>9. inbox' = [inbox EXCEPT ![client[i].conn] = Append(inbox[client[i].conn], t.op)]
      BY <2>1, <2>8
    <3>10. AInvs(h, inbox', client', work, applied, ids)
      BY <1>3, <1>4, <2>5, <3>8, <3>9, SentKeeps
    <3>11. QED
      BY <1>1, <3>10 DEF AInv
  <2>9. QED
    BY <2>4, <2>7, <2>8
<1>8. CASE m.kind # "attached"
  <2> DEFINE none == {}
             g == [r EXCEPT !.inflight = none]
             t == IF r.phase = "joining" THEN [r EXCEPT !.phase = "failed"] ELSE RejoinFailed(g, i)
  <2>1. client' = [client EXCEPT ![i] = t] /\ inbox' = inbox
    BY <1>8 DEF ReadAttached
  <2>2. none \in SUBSET Nat
    OBVIOUS
  <2> HIDE DEF none
  <2>3. g \in ClientStates /\ g.op = r.op /\ g.lease = r.lease /\ g.attempt = r.attempt
    BY <1>2, <2>2 DEF ClientStates
  <2> HIDE DEF g
  <2>4. /\ t.lease = r.lease
        /\ \/ t.phase \in {"ready", "failed"} /\ t.op = NoRequest /\ (t.phase = "ready" => t.attempt = 0)
           \/ t.phase = "broken" /\ t.op = r.op /\ (t.op # NoRequest => t.attempt > 0)
    <3>1. CASE r.phase = "joining"
      <4>1. t = [r EXCEPT !.phase = "failed"] /\ r.op = NoRequest
        BY <1>5, <3>1 DEF Tried
      <4> HIDE DEF t
      <4>2. QED
        BY <1>2, <4>1 DEF ClientStates
    <3>2. CASE r.phase = "rejoining"
      <4>1. t = RejoinFailed(g, i) /\ (r.op # NoRequest => r.attempt > 0)
        BY <1>5, <3>2 DEF Tried
      <4> HIDE DEF t
      <4>2. QED
        BY <1>3, <2>3, <4>1, RejoinFailedIs, AttemptsAre DEF Unmoved
    <3>3. QED
      BY <1>1, <3>1, <3>2
  <2> HIDE DEF t, h
  <2>5. IsCalm(h, inbox, r, t)
    BY <1>4, <2>4, CalmCases
  <2>6. Becomes(client, client', i, t)
    BY <1>2, <2>1 DEF Becomes
  <2>7. AInvs(h, inbox, client', work, applied, ids)
    BY <1>4, <2>5, <2>6, CalmKeeps
  <2>8. QED
    BY <1>1, <2>1, <2>7 DEF AInv
<1>9. QED
  BY <1>7, <1>8

LEMMA NextAInv == IInv /\ AInv /\ [Next]_vars => AInv'
<1> SUFFICES ASSUME IInv, AInv, [Next]_vars PROVE AInv'
  OBVIOUS
<1>1. CASE UNCHANGED vars
  BY <1>1 DEF vars, AInv
<1>2. ASSUME NEW i \in Clients, NEW join \in Joins[i], Connect(i, join[1], join[2]) PROVE AInv'
  BY <1>2, ConnectAInv
<1>3. ASSUME NEW i \in Clients, NEW kind \in {"command", "acquire", "release"}, NEW force \in BOOLEAN, Ask(i, kind, force)
      PROVE  AInv'
  BY <1>3, AskAInv
<1>4. ASSUME NEW i \in Clients, Proceed(i) PROVE AInv'
  BY <1>4, ReadPushAInv, ReadAttachedAInv, ReadAnswerAInv, ConsumeAInv, LostAInv, ReconnectAInv DEF Proceed
<1>5. ASSUME NEW i \in Clients, TimeOut(i) PROVE AInv'
  BY <1>5, TimeOutAInv
<1>6. ASSUME NEW i \in Clients, Break(i) PROVE AInv'
  BY <1>6, BreakAInv
<1>7. ASSUME NEW c \in Connections, Handle(c) PROVE AInv'
  BY <1>7, HandleAInv
<1>8. ASSUME Publish PROVE AInv'
  BY <1>8, PublishAInv
<1>9. ASSUME ReplaceLeader PROVE AInv'
  BY <1>9, ReplaceLeaderAInv
<1>10. QED
  BY <1>1, <1>2, <1>3, <1>4, <1>5, <1>6, <1>7, <1>8, <1>9 DEF Next

LEMMA InitAInv == Init => AInv
<1> SUFFICES ASSUME Init PROVE AInv
  OBVIOUS
<1>1. /\ \A c \in Connections : host.outbound[c] = <<>> /\ inbox[c] = <<>> /\ ~IsOpen(host, c)
      /\ host.committed = {} /\ host.epoch = 0 /\ host.driver = NoLease
      /\ work = 0 /\ applied = <<>> /\ refused = {} /\ fenced = {}
      /\ \A i \in Clients : client[i] = NewClient
  BY DEF Init, IsOpen
<1>2. \A c \in Connections : Of(host.outbound[c]) = {} /\ Of(inbox[c]) = {} /\ \A id : Copies(host, inbox, c, id) = {}
  BY <1>1 DEF Of, Copies
<1>3. /\ NewClient.phase = "new" /\ NewClient.op = NoRequest /\ NewClient.attempt = 0 /\ NewClient.lease = 0
      /\ NoRequest.kind = "none"
  BY DEF NewClient, NoRequest
<1>4. Remembered(host, applied, {}, work)
  BY <1>1, EmptySeq DEF Remembered
<1>5. Numbered(host, inbox, client, work) /\ Joined(host, inbox, client) /\ Tried(client)
  BY <1>1, <1>2, <1>3 DEF Numbered, Joined, Tried, IsJoining
<1>6. FirstTry(host, inbox, client)
  BY <1>1, <1>3 DEF FirstTry, Sends
<1>7. Granteds(host, inbox, client)
  <2>1. \A i \in Clients : client[i].lease <= host.epoch /\ client[i].op = NoRequest
    BY <1>1, <1>3
  <2>2. QED
    BY <1>2, <2>1 DEF Granteds
<1>8. Renewed(host, inbox, client)
  <2>1. \A i \in Clients : client[i].op.kind # "command"
    BY <1>1, <1>3
  <2>2. QED
    BY <2>1 DEF Renewed
<1>9. Refusals(host, inbox, client)
  <2>1. \A i \in Clients : client[i].attempt = 0
    BY <1>1, <1>3
  <2>2. QED
    BY <2>1 DEF Refusals
<1>10. Finals(host, inbox, client, {})
  BY DEF Finals
<1>11. QED
  BY <1>1, <1>4, <1>5, <1>6, <1>7, <1>8, <1>9, <1>10 DEF AInv, AInvs

LEMMA OnceApplied == AInv => AppliedOnce
<1> SUFFICES ASSUME AInv PROVE AppliedOnce
  OBVIOUS
<1>1. /\ applied \in Seq(Nat) /\ \A j, k \in 1 .. Len(applied) : applied[j] = applied[k] => j = k
      /\ \A k \in 1 .. Len(applied) : applied[k] \in host.committed
  BY DEF AInv, AInvs, Remembered
<1>2. DOMAIN applied = 1 .. Len(applied)
  BY <1>1
<1>3. Range(applied) \subseteq host.committed
  BY <1>1, <1>2 DEF Range
<1>4. ASSUME ~host.forgot PROVE (refused \cup fenced) \cap Range(applied) = {}
  <2>1. \A id \in refused \cup fenced : id \notin host.committed
    BY <1>4 DEF AInv, AInvs, Finals, Barred
  <2>2. QED
    BY <1>3, <2>1
<1>5. QED
  BY <1>1, <1>2, <1>4 DEF AppliedOnce

(***************************************************************************)
(* No command is applied twice, however often it is resent and whoever     *)
(* leads.  And unless a new leader has forgotten epochs: a command that a  *)
(* client reports as refused was not applied and never will be, nor will   *)
(* one of a pump that was under way when its lease was taken over (the     *)
(* ids that apply_transition remembers and authorize, core.rs; the retries *)
(* of client.rs and blocking.rs).                                          *)
(***************************************************************************)
THEOREM CommandsApplyOnce == Spec => []AppliedOnce
<1>1. Init => IInv /\ AInv
  BY InitInv, InitAInv
<1>2. IInv /\ AInv /\ [Next]_vars => IInv' /\ AInv'
  BY NextInv, NextAInv
<1>3. IInv /\ AInv => AppliedOnce
  BY OnceApplied
<1>4. QED
  BY <1>1, <1>2, <1>3, PTL DEF Spec
=============================================================================
