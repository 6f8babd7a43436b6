------------------------- MODULE ShellSession_proofs ------------------------
(***************************************************************************)
(* Proofs about ShellSession, for any lines, any number of submissions and *)
(* any number of faults: the worker starts a command once, in the order of *)
(* the submissions, and is never asked for a command in two ways.          *)
(***************************************************************************)
EXTENDS ShellSession, SequenceTheorems, TLAPS

-----------------------------------------------------------------------------
(* Increasing queues of tickets *)

Ticket == Nat \ {0}

Increasing(p) ==
  /\ p \in Seq(Ticket)
  /\ \A i, j \in 1 .. Len(p) : i < j => p[i] < p[j]

LEMMA RangeIs ==
  ASSUME NEW p \in Seq(Ticket)
  PROVE  /\ \A i \in 1 .. Len(p) : p[i] \in Range(p)
         /\ \A t \in Range(p) : \E i \in 1 .. Len(p) : t = p[i]
  BY LenProperties DEF Range

(* What is left of a queue without its first k entries. *)
LEMMA DropIncreasing ==
  ASSUME NEW p, Increasing(p), NEW k \in 0 .. Len(p)
  PROVE  LET q == SubSeq(p, k + 1, Len(p)) IN
         /\ Increasing(q)
         /\ Range(q) \subseteq Range(p)
         /\ Len(q) = Len(p) - k
         /\ k > 0 => \A t \in Range(q) : p[1] < t
<1> DEFINE q == SubSeq(p, k + 1, Len(p))
<1>1. p \in Seq(Ticket) /\ Len(p) \in Nat
  BY LenProperties DEF Increasing
<1>2. \A i \in k + 1 .. Len(p) : p[i] \in Ticket
  BY <1>1, ElementOfSeq
<1>3. /\ q \in Seq(Ticket)
      /\ Len(q) = Len(p) - k
      /\ \A i \in 1 .. Len(p) - k : q[i] = p[k + i]
  <2>1. /\ q \in Seq(Ticket)
        /\ Len(q) = IF k + 1 <= Len(p) THEN Len(p) - (k + 1) + 1 ELSE 0
        /\ \A i \in 1 .. Len(p) - (k + 1) + 1 : q[i] = p[(k + 1) + i - 1]
    BY <1>1, <1>2, SubSeqProperties
  <2>2. QED
    BY <1>1, <2>1
<1> HIDE DEF q
<1>4. Increasing(q)
  <2> SUFFICES ASSUME NEW i \in 1 .. Len(p) - k, NEW j \in 1 .. Len(p) - k, i < j
               PROVE  q[i] < q[j]
    BY <1>3 DEF Increasing
  <2>1. k + i \in 1 .. Len(p) /\ k + j \in 1 .. Len(p) /\ k + i < k + j
    BY <1>1
  <2>2. p[k + i] < p[k + j]
    BY <2>1 DEF Increasing
  <2>3. QED
    BY <1>3, <2>2
<1>r. /\ \A t \in Range(q) : \E i \in 1 .. Len(p) - k : t = q[i]
      /\ \A i \in 1 .. Len(p) : p[i] \in Range(p)
  <2>1. \A t \in Range(q) : \E i \in 1 .. Len(q) : t = q[i]
    BY <1>3, RangeIs
  <2>2. \A i \in 1 .. Len(p) : p[i] \in Range(p)
    BY <1>1, RangeIs
  <2>3. QED
    BY <1>3, <2>1, <2>2
<1>5. Range(q) \subseteq Range(p)
  BY <1>1, <1>3, <1>r
<1>6. ASSUME k > 0, NEW t \in Range(q) PROVE p[1] < t
  <2>1. PICK i \in 1 .. Len(p) - k : t = p[k + i]
    BY <1>3, <1>r, <1>6
  <2>2. QED
    BY <1>1, <1>6, <2>1 DEF Increasing
<1>7. QED
  BY <1>3, <1>4, <1>5, <1>6 DEF q

LEMMA TailIncreasing ==
  ASSUME NEW p, Increasing(p), p # <<>>
  PROVE  /\ Increasing(Tail(p))
         /\ Range(Tail(p)) \subseteq Range(p)
         /\ Head(p) \in Range(p)
         /\ \A t \in Range(Tail(p)) : Head(p) < t
<1>1. p \in Seq(Ticket) /\ Len(p) \in Nat \ {0}
  BY EmptySeq DEF Increasing
<1>2. Tail(p) = SubSeq(p, 1 + 1, Len(p))
  BY <1>1, TailIsSubSeq
<1>3. Head(p) = p[1] /\ Head(p) \in Range(p)
  BY <1>1, RangeIs
<1>4. /\ Increasing(Tail(p)) /\ Range(Tail(p)) \subseteq Range(p)
      /\ \A t \in Range(Tail(p)) : p[1] < t
  <2>1. 1 \in 0 .. Len(p) /\ 1 > 0
    BY <1>1
  <2>2. QED
    BY <1>2, <2>1, DropIncreasing
<1>5. QED
  BY <1>3, <1>4

(* The head is the least entry. *)
LEMMA HeadIsLeast ==
  ASSUME NEW p, Increasing(p), p # <<>>, NEW t \in Range(p)
  PROVE  Head(p) <= t
<1>1. p \in Seq(Ticket) /\ Len(p) \in Nat \ {0}
  BY EmptySeq DEF Increasing
<1>2. PICK i \in 1 .. Len(p) : t = p[i]
  BY <1>1, RangeIs
<1>3. p[1] \in Nat /\ Head(p) = p[1]
  BY <1>1, ElementOfSeq DEF Ticket
<1>4. p[i] \in Nat
  BY <1>1, ElementOfSeq DEF Ticket
<1>5. 1 < i => p[1] < p[i]
  BY <1>1, <1>2 DEF Increasing
<1>6. QED
  BY <1>1, <1>2, <1>3, <1>4, <1>5

LEMMA RemoveIncreasing ==
  ASSUME NEW p, Increasing(p), NEW k \in 1 .. Len(p)
  PROVE  Increasing(RemoveAt(p, k)) /\ Range(RemoveAt(p, k)) \subseteq Range(p)
<1> DEFINE a == SubSeq(p, 1, k - 1)
           b == SubSeq(p, k + 1, Len(p))
<1>1. p \in Seq(Ticket) /\ Len(p) \in Nat
  BY LenProperties DEF Increasing
<1>2. \A i \in 1 .. Len(p) : p[i] \in Ticket
  BY <1>1, ElementOfSeq
<1>3. a \in Seq(Ticket) /\ Len(a) = k - 1 /\ \A i \in 1 .. k - 1 : a[i] = p[i]
  <2>1. /\ a \in Seq(Ticket)
        /\ Len(a) = IF 1 <= k - 1 THEN (k - 1) - 1 + 1 ELSE 0
        /\ \A i \in 1 .. (k - 1) - 1 + 1 : a[i] = p[1 + i - 1]
    BY <1>1, <1>2, SubSeqProperties
  <2>2. QED
    BY <1>1, <2>1
<1>4. b \in Seq(Ticket) /\ Len(b) = Len(p) - k /\ \A i \in 1 .. Len(p) - k : b[i] = p[k + i]
  <2>1. /\ b \in Seq(Ticket)
        /\ Len(b) = IF k + 1 <= Len(p) THEN Len(p) - (k + 1) + 1 ELSE 0
        /\ \A i \in 1 .. Len(p) - (k + 1) + 1 : b[i] = p[(k + 1) + i - 1]
    BY <1>1, <1>2, SubSeqProperties
  <2>2. QED
    BY <1>1, <2>1
<1> HIDE DEF a, b
<1>5. /\ a \o b \in Seq(Ticket)
      /\ Len(a \o b) = Len(p) - 1
      /\ \A i \in 1 .. Len(p) - 1 : (a \o b)[i] = IF i <= k - 1 THEN p[i] ELSE p[i + 1]
  <2>1. /\ a \o b \in Seq(Ticket)
        /\ Len(a \o b) = Len(a) + Len(b)
        /\ \A i \in 1 .. Len(a) + Len(b) : (a \o b)[i] = IF i <= Len(a) THEN a[i] ELSE b[i - Len(a)]
    BY <1>3, <1>4, ConcatProperties
  <2>2. QED
    BY <1>1, <1>3, <1>4, <2>1
<1> DEFINE q == a \o b
           from(i) == IF i <= k - 1 THEN i ELSE i + 1
<1>q. \A i \in 1 .. Len(q) : from(i) \in 1 .. Len(p) /\ q[i] = p[from(i)]
  <2> SUFFICES ASSUME NEW i \in 1 .. Len(p) - 1
               PROVE  from(i) \in 1 .. Len(p) /\ q[i] = p[from(i)]
    BY <1>5
  <2>1. q[i] = IF i <= k - 1 THEN p[i] ELSE p[i + 1]
    BY <1>5
  <2>2. CASE i <= k - 1
    BY <1>1, <2>1, <2>2
  <2>3. CASE ~(i <= k - 1)
    BY <1>1, <2>1, <2>3
  <2>4. QED
    BY <2>2, <2>3
<1>r. \A i, j \in 1 .. Len(q) : i < j => from(i) < from(j)
  BY <1>1, <1>5
<1>s. q \in Seq(Ticket) /\ Len(q) \in Nat
  BY <1>1, <1>5, LenProperties
<1> HIDE DEF q, from
<1>6. Increasing(q)
  BY <1>1, <1>q, <1>r, <1>s DEF Increasing
<1>7. Range(q) \subseteq Range(p)
  BY <1>1, <1>q, <1>s, RangeIs
<1>8. RemoveAt(p, k) = q
  BY DEF RemoveAt, a, b, q
<1>9. QED
  BY <1>6, <1>7, <1>8

LEMMA AppendIncreasing ==
  ASSUME NEW p, Increasing(p), NEW t \in Ticket, \A v \in Range(p) : v < t
  PROVE  Increasing(Append(p, t)) /\ Range(Append(p, t)) = Range(p) \cup {t}
<1>1. p \in Seq(Ticket) /\ Len(p) \in Nat
  BY LenProperties DEF Increasing
<1>2. /\ Append(p, t) \in Seq(Ticket)
      /\ Len(Append(p, t)) = Len(p) + 1
      /\ \A i \in 1 .. Len(p) : Append(p, t)[i] = p[i]
      /\ Append(p, t)[Len(p) + 1] = t
  BY <1>1, AppendProperties
<1>3. \A i \in 1 .. Len(p) : p[i] \in Range(p)
  BY <1>1, RangeIs
<1>4. Increasing(Append(p, t))
  BY <1>1, <1>2, <1>3 DEF Increasing
<1>5. Range(Append(p, t)) = {Append(p, t)[i] : i \in 1 .. Len(p) + 1}
  BY <1>2, RangeIs
<1>6. QED
  BY <1>1, <1>2, <1>4, <1>5, RangeIs

-----------------------------------------------------------------------------
(* The surface and the requests that were made *)

SurfaceState ==
  [pending : Seq(Ticket), started : Nat, startedId : Nat, nextId : Nat,
   running : Stream \cup {NoStream}, reconnecting : BOOLEAN, recoverable : BOOLEAN, env : Nat]

Before(q, r) == q.id < r.id /\ q.ticket < r.ticket

(* Requests agree, and go through the submissions in order. *)
InOrder(A) == A \subseteq Request /\ \A q, r \in A : q = r \/ Before(q, r) \/ Before(r, q)

(* Of a ticket t that was asked for: what waits comes after it, except that *)
(* the started command waits until it is launched.                          *)
Follows(u, t) == \A v \in Range(u.pending) : t < v \/ (t = v /\ t = u.started /\ u.running = NoStream)

(***************************************************************************)
(* The requests A were made by the surface u, of the first n submissions:  *)
(* they are of the started command and of those before it, and what waits  *)
(* comes after them.                                                       *)
(***************************************************************************)
Asks(u, A, n) ==
  /\ u \in SurfaceState
  /\ Increasing(u.pending)
  /\ InOrder(A)
  /\ \A r \in A : r.id < u.nextId /\ r.ticket <= n /\ Follows(u, r.ticket)
  /\ \A v \in Range(u.pending) : v <= n
  /\ u.started # 0 =>
       /\ u.startedId < u.nextId
       /\ u.started <= n
       /\ Follows(u, u.started)
       /\ \A r \in A : r = StartedRequest(u) \/ Before(r, StartedRequest(u))

LEMMA AsksFewer ==
  ASSUME NEW u, NEW A, NEW B, NEW n, Asks(u, A, n), B \subseteq A
  PROVE  Asks(u, B, n)
  BY DEF Asks, InOrder

(* A surface whose queue loses entries, with all else the requests depend on. *)
LEMMA AsksWithFewerPending ==
  ASSUME NEW u, NEW A, NEW n, Asks(u, A, n), NEW p, Increasing(p), Range(p) \subseteq Range(u.pending)
  PROVE  Asks([u EXCEPT !.pending = p], A, n)
<1> DEFINE w == [u EXCEPT !.pending = p]
<1>1. /\ w \in SurfaceState /\ w.pending = p
      /\ w.started = u.started /\ w.startedId = u.startedId /\ w.nextId = u.nextId
      /\ w.running = u.running /\ w.env = u.env
  BY DEF Asks, SurfaceState, Increasing
<1>2. StartedRequest(w) = StartedRequest(u)
  BY <1>1 DEF StartedRequest
<1> HIDE DEF w
<1>3. QED
  <2>1. Asks(w, A, n)
    BY <1>1, <1>2 DEF Asks, Follows
  <2>2. QED
    BY <2>1 DEF w

(* After the launch of the started command, the queue is after it. *)
LEMMA LaunchedLeavesQueue ==
  ASSUME NEW u, NEW A, NEW n, Asks(u, A, n)
  PROVE  /\ Increasing(WithoutStarted(u))
         /\ Range(WithoutStarted(u)) \subseteq Range(u.pending)
         /\ \A r \in A, v \in Range(WithoutStarted(u)) : r.ticket < v
         /\ u.started # 0 => \A v \in Range(WithoutStarted(u)) : u.started < v
<1> DEFINE p == u.pending
           q == WithoutStarted(u)
<1>1. Increasing(p) /\ p \in Seq(Ticket) /\ \A v \in Range(p) : v \in Nat /\ v # 0
  BY RangeIs, ElementOfSeq DEF Asks, Increasing, Ticket
<1>2. /\ Increasing(q) /\ Range(q) \subseteq Range(p)
      /\ q = p \/ (p # <<>> /\ q = Tail(p))
  BY <1>1, TailIncreasing DEF WithoutStarted
<1>3. ASSUME u.started # 0, u.started \in Range(q) PROVE FALSE
  <2>1. p # <<>> /\ Head(p) <= u.started
    <3>1. u.started \in Range(p)
      BY <1>2, <1>3
    <3>2. p # <<>>
      BY <1>1, <3>1, RangeIs, EmptySeq
    <3>3. QED
      BY <1>1, <3>1, <3>2, HeadIsLeast
  <2>2. Head(p) \in Range(p) /\ \A v \in Range(Tail(p)) : Head(p) < v
    BY <1>1, <2>1, TailIncreasing
  <2>3. u.started <= Head(p)
    BY <1>1, <1>3, <2>2 DEF Asks, Follows, SurfaceState
  <2>4. u.started = Head(p)
    BY <1>1, <2>1, <2>2, <2>3 DEF Asks, SurfaceState
  <2>5. q = Tail(p)
    BY <1>3, <2>1, <2>4 DEF WithoutStarted, SameText
  <2>6. QED
    BY <1>1, <1>2, <1>3, <2>2, <2>4, <2>5
<1>4. \A v \in Range(q) : v # u.started
  BY <1>1, <1>2, <1>3
<1>5. QED
  BY <1>1, <1>2, <1>4 DEF Asks, Follows

LEMMA LaunchedAsks ==
  ASSUME NEW u, NEW A, NEW n, Asks(u, A, n), NEW stream \in Stream
  PROVE  Asks(CommandLaunched(u, stream), A, n)
<1> DEFINE w == CommandLaunched(u, stream)
<1>1. /\ w \in SurfaceState /\ w.pending = WithoutStarted(u)
      /\ w.started = u.started /\ w.startedId = u.startedId /\ w.nextId = u.nextId
      /\ w.env = u.env
  BY LaunchedLeavesQueue DEF Asks, SurfaceState, CommandLaunched, Increasing
<1>2. StartedRequest(w) = StartedRequest(u)
  BY <1>1 DEF StartedRequest
<1> HIDE DEF w
<1>3. Asks(w, A, n)
  BY <1>1, <1>2, LaunchedLeavesQueue DEF Asks, Follows
<1>4. QED
  BY <1>3 DEF w

LEMMA LaunchFailedAsks ==
  ASSUME NEW u, NEW A, NEW n, Asks(u, A, n)
  PROVE  Asks(CommandLaunchFailed(u), A, n)
<1> DEFINE w == CommandLaunchFailed(u)
<1>1. /\ w \in SurfaceState /\ w.pending = WithoutStarted(u)
      /\ w.started = 0 /\ w.nextId = u.nextId
  BY LaunchedLeavesQueue DEF Asks, SurfaceState, CommandLaunchFailed, Increasing
<1> HIDE DEF w
<1>2. Asks(w, A, n)
  BY <1>1, LaunchedLeavesQueue DEF Asks, Follows
<1>3. QED
  BY <1>2 DEF w

LEMMA PollAsks ==
  ASSUME NEW u, NEW A, NEW n, Asks(u, A, n)
  PROVE  Asks(PollCommand(u), A, n)
<1> DEFINE w == PollCommand(u)
<1>1. CASE HasEnded(u)
  <2>1. /\ w \in SurfaceState /\ w.pending = u.pending
        /\ w.started = 0 /\ w.nextId = u.nextId
        /\ u.running # NoStream
    BY <1>1 DEF Asks, SurfaceState, PollCommand, HasEnded
  <2> HIDE DEF w
  <2>2. Asks(w, A, n)
    BY <2>1 DEF Asks, Follows
  <2>3. QED
    BY <2>2 DEF w
<1>2. CASE ~HasEnded(u)
  BY <1>2 DEF PollCommand
<1>3. QED
  BY <1>1, <1>2

(* A submission that follows all the others. *)
LEMMA SubmitAsks ==
  ASSUME NEW u, NEW A, NEW n \in Nat, Asks(u, A, n)
  PROVE  Asks([u EXCEPT !.pending = Append(@, n + 1)], A, n + 1)
<1> DEFINE p == Append(u.pending, n + 1)
           w == [u EXCEPT !.pending = p]
<1>1. Increasing(p) /\ Range(p) = Range(u.pending) \cup {n + 1}
  <2>1. n + 1 \in Ticket
    BY DEF Ticket
  <2>2. \A v \in Range(u.pending) : v \in Nat
    BY RangeIs, ElementOfSeq DEF Asks, Increasing, Ticket
  <2>3. \A v \in Range(u.pending) : v < n + 1
    BY <2>2 DEF Asks
  <2>4. QED
    BY <2>1, <2>3, AppendIncreasing DEF Asks
<1>2. /\ w \in SurfaceState /\ w.pending = p
      /\ w.started = u.started /\ w.startedId = u.startedId /\ w.nextId = u.nextId
      /\ w.running = u.running /\ w.env = u.env
  BY <1>1 DEF Asks, SurfaceState, Increasing
<1>3. StartedRequest(w) = StartedRequest(u)
  BY <1>2 DEF StartedRequest
<1>t. /\ \A r \in A : r.ticket \in Nat
      /\ \A v \in Range(u.pending) : v \in Nat
      /\ u.started \in Nat
  BY RangeIs, ElementOfSeq DEF Asks, InOrder, Request, SurfaceState, Increasing, Ticket
<1> HIDE DEF w, p
<1>4. \A r \in A : r.ticket <= n + 1 /\ Follows(w, r.ticket)
  BY <1>1, <1>2, <1>t DEF Asks, Follows
<1>5. u.started # 0 => u.started <= n + 1 /\ Follows(w, u.started)
  BY <1>1, <1>2, <1>t DEF Asks, Follows
<1>6. \A v \in Range(p) : v <= n + 1
  BY <1>1, <1>t DEF Asks
<1>7. Asks(w, A, n + 1)
  BY <1>1, <1>2, <1>3, <1>4, <1>5, <1>6 DEF Asks
<1>8. QED
  BY <1>7 DEF w, p

LEMMA BuiltinsAsk ==
  ASSUME NEW u, NEW A, NEW n, Asks(u, A, n), IsIdle(u), NEW k \in 0 .. Len(u.pending)
  PROVE  LET w == BuiltinsRun(u, k) IN
         /\ Asks(w, A, n) /\ IsIdle(w)
         /\ Len(w.pending) = Len(u.pending) - k
<1> DEFINE q == SubSeq(u.pending, k + 1, Len(u.pending))
           w == BuiltinsRun(u, k)
<1>1. /\ Increasing(q) /\ Range(q) \subseteq Range(u.pending)
      /\ Len(q) = Len(u.pending) - k
  <2> DEFINE p == u.pending
  <2>1. Increasing(p) /\ q = SubSeq(p, k + 1, Len(p)) /\ k \in 0 .. Len(p)
    BY DEF Asks
  <2> HIDE DEF p, q
  <2>2. Increasing(q) /\ Range(q) \subseteq Range(p) /\ Len(q) = Len(p) - k
    BY <2>1, DropIncreasing
  <2>3. QED
    BY <2>2 DEF p
<1>2. k \in Nat /\ u.nextId \in Nat /\ \A r \in A : r.id \in Nat
  BY LenProperties DEF Asks, SurfaceState, Increasing, InOrder, Request
<1>3. /\ w \in SurfaceState /\ w.pending = q
      /\ w.started = 0 /\ w.running = NoStream /\ w.nextId = u.nextId + k
  <2> DEFINE more == u.recoverable /\ u.pending = <<>>
  <2>1. u \in SurfaceState /\ q \in Seq(Ticket) /\ u.env + k \in Nat /\ u.nextId + k \in Nat
    BY <1>1, <1>2 DEF Asks, Increasing, SurfaceState
  <2>2. more \in BOOLEAN
    OBVIOUS
  <2>3. w = [u EXCEPT !.pending = q, !.nextId = @ + k, !.env = @ + k, !.recoverable = more]
    BY DEF BuiltinsRun
  <2> HIDE DEF q, w, more
  <2>4. QED
    BY <2>1, <2>2, <2>3 DEF SurfaceState, IsIdle
<1> HIDE DEF w, q
<1>4. Asks(w, A, n) /\ IsIdle(w)
  BY <1>1, <1>2, <1>3 DEF Asks, Follows, IsIdle
<1>5. QED
  BY <1>1, <1>3, <1>4 DEF w

LEMMA FrontAsks ==
  ASSUME NEW u, NEW A, NEW n, Asks(u, A, n), IsIdle(u), u.pending # <<>>
  PROVE  LET w == FrontStarted(u) IN
         StartedRequest(w) \in Request /\ Asks(w, A \cup {StartedRequest(w)}, n)
<1> DEFINE w == FrontStarted(u)
           h == Head(u.pending)
           r == StartedRequest(w)
<1>1. /\ h \in Range(u.pending) /\ \A v \in Range(u.pending) : h <= v
      /\ \A v \in Range(u.pending) : v \in Nat /\ v # 0
  BY TailIncreasing, HeadIsLeast, RangeIs, ElementOfSeq DEF Asks, Increasing, Ticket
<1>2. /\ w \in SurfaceState /\ w.pending = u.pending
      /\ w.started = h /\ w.startedId = u.nextId /\ w.nextId = u.nextId + 1
      /\ w.running = NoStream /\ w.env = u.env
  <2>1. h \in Nat /\ u \in SurfaceState /\ u.nextId + 1 \in Nat
    BY <1>1 DEF Asks, SurfaceState
  <2>2. w = [u EXCEPT !.started = h, !.startedId = u.nextId, !.nextId = @ + 1,
                      !.recoverable = TRUE]
    BY DEF FrontStarted
  <2> HIDE DEF w, h
  <2>3. QED
    BY <2>1, <2>2 DEF SurfaceState, IsIdle
<1>3. r = [id |-> u.nextId, ticket |-> h, env |-> u.env] /\ r \in Request
  BY <1>1, <1>2 DEF StartedRequest, Request, Asks, SurfaceState
<1>4. u.nextId \in Nat /\ h \in Nat /\ h <= n /\ u.started = 0
  BY <1>1 DEF Asks, SurfaceState, IsIdle
<1>5. A \subseteq Request /\ \A a \in A : a.id \in Nat /\ a.ticket \in Nat
  BY DEF Asks, InOrder, Request
<1> HIDE DEF w, r, h
<1>6. \A a \in A : Before(a, r)
  BY <1>1, <1>3, <1>4, <1>5 DEF Asks, Follows, Before
<1>7. InOrder(A \cup {r})
  BY <1>3, <1>6 DEF InOrder, Asks
<1>8. Follows(w, h)
  BY <1>1, <1>2, <1>4 DEF Follows
<1>9. \A a \in A : a.id < u.nextId + 1 /\ a.ticket <= n /\ Follows(w, a.ticket)
  BY <1>1, <1>2, <1>4, <1>5 DEF Asks, Follows
<1>10. \A a \in A \cup {r} : a.id < w.nextId /\ a.ticket <= n /\ Follows(w, a.ticket)
  BY <1>2, <1>3, <1>4, <1>8, <1>9
<1>11. Asks(w, A \cup {r}, n)
  BY <1>1, <1>2, <1>4, <1>6, <1>7, <1>8, <1>10 DEF Asks, r
<1>12. QED
  BY <1>3, <1>11 DEF w, r

LEMMA ReconnectAsks ==
  ASSUME NEW u, NEW A, NEW n, Asks(u, A, n), CanReconnect(u)
  PROVE  LET w == [u EXCEPT !.reconnecting = TRUE] IN
         StartedRequest(w) \in Request /\ Asks(w, A \cup {StartedRequest(w)}, n)
<1> DEFINE w == [u EXCEPT !.reconnecting = TRUE]
           r == StartedRequest(w)
<1>1. /\ w \in SurfaceState /\ w.pending = u.pending
      /\ w.started = u.started /\ w.startedId = u.startedId /\ w.nextId = u.nextId
      /\ w.running = u.running /\ w.env = u.env
  BY DEF Asks, SurfaceState
<1>2. /\ r = [id |-> u.startedId, ticket |-> u.started, env |-> u.env]
      /\ r = StartedRequest(u) /\ r \in Request
  BY <1>1 DEF StartedRequest, Request, Asks, SurfaceState
<1>3. u.started # 0 /\ u.startedId < u.nextId /\ u.started <= n /\ Follows(u, u.started)
  BY DEF CanReconnect, Asks
<1> HIDE DEF w, r
<1>4. \A a \in A : a = r \/ Before(a, r)
  BY <1>2, <1>3 DEF Asks
<1>5. InOrder(A \cup {r})
  BY <1>2, <1>4 DEF InOrder, Asks
<1>6. \A a \in A \cup {r} : a.id < w.nextId /\ a.ticket <= n /\ Follows(w, a.ticket)
  BY <1>1, <1>2, <1>3 DEF Asks, Follows
<1>7. Asks(w, A \cup {r}, n)
  <2>1. Follows(w, w.started)
    BY <1>1, <1>3 DEF Follows
  <2>2. StartedRequest(w) = r
    BY DEF r
  <2>3. QED
    BY <1>1, <1>3, <1>4, <1>5, <1>6, <2>1, <2>2 DEF Asks
<1>8. QED
  BY <1>2, <1>7 DEF w, r

(* What a transition starts or asks for again. *)
LEMMA StartNextAsks ==
  ASSUME NEW u, NEW A, NEW n, Asks(u, A, n), NEW k \in 0 .. Len(u.pending)
  PROVE  /\ ResidentEffects(u, k) \in Seq(Request)
         /\ Asks(StartNext(u, k), A \cup Range(ResidentEffects(u, k)), n)
<1> DEFINE w == StartNext(u, k)
           r == StartedRequest(w)
<1>1. ASSUME r \in Request, Asks(w, A \cup {r}, n), ResidentEffects(u, k) = <<r>>
      PROVE  /\ ResidentEffects(u, k) \in Seq(Request)
             /\ Asks(w, A \cup Range(ResidentEffects(u, k)), n)
  <2>1. Range(<<r>>) = {r}
    BY DEF Range
  <2>2. <<r>> \in Seq(Request)
    BY <1>1
  <2> HIDE DEF w, r
  <2>3. QED
    BY <1>1, <2>1, <2>2
<1>2. ASSUME Asks(w, A, n), ResidentEffects(u, k) = <<>>
      PROVE  /\ ResidentEffects(u, k) \in Seq(Request)
             /\ Asks(w, A \cup Range(ResidentEffects(u, k)), n)
  <2>1. Range(<<>>) = {} /\ <<>> \in Seq(Request)
    BY DEF Range
  <2>2. A \cup {} = A
    OBVIOUS
  <2> HIDE DEF w, r
  <2>3. QED
    BY <1>2, <2>1, <2>2
<1>3. CASE CanReconnect(u)
  BY <1>1, <1>3, ReconnectAsks DEF StartNext, ResidentEffects
<1>4. CASE ~CanReconnect(u) /\ ~IsIdle(u)
  BY <1>2, <1>4 DEF StartNext, ResidentEffects
<1>5. CASE ~CanReconnect(u) /\ IsIdle(u)
  <2> DEFINE b == BuiltinsRun(u, k)
  <2>1. Asks(b, A, n) /\ IsIdle(b) /\ Len(b.pending) = Len(u.pending) - k /\ Len(u.pending) \in Nat
    BY <1>5, BuiltinsAsk, LenProperties DEF Asks, Increasing
  <2>2. CASE k = Len(u.pending)
    <3>1. w = b /\ ResidentEffects(u, k) = <<>>
      BY <1>5, <2>1, <2>2 DEF StartNext, ResidentEffects
    <3>2. Asks(w, A, n)
      BY <2>1, <3>1
    <3>3. QED
      BY <1>2, <3>1, <3>2
  <2>3. CASE k # Len(u.pending)
    <3>1. b.pending # <<>>
      BY <2>1, <2>3, EmptySeq
    <3>2. w = FrontStarted(b) /\ ResidentEffects(u, k) = <<r>>
      BY <1>5, <2>1, <2>3 DEF StartNext, ResidentEffects
    <3> HIDE DEF b
    <3>3. QED
      BY <1>1, <2>1, <3>1, <3>2, FrontAsks
  <2>4. QED
    BY <2>2, <2>3
<1>6. QED
  BY <1>3, <1>4, <1>5

LEMMA RangeConcat ==
  ASSUME NEW S, NEW p \in Seq(S), NEW q \in Seq(S)
  PROVE  p \o q \in Seq(S) /\ Range(p \o q) \subseteq Range(p) \cup Range(q)
<1>1. /\ p \o q \in Seq(S)
      /\ Len(p \o q) = Len(p) + Len(q)
      /\ \A i \in 1 .. Len(p) + Len(q) : (p \o q)[i] = IF i <= Len(p) THEN p[i] ELSE q[i - Len(p)]
  BY ConcatProperties
<1>2. /\ DOMAIN p = 1 .. Len(p) /\ DOMAIN q = 1 .. Len(q) /\ DOMAIN (p \o q) = 1 .. Len(p) + Len(q)
      /\ Len(p) \in Nat /\ Len(q) \in Nat
  BY <1>1, LenProperties
<1>3. ASSUME NEW i \in 1 .. Len(p) + Len(q) PROVE (p \o q)[i] \in Range(p) \cup Range(q)
  <2>1. CASE i <= Len(p)
    BY <1>1, <1>2, <2>1 DEF Range
  <2>2. CASE ~(i <= Len(p))
    <3>1. i - Len(p) \in 1 .. Len(q)
      BY <1>2, <2>2
    <3>2. QED
      BY <1>1, <1>2, <2>2, <3>1 DEF Range
  <2>3. QED
    BY <2>1, <2>2
<1>4. QED
  BY <1>1, <1>2, <1>3 DEF Range

LEMMA TailOfSeq ==
  ASSUME NEW S, NEW p \in Seq(S), p # <<>>
  PROVE  Tail(p) \in Seq(S) /\ Range(Tail(p)) \subseteq Range(p)
<1>1. /\ Tail(p) \in Seq(S) /\ Len(Tail(p)) = Len(p) - 1
      /\ \A i \in 1 .. Len(Tail(p)) : Tail(p)[i] = p[i + 1]
  BY HeadTailProperties
<1>2. DOMAIN p = 1 .. Len(p) /\ DOMAIN Tail(p) = 1 .. Len(p) - 1 /\ Len(p) \in Nat
  BY <1>1, LenProperties
<1>3. \A i \in 1 .. Len(p) - 1 : i + 1 \in 1 .. Len(p)
  BY <1>2
<1>4. QED
  BY <1>1, <1>2, <1>3 DEF Range

LEMMA StartNextKeepsRunning ==
  ASSUME NEW u \in SurfaceState, NEW k
  PROVE  StartNext(u, k).running = u.running
  BY DEF SurfaceState, StartNext, BuiltinsRun, FrontStarted

LEMMA PollKeepsRunning ==
  ASSUME NEW u \in SurfaceState
  PROVE  PollCommand(u).running \in {u.running, NoStream}
<1>1. CASE HasEnded(u)
  BY <1>1 DEF SurfaceState, PollCommand
<1>2. CASE ~HasEnded(u)
  BY <1>2 DEF PollCommand
<1>3. QED
  BY <1>1, <1>2

(* A transition: queue holds the effects that remain. *)
LEMMA ApplyAsks ==
  ASSUME NEW u, NEW A, NEW n, Asks(u, A, n), NEW lines,
         NEW queue \in Seq(Request), Range(queue) \subseteq A,
         Apply(u, lines, queue)
  PROVE  /\ effects' \in Seq(Request)
         /\ queue # <<>> => effects' # <<>>
         /\ Asks(surface', A \cup Range(effects'), n)
         /\ surface'.running = u.running
<1>1. PICK k \in 0 .. Len(u.pending) :
        surface' = StartNext(u, k) /\ effects' = queue \o ResidentEffects(u, k)
  BY DEF Apply
<1>2. /\ ResidentEffects(u, k) \in Seq(Request)
      /\ Asks(surface', A \cup Range(ResidentEffects(u, k)), n)
  BY <1>1, StartNextAsks
<1>3. effects' \in Seq(Request) /\ Range(effects') \subseteq Range(queue) \cup Range(ResidentEffects(u, k))
  BY <1>1, <1>2, RangeConcat
<1>4. A \cup Range(effects') \subseteq A \cup Range(ResidentEffects(u, k))
  BY <1>3
<1>5. Asks(surface', A \cup Range(effects'), n)
  BY <1>2, <1>4, AsksFewer
<1>6. surface'.running = u.running
  BY <1>1, StartNextKeepsRunning DEF Asks
<1>7. queue # <<>> => effects' # <<>>
  BY <1>1, <1>2, ConcatSimplifications
<1>8. QED
  BY <1>3, <1>5, <1>6, <1>7

-----------------------------------------------------------------------------
(* The session *)

StreamRequests(S) == {s.req : s \in S \ {NoStream}}

(* The requests that were made, and may still be read. *)
Asked ==
  Range(effects) \cup orphans \cup StreamRequests({surface.running, launching})
    \cup ({worker.req} \ {NoStream})

ShellState ==
  /\ submitted \in Seq(Lines)
  /\ effects \in Seq(Request)
  /\ launching \in Stream \cup {NoStream}
  /\ launching # NoStream => effects # <<>>
  /\ worker \in [high : Nat, req : Request \cup {NoStream}, busy : BOOLEAN]

(* The worker has started commands in order, the last one being the one it has. *)
WorkerInOrder ==
  /\ executed \in Seq(Nat)
  /\ \A j, k \in 1 .. Len(executed) : j < k => executed[j] < executed[k]
  /\ worker.req = NoStream => executed = <<>>
  /\ worker.req # NoStream =>
       worker.high = worker.req.id /\ \A j \in 1 .. Len(executed) : executed[j] <= worker.req.ticket

ShellInv == ShellState /\ WorkerInOrder /\ Asks(surface, Asked, Len(submitted))

(* Requests are only lost, and nothing else that the invariant is about changes. *)
LEMMA FewerAsked ==
  ASSUME ShellState', WorkerInOrder', Asks(surface', Asked, Len(submitted')), Asked' \subseteq Asked
  PROVE  ShellInv'
  BY AsksFewer DEF ShellInv

LEMMA InitInv == Init => ShellInv
<1> SUFFICES ASSUME Init PROVE ShellInv
  OBVIOUS
<1>1. ShellState /\ WorkerInOrder
  BY DEF Init, ShellState, WorkerInOrder
<1>2. Asked = {}
  BY DEF Init, Asked, StreamRequests, Range
<1>3. Asks(surface, {}, Len(submitted))
  BY DEF Init, Asks, SurfaceState, Increasing, InOrder, Range
<1>4. QED
  BY <1>1, <1>2, <1>3 DEF ShellInv

(* What the worker does with a request that was made. *)
LEMMA ServeKeepsOrder ==
  ASSUME ShellInv, NEW req \in Asked, Serve(req)
  PROVE  /\ WorkerInOrder'
         /\ worker' \in [high : Nat, req : Request \cup {NoStream}, busy : BOOLEAN]
         /\ worker'.req \in Asked \cup {NoStream}
<1>1. req \in Request /\ req # NoStream /\ req.id \in Nat /\ req.ticket \in Nat
  BY NoStreamAssumption DEF ShellInv, Asks, InOrder, Request
<1>2. CASE IsRefused(req) \/ IsKnown(req)
  BY <1>2 DEF Serve, ShellInv, ShellState, WorkerInOrder, Asked
<1>3. CASE ~IsRefused(req) /\ ~IsKnown(req)
  <2>1. /\ req.id > worker.high
        /\ worker' = [high |-> req.id, req |-> req, busy |-> TRUE]
        /\ executed' = Append(executed, req.ticket)
    BY <1>1, <1>3 DEF Serve, IsRefused, IsRetired, ShellInv, ShellState
  <2>2. executed \in Seq(Nat) /\ Len(executed) \in Nat
    BY LenProperties DEF ShellInv, WorkerInOrder
  <2>n. \A j \in 1 .. Len(executed) : executed[j] \in Nat
    BY <2>2, ElementOfSeq
  <2>3. \A j \in 1 .. Len(executed) : executed[j] < req.ticket
    <3>1. CASE worker.req = NoStream
      BY <2>2, <3>1 DEF ShellInv, WorkerInOrder
    <3>2. CASE worker.req # NoStream
      <4>1. worker.req \in Asked /\ worker.req \in Request
        BY <3>2 DEF Asked, ShellInv, ShellState
      <4>2. worker.high = worker.req.id /\ worker.req.id \in Nat /\ worker.req.ticket \in Nat
        BY <3>2, <4>1 DEF ShellInv, WorkerInOrder, Request
      <4>3. Before(worker.req, req)
        BY <1>1, <2>1, <4>1, <4>2 DEF ShellInv, Asks, InOrder, Before
      <4>4. \A j \in 1 .. Len(executed) : executed[j] <= worker.req.ticket
        BY <3>2 DEF ShellInv, WorkerInOrder
      <4>5. QED
        BY <1>1, <2>n, <4>2, <4>3, <4>4 DEF Before
    <3>3. QED
      BY <3>1, <3>2
  <2>4. /\ executed' \in Seq(Nat)
        /\ Len(executed') = Len(executed) + 1
        /\ \A j \in 1 .. Len(executed) : executed'[j] = executed[j]
        /\ executed'[Len(executed) + 1] = req.ticket
    BY <1>1, <2>1, <2>2, AppendProperties
  <2>5. \A j \in 1 .. Len(executed') : j \in 1 .. Len(executed) \/ j = Len(executed) + 1
    BY <2>2, <2>4
  <2>o. \A j, k \in 1 .. Len(executed) : j < k => executed[j] < executed[k]
    BY DEF ShellInv, WorkerInOrder
  <2>6. ASSUME NEW j \in 1 .. Len(executed'), NEW k \in 1 .. Len(executed'), j < k
        PROVE  executed'[j] < executed'[k]
    <3>1. j \in 1 .. Len(executed)
      BY <2>2, <2>4, <2>6
    <3>2. CASE k \in 1 .. Len(executed)
      BY <2>4, <2>6, <2>o, <3>1, <3>2
    <3>3. CASE k = Len(executed) + 1
      BY <2>3, <2>4, <3>1, <3>3
    <3>4. QED
      BY <2>5, <3>2, <3>3
  <2>7. ASSUME NEW j \in 1 .. Len(executed') PROVE executed'[j] <= req.ticket
    <3>1. CASE j \in 1 .. Len(executed)
      BY <1>1, <2>n, <2>3, <2>4, <3>1
    <3>2. CASE j = Len(executed) + 1
      BY <1>1, <2>4, <3>2
    <3>3. QED
      BY <2>5, <3>1, <3>2
  <2>8. WorkerInOrder'
    BY <1>1, <2>1, <2>4, <2>6, <2>7 DEF WorkerInOrder
  <2>9. QED
    BY <1>1, <2>1, <2>8
<1>4. QED
  BY <1>2, <1>3

(* The stream that the surface reads changes its phase only. *)
LEMMA PhaseAsks ==
  ASSUME NEW A, NEW n, Asks(surface, A, n), surface.running # NoStream,
         NEW stream \in Stream, stream # NoStream, stream.req = surface.running.req,
         surface' = [surface EXCEPT !.running = stream]
  PROVE  /\ Asks(surface', A, n)
         /\ surface'.running = stream
<1>1. /\ surface' \in SurfaceState /\ surface'.pending = surface.pending
      /\ surface'.started = surface.started /\ surface'.startedId = surface.startedId
      /\ surface'.nextId = surface.nextId /\ surface'.env = surface.env
      /\ surface'.running = stream
  BY DEF Asks, SurfaceState
<1>2. StartedRequest(surface') = StartedRequest(surface)
  BY <1>1 DEF StartedRequest
<1>3. QED
  BY <1>1, <1>2 DEF Asks, Follows

LEMMA ServedIs ==
  ASSUME NEW stream \in Stream
  PROVE  Served(stream) \in Stream /\ Served(stream).req = stream.req /\ Served(stream) # NoStream
  BY NoStreamAssumption DEF Served, Stream, Phases

LEMMA ShellStep == ShellInv /\ [Next]_vars => ShellInv'
<1> SUFFICES ASSUME ShellInv, [Next]_vars PROVE ShellInv'
  OBVIOUS
<1> DEFINE A == Asked
           n == Len(submitted)
<1>s. ShellState /\ WorkerInOrder /\ Asks(surface, A, n) /\ n \in Nat /\ surface \in SurfaceState
  BY LenProperties DEF ShellInv, ShellState, Asks
<1>e. effects \in Seq(Request) /\ Range(effects) \subseteq A /\ A \subseteq Request
  BY DEF ShellInv, ShellState, Asked, Asks, InOrder
<1>1. ASSUME NEW line \in Lines, Submit(line) PROVE ShellInv'
  <2> DEFINE u == [surface EXCEPT !.pending = Append(@, Len(submitted) + 1)]
  <2>1. Asks(u, A, n + 1) /\ u.running = surface.running
    BY <1>s, SubmitAsks DEF SurfaceState
  <2>2. submitted' \in Seq(Lines) /\ Len(submitted') = n + 1
    BY <1>1, <1>s, AppendProperties DEF Submit, ShellState
  <2> HIDE DEF A
  <2>3. /\ effects' \in Seq(Request)
        /\ effects # <<>> => effects' # <<>>
        /\ Asks(surface', A \cup Range(effects'), n + 1)
        /\ surface'.running = surface.running
    BY <1>1, <1>e, <2>1, ApplyAsks DEF Submit
  <2>4. ShellState' /\ WorkerInOrder'
    BY <1>1, <1>s, <2>2, <2>3 DEF Submit, ShellState, WorkerInOrder
  <2>5. Asked' \subseteq A \cup Range(effects')
    BY <1>1, <2>3 DEF Submit, Asked, StreamRequests, A
  <2>6. QED
    BY <2>2, <2>3, <2>4, <2>5, AsksFewer DEF ShellInv
<1>2. ASSUME NEW k \in DOMAIN surface.pending, CancelQueued(k) PROVE ShellInv'
  <2>1. k \in 1 .. Len(surface.pending) /\ Increasing(surface.pending)
    BY <1>s DEF Asks, Increasing
  <2>2. Increasing(RemoveAt(surface.pending, k))
        /\ Range(RemoveAt(surface.pending, k)) \subseteq Range(surface.pending)
    BY <2>1, RemoveIncreasing
  <2>3. Asks(surface', A, n)
    BY <1>2, <1>s, <2>2, AsksWithFewerPending DEF CancelQueued
  <2>4. surface'.running = surface.running
    BY <1>2, <1>s DEF CancelQueued, SurfaceState
  <2>5. QED
    BY <1>2, <1>s, <2>3, <2>4
       DEF CancelQueued, ShellInv, ShellState, WorkerInOrder, Asked, StreamRequests
<1>3. ASSUME CancelAll PROVE ShellInv'
  <2>1. Increasing(<<>>) /\ Range(<<>>) \subseteq Range(surface.pending)
    BY DEF Increasing, Range
  <2>2. Asks(surface', A, n)
    BY <1>3, <1>s, <2>1, AsksWithFewerPending DEF CancelAll
  <2>3. surface'.running = surface.running
    BY <1>3, <1>s DEF CancelAll, SurfaceState
  <2>4. QED
    BY <1>3, <1>s, <2>2, <2>3
       DEF CancelAll, ShellInv, ShellState, WorkerInOrder, Asked, StreamRequests
<1>4. ASSUME Poll PROVE ShellInv'
  <2>1. Asks(PollCommand(surface), A, n)
        /\ PollCommand(surface).running \in {surface.running, NoStream}
    BY <1>s, PollAsks, PollKeepsRunning
  <2> HIDE DEF A
  <2>2. /\ effects' \in Seq(Request)
        /\ effects # <<>> => effects' # <<>>
        /\ Asks(surface', A \cup Range(effects'), n)
        /\ surface'.running \in {surface.running, NoStream}
    BY <1>4, <1>e, <2>1, ApplyAsks DEF Poll
  <2>3. ShellState' /\ WorkerInOrder'
    BY <1>4, <1>s, <2>2 DEF Poll, ShellState, WorkerInOrder
  <2>4. Asked' \subseteq A \cup Range(effects')
    BY <1>4, <2>2 DEF Poll, Asked, StreamRequests, A
  <2>5. QED
    BY <1>4, <2>2, <2>3, <2>4, AsksFewer DEF Poll, ShellInv
<1>h. effects # <<>> => Head(effects) \in Request /\ Head(effects) \in Range(effects)
  BY <1>e, HeadTailProperties, EmptySeq DEF Range
<1>5. ASSUME Execute PROVE ShellInv'
  <2>1. launching' \in Stream /\ launching'.req \in Range(effects)
    BY <1>5, <1>h DEF Execute, Stream, Phases
  <2>2. Asked' \subseteq Asked
    BY <1>5, <2>1 DEF Execute, Asked, StreamRequests
  <2>3. QED
    BY <1>5, <1>s, <2>1, <2>2, FewerAsked DEF Execute, ShellState, WorkerInOrder
<1>6. ASSUME NEW written \in BOOLEAN, ExecuteFails(written) PROVE ShellInv'
  <2>1. /\ launching' \in Stream /\ launching'.req \in Range(effects)
        /\ orphans' \subseteq orphans \cup Range(effects)
    BY <1>6, <1>h DEF ExecuteFails, Stream, Phases
  <2>2. Asked' \subseteq Asked
    BY <1>6, <2>1 DEF ExecuteFails, Asked, StreamRequests
  <2>3. QED
    BY <1>6, <1>s, <2>1, <2>2, FewerAsked DEF ExecuteFails, ShellState, WorkerInOrder
<1>7. ASSUME EffectCompleted PROVE ShellInv'
  <2> DEFINE u == Completed(surface)
  <2>1. Asks(u, A, n) /\ u.running \in {surface.running, launching}
    <3>1. launching \in Stream
      BY <1>7, <1>s DEF EffectCompleted, ShellState
    <3>2. Asks(u, A, n)
      BY <1>s, <3>1, LaunchedAsks, LaunchFailedAsks DEF Completed
    <3>3. QED
      BY <1>s, <3>2 DEF Completed, CommandLaunched, CommandLaunchFailed, SurfaceState
  <2> HIDE DEF A, u
  <2>2. PICK k \in 0 .. Len(u.pending) :
          Apply(PollCommand(StartNext(u, k)), submitted, Tail(effects) \o ResidentEffects(u, k))
    BY <1>7 DEF EffectCompleted, u
  <2> DEFINE R == ResidentEffects(u, k)
             v == StartNext(u, k)
             B == A \cup Range(R)
             queue == Tail(effects) \o R
  <2>3. R \in Seq(Request) /\ Asks(v, B, n) /\ v.running = u.running
    BY <2>1, StartNextAsks, StartNextKeepsRunning DEF Asks
  <2>4. Tail(effects) \in Seq(Request) /\ Range(Tail(effects)) \subseteq Range(effects)
    BY <1>7, <1>e, <1>s, TailOfSeq DEF EffectCompleted, ShellState
  <2> HIDE DEF R, v
  <2>5. queue \in Seq(Request) /\ Range(queue) \subseteq B
    BY <1>e, <2>3, <2>4, RangeConcat
  <2>6. Asks(PollCommand(v), B, n) /\ PollCommand(v).running \in {v.running, NoStream}
    BY <2>3, PollAsks, PollKeepsRunning DEF Asks
  <2> HIDE DEF B, queue
  <2>7. /\ effects' \in Seq(Request)
        /\ Asks(surface', B \cup Range(effects'), n)
        /\ surface'.running \in {surface.running, launching, NoStream}
    BY <2>1, <2>2, <2>3, <2>5, <2>6, ApplyAsks DEF R, v, queue
  <2>8. /\ launching' = NoStream
        /\ orphans' \subseteq orphans \cup StreamRequests({surface.running})
        /\ UNCHANGED <<submitted, worker, executed>>
    BY <1>7 DEF EffectCompleted, Dropped, StreamRequests
  <2>9. ShellState' /\ WorkerInOrder'
    BY <1>s, <2>7, <2>8 DEF ShellState, WorkerInOrder
  <2>10. Asked' \subseteq B \cup Range(effects')
    BY <2>7, <2>8 DEF Asked, StreamRequests, A, B
  <2>11. QED
    BY <2>7, <2>8, <2>9, <2>10, AsksFewer DEF ShellInv
<1>8. ASSUME ReplaceLeader PROVE ShellInv'
  <2>1. /\ surface' \in SurfaceState /\ surface'.pending = surface.pending
        /\ surface'.started = surface.started /\ surface'.startedId = surface.startedId
        /\ surface'.nextId = surface.nextId /\ surface'.env = surface.env
        /\ surface'.running = NoStream
    BY <1>8, <1>s DEF ReplaceLeader, SurfaceState
  <2>2. StartedRequest(surface') = StartedRequest(surface)
    BY <2>1 DEF StartedRequest
  <2>3. Asks(surface', A, n)
    BY <1>s, <2>1, <2>2 DEF Asks, Follows
  <2>4. Asked' \subseteq Asked
    BY <1>8, <2>1 DEF ReplaceLeader, Asked, StreamRequests, Dropped
  <2>5. QED
    BY <1>8, <1>s, <2>3, <2>4, FewerAsked DEF ReplaceLeader, ShellState, WorkerInOrder
<1>9. ASSUME ServeRunning PROVE ShellInv'
  <2>1. surface.running \in Stream /\ surface.running.req \in Asked
    BY <1>9, <1>s DEF ServeRunning, SurfaceState, Asked, StreamRequests
  <2>2. /\ WorkerInOrder'
        /\ worker' \in [high : Nat, req : Request \cup {NoStream}, busy : BOOLEAN]
        /\ worker'.req \in Asked \cup {NoStream}
    BY <1>9, <2>1, ServeKeepsOrder DEF ServeRunning
  <2>3. Asks(surface', A, n) /\ surface'.running = Served(surface.running)
    BY <1>9, <1>s, <2>1, ServedIs, PhaseAsks DEF ServeRunning
  <2>4. Asked' \subseteq Asked
    BY <1>9, <2>1, <2>2, <2>3, ServedIs DEF ServeRunning, Asked, StreamRequests
  <2>5. QED
    BY <1>9, <1>s, <2>2, <2>3, <2>4, FewerAsked DEF ServeRunning, ShellState
<1>10. ASSUME ServeLaunching PROVE ShellInv'
  <2>1. launching \in Stream /\ launching.req \in Asked
    BY <1>10, <1>s DEF ServeLaunching, ShellState, Asked, StreamRequests
  <2>2. /\ WorkerInOrder'
        /\ worker' \in [high : Nat, req : Request \cup {NoStream}, busy : BOOLEAN]
        /\ worker'.req \in Asked \cup {NoStream}
    BY <1>10, <2>1, ServeKeepsOrder DEF ServeLaunching
  <2>3. launching' \in Stream /\ launching'.req = launching.req
    BY <1>10, <2>1, ServedIs DEF ServeLaunching
  <2>4. Asked' \subseteq Asked
    BY <1>10, <2>1, <2>2, <2>3 DEF ServeLaunching, Asked, StreamRequests
  <2>5. QED
    BY <1>10, <1>s, <2>2, <2>3, <2>4, FewerAsked DEF ServeLaunching, ShellState
<1>11. ASSUME NEW req \in orphans, ServeOrphan(req) PROVE ShellInv'
  <2>1. req \in Asked
    BY DEF Asked
  <2>2. /\ WorkerInOrder'
        /\ worker' \in [high : Nat, req : Request \cup {NoStream}, busy : BOOLEAN]
        /\ worker'.req \in Asked \cup {NoStream}
    BY <1>11, <2>1, ServeKeepsOrder DEF ServeOrphan
  <2>3. Asked' \subseteq Asked
    BY <1>11, <2>1, <2>2 DEF ServeOrphan, Asked, StreamRequests
  <2>4. QED
    BY <1>11, <1>s, <2>2, <2>3, FewerAsked DEF ServeOrphan, ShellState
<1>12. ASSUME CommandEnds PROVE ShellInv'
  <2>1. /\ worker' \in [high : Nat, req : Request \cup {NoStream}, busy : BOOLEAN]
        /\ worker'.req = worker.req /\ worker'.high = worker.high
    BY <1>12, <1>s DEF CommandEnds, ShellState
  <2>2. QED
    BY <1>12, <1>s, <2>1 DEF CommandEnds, ShellInv, ShellState, WorkerInOrder, Asked, StreamRequests
<1>13. ASSUME StreamEnds \/ StreamBreaks PROVE ShellInv'
  <2> DEFINE stream == [surface.running EXCEPT !.phase = "ended"]
  <2>1. /\ surface.running \in Stream /\ surface.running # NoStream
        /\ surface' = [surface EXCEPT !.running = stream]
    BY <1>13, <1>s DEF StreamEnds, StreamBreaks, SurfaceState
  <2>2. stream \in Stream /\ stream.req = surface.running.req /\ stream # NoStream
    BY <2>1, NoStreamAssumption DEF Stream, Phases
  <2> HIDE DEF stream
  <2>3. Asks(surface', A, n) /\ surface'.running = stream
    BY <1>s, <2>1, <2>2, PhaseAsks
  <2>4. Asked' \subseteq Asked
    BY <1>13, <2>1, <2>2, <2>3 DEF StreamEnds, StreamBreaks, Asked, StreamRequests
  <2>5. QED
    BY <1>13, <1>s, <2>3, <2>4, FewerAsked DEF StreamEnds, StreamBreaks, ShellState, WorkerInOrder
<1>14. CASE UNCHANGED vars
  BY <1>14 DEF vars, ShellInv, ShellState, WorkerInOrder, Asked, StreamRequests
<1>15. QED
  BY <1>1, <1>2, <1>3, <1>4, <1>5, <1>6, <1>7, <1>8, <1>9, <1>10, <1>11, <1>12, <1>13, <1>14 DEF Next

LEMMA ShellInvariant == Spec => []ShellInv
  BY InitInv, ShellStep, PTL DEF Spec

(***************************************************************************)
(* The worker starts a command once, and commands in the order of their    *)
(* submissions (worker.rs, serve_run).                                     *)
(***************************************************************************)
THEOREM RunsInOrder == Spec => []CommandsRunInOrder
<1>1. ShellInv => CommandsRunInOrder
  BY LenProperties DEF ShellInv, WorkerInOrder, CommandsRunInOrder
<1>2. QED
  BY <1>1, ShellInvariant, PTL

(***************************************************************************)
(* No command is asked for in two ways (command.rs, start_next_external).  *)
(***************************************************************************)
THEOREM AsksAlike == Spec => []RequestsAgree
<1>1. ASSUME ShellInv PROVE RequestsAgree
  <2> DEFINE asked == Range(effects) \cup orphans \cup Dropped({surface.running, launching})
                        \cup ({worker.req} \ {NoStream})
  <2>1. asked \subseteq Asked
    BY DEF Dropped, Asked, StreamRequests
  <2>2. \A q \in asked : q.id \in Nat
    BY <1>1, <2>1 DEF ShellInv, Asks, InOrder, Request
  <2> HIDE DEF asked
  <2>3. ASSUME NEW q \in asked, NEW r \in asked, q.id = r.id PROVE q = r
    <3>1. q = r \/ Before(q, r) \/ Before(r, q)
      BY <1>1, <2>1 DEF ShellInv, Asks, InOrder
    <3>2. QED
      BY <2>2, <2>3, <3>1 DEF Before
  <2>4. QED
    BY <2>3 DEF RequestsAgree, asked
<1>2. QED
  BY <1>1, ShellInvariant, PTL

=============================================================================
