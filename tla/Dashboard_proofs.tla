-------------------------- MODULE Dashboard_proofs --------------------------
(***************************************************************************)
(* Proofs about Dashboard, for any sessions, names, capacities and number  *)
(* of inputs: a session never has two screens and its operation is the one *)
(* pending (OneOfEach), and a takeover is asked for the session and the    *)
(* driver that were shown (TakesWhatWasAsked).  Two parts are about the    *)
(* screens beside it.  Remote: a takeover question is open for viewers     *)
(* only (QuestionIsOpen).  Settings: what the program writes to a          *)
(* configuration file resolves (SavedResolves).                            *)
(***************************************************************************)
EXTENDS Dashboard, SequenceTheorems, FiniteSetTheorems, WellFoundedInduction, TLAPS

-----------------------------------------------------------------------------
(* Types *)

Records == [id : Sessions, name : Names, driver : Drivers]

Ops ==
  [kind : {"refresh", "stop"}] \cup [kind : {"create"}, name : Names]
  \cup [kind : {"rename"}, id : Sessions, name : Names] \cup [kind : {"delete"}, id : Sessions]

Replies ==
  [kind : {"sessions"}, sessions : Seq(Records)] \cup [kind : {"created"}, session : Records]
  \cup [kind : {"renamed", "stopping", "failed"}]

Requests == [id : Nat, op : Ops]

Events ==
  [kind : {"completed"}, id : Nat, reply : Replies] \cup [kind : {"reconnected", "shutdown"}]

Modes ==
  [kind : {"browse", "search", "create", "stop"}] \cup [kind : {"rename", "take", "delete"}, id : Sessions]

Pendings == UNION {[ids -> Ops] : ids \in {some \in SUBSET Nat : IsFiniteSet(some)}}

Dashes ==
  [listed : Seq(Records), selected : Nat, query : Names \cup {NoName}, mode : Modes,
   pending : Pendings, opening : SUBSET Sessions]

Attachments ==
  [id : Sessions, view : BOOLEAN, force : BOOLEAN, asked : Sessions \cup {NoSession}]

Results == [id : Sessions, ok : BOOLEAN]

Uis ==
  [d : Dashes, queue : Seq(Requests), tasks : SUBSET Attachments, app : {"runs", "closed", "left"}]

-----------------------------------------------------------------------------
(* The invariant, of what a handler has made of the dashboard (x), of what *)
(* is on its way to it (evs) and of the rest of the client (w).            *)

Rests == [unborn : SUBSET Sessions, opened : Seq(Results), registry : SUBSET Sessions, screens : SUBSET Sessions]
Rest == [unborn |-> unborn, opened |-> opened, registry |-> registry, screens |-> screens]

IdsOf(list) == {list[i].id : i \in DOMAIN list}

\* A reply lists an identity, or is of its birth.
Lists(event, id) == event.kind = "completed" /\ event.reply.kind = "sessions" /\ id \in IdsOf(event.reply.sessions)
IsNews(event, id) == event.kind = "completed" /\ event.reply.kind = "created" /\ event.reply.session.id = id

\* id is being attached to, or a result of that waits.
IsHeld(x, w, id) ==
  \/ \E task \in x.tasks : task.id = id
  \/ \E j \in DOMAIN w.opened : w.opened[j].id = id

\* The dashboard and the shell have to do with id.
IsSeen(x, w, id) ==
  id \in IdsOf(x.d.listed) \/ id \in x.d.opening \/ id \in w.registry \/ id \in w.screens

\* Nothing is told of an identity that no session has had.
Born(x, evs, w) ==
  \A id \in w.unborn :
    ~IsSeen(x, w, id) /\ \A k \in DOMAIN evs : ~Lists(evs[k], id) /\ ~IsNews(evs[k], id)

\* The reply to a creation is the first that is heard of the session.
News(x, evs, w) ==
  \A k \in DOMAIN evs, id \in Sessions : IsNews(evs[k], id) =>
    /\ ~IsSeen(x, w, id)
    /\ \A j \in DOMAIN evs : (j < k => ~Lists(evs[j], id)) /\ (IsNews(evs[j], id) => j = k)

\* There is one attachment of a session at most, or its result, and while
\* there is the session is being opened.
Opens(x, w) ==
  /\ \A task \in x.tasks, other \in x.tasks : other.id = task.id => other = task
  /\ \A i, j \in DOMAIN w.opened : w.opened[i].id = w.opened[j].id => i = j
  /\ \A task \in x.tasks, j \in DOMAIN w.opened : w.opened[j].id # task.id
  /\ \A id \in Sessions : IsHeld(x, w, id) => id \in x.d.opening

\* ScreensAgree
Attaching(w) == {w.opened[i].id : i \in {j \in DOMAIN w.opened : w.opened[j].ok}}

Screened(x, w) ==
  /\ w.registry = w.screens \cup Attaching(w) /\ w.screens \cap Attaching(w) = {}
  /\ \A task \in x.tasks : task.id \notin w.registry

\* TakesWhatWasAsked
Fair(x) == \A task \in x.tasks : task.force => task.asked = task.id

\* PendingIsOnItsWay
IsReply(event, id) == event.kind = "completed" /\ event.id = id

OnItsWay(x, evs) ==
  /\ \A i, j \in DOMAIN x.queue : x.queue[i].id = x.queue[j].id => i = j
  /\ \A i, j \in DOMAIN evs : evs[i].kind = "completed" /\ IsReply(evs[j], evs[i].id) => i = j
  /\ \A i \in DOMAIN x.queue, j \in DOMAIN evs : ~IsReply(evs[j], x.queue[i].id)
  /\ \A i \in DOMAIN x.queue : x.queue[i].id \in DOMAIN x.d.pending
  /\ \A j \in DOMAIN evs : evs[j].kind = "completed" => evs[j].id \in DOMAIN x.d.pending
  /\ \A id \in DOMAIN x.d.pending :
       \/ \E i \in DOMAIN x.queue : x.queue[i].id = id
       \/ \E j \in DOMAIN evs : IsReply(evs[j], id)

Agrees(x, evs, w) == Born(x, evs, w) /\ News(x, evs, w) /\ Opens(x, w) /\ Screened(x, w) /\ OnItsWay(x, evs)

Good(x, evs, w) ==
  /\ x \in Uis /\ evs \in Seq(Events) /\ w \in Rests
  /\ Fair(x)
  /\ x.app = "runs" => Agrees(x, evs, w)

Resident ==
  /\ leader \in Seq(Records)
  /\ \A id \in IdsOf(leader) : id \notin unborn

DashInv == Resident /\ Good(Ui, events, Rest)


-----------------------------------------------------------------------------
(* What handlers are made of keeps the invariant.                          *)

\* y is x but for the mode, the query, the selection, and the list, which
\* tells of no session that x does not tell of.
IsPlain(x, y) ==
  /\ y \in Uis /\ y.tasks = x.tasks /\ y.queue = x.queue
  /\ y.d.pending = x.d.pending /\ y.d.opening = x.d.opening
  /\ IdsOf(y.d.listed) \subseteq IdsOf(x.d.listed)
  /\ y.app = "runs" => x.app = "runs"

LEMMA PlainIsGood ==
  ASSUME NEW x, NEW y, NEW evs, NEW w, Good(x, evs, w), IsPlain(x, y)
  PROVE  Good(y, evs, w)
<1>1. SUFFICES ASSUME y.app = "runs" PROVE Agrees(y, evs, w)
  BY DEF Good, IsPlain, Fair
<1>2. Agrees(x, evs, w)
  BY <1>1 DEF Good, IsPlain
<1>3. \A id : IsSeen(y, w, id) => IsSeen(x, w, id)
  BY DEF IsPlain, IsSeen
<1>4. Born(y, evs, w) /\ News(y, evs, w)
  BY <1>2, <1>3 DEF Agrees, Born, News
<1>5. Opens(y, w) /\ Screened(y, w)
  BY <1>2 DEF Agrees, Opens, Screened, IsHeld, IsPlain
<1>6. OnItsWay(y, evs)
  BY <1>2 DEF Agrees, OnItsWay, IsPlain
<1>7. QED
  BY <1>4, <1>5, <1>6 DEF Agrees

LEMMA InModeIsGood ==
  ASSUME NEW x, NEW evs, NEW w, Good(x, evs, w), NEW mode \in Modes
  PROVE  Good(InMode(x, mode), evs, w)
<1>1. x \in Uis
  BY DEF Good
<1>2. IsPlain(x, InMode(x, mode))
  BY <1>1 DEF IsPlain, InMode, Uis, Dashes
<1>3. QED
  BY <1>2, PlainIsGood

LEMMA ClearedIsGood ==
  ASSUME NEW x, NEW evs, NEW w, Good(x, evs, w)
  PROVE  Good(Cleared(x), evs, w) /\ Cleared(x).d.opening = x.d.opening /\ Cleared(x).app = x.app
<1>1. x \in Uis
  BY DEF Good
<1>2. IsPlain(x, Cleared(x)) /\ Cleared(x).d.opening = x.d.opening /\ Cleared(x).app = x.app
  BY <1>1 DEF IsPlain, Cleared, Uis, Dashes
<1>3. QED
  BY <1>2, PlainIsGood

LEMMA LeftIsGood ==
  ASSUME NEW x, NEW evs, NEW w, Good(x, evs, w)
  PROVE  Good(Left(x), evs, w)
<1>1. x \in Uis
  BY DEF Good
<1>2. IsPlain(x, Left(x))
  BY <1>1 DEF IsPlain, Left, Uis
<1>3. QED
  BY <1>2, PlainIsGood

\* The identity of a request is of none that is pending.
LEMMA FreshIdIsFresh ==
  ASSUME NEW d \in Dashes
  PROVE  FreshId(d) \in Nat /\ FreshId(d) \notin DOMAIN d.pending
<1> DEFINE ids == DOMAIN d.pending
<1>1. PICK some \in {s \in SUBSET Nat : IsFiniteSet(s)} : d.pending \in [some -> Ops]
  BY DEF Dashes, Pendings
<1>2. IsFiniteSet(ids) /\ Cardinality(ids) \in Nat
  BY <1>1, FS_CardinalityType
<1> DEFINE n == Cardinality(ids) + 1
<1>3. IsFiniteSet(1 .. n) /\ Cardinality(1 .. n) = n
  BY <1>2, FS_Interval
<1>4. \E id \in 1 .. n : id \notin ids
  <2>1. SUFFICES ASSUME 1 .. n \subseteq ids PROVE FALSE
    OBVIOUS
  <2>2. Cardinality(1 .. n) <= Cardinality(ids)
    BY <2>1, <1>2, FS_Subset
  <2>3. QED
    BY <2>2, <1>2, <1>3
<1>5. QED
  BY <1>4 DEF FreshId

LEMMA RequestedIs ==
  ASSUME NEW x \in Uis, NEW op \in Ops, Requested(x, op) # x
  PROVE  LET y == Requested(x, op)
             request == [id |-> FreshId(x.d), op |-> op]
         IN /\ y \in Uis
            /\ y.app = x.app /\ y.tasks = x.tasks
            /\ y.d.listed = x.d.listed /\ y.d.opening = x.d.opening
            /\ request \in Requests
            /\ y.queue = Append(x.queue, request)
            /\ DOMAIN y.d.pending = DOMAIN x.d.pending \cup {FreshId(x.d)}
<1> DEFINE y == Requested(x, op)
           fresh == FreshId(x.d)
           request == [id |-> fresh, op |-> op]
           pending == [id \in DOMAIN x.d.pending \cup {fresh} |-> IF id = fresh THEN op ELSE x.d.pending[id]]
           d == [x.d EXCEPT !.pending = pending]
           q == Append(x.queue, request)
<1>1. y = [[x EXCEPT !.d = d] EXCEPT !.queue = q]
  BY DEF Requested, Uis
<1>2. x.d \in Dashes /\ x.queue \in Seq(Requests)
  BY DEF Uis
<1>3. fresh \in Nat /\ request \in Requests
  BY <1>2, FreshIdIsFresh DEF Requests
<1>4. q \in Seq(Requests)
  BY <1>2, <1>3, AppendProperties
<1>5. pending \in Pendings /\ DOMAIN pending = DOMAIN x.d.pending \cup {fresh}
  <2>1. PICK some \in {s \in SUBSET Nat : IsFiniteSet(s)} : x.d.pending \in [some -> Ops]
    BY <1>2 DEF Dashes, Pendings
  <2>2. some \cup {fresh} \in {s \in SUBSET Nat : IsFiniteSet(s)}
    BY <2>1, <1>3, FS_Union, FS_Singleton
  <2>3. pending \in [some \cup {fresh} -> Ops]
    BY <2>1
  <2>4. QED
    BY <2>1, <2>2, <2>3 DEF Pendings
<1>6. d \in Dashes /\ d.listed = x.d.listed /\ d.opening = x.d.opening /\ d.pending = pending
  BY <1>2, <1>5 DEF Dashes
<1> HIDE DEF d, q, pending, request, fresh
<1>7. /\ y \in Uis /\ y.app = x.app /\ y.tasks = x.tasks
      /\ y.d = d /\ y.queue = q
  BY <1>1, <1>4, <1>6 DEF Uis
<1>8. QED
  BY <1>3, <1>5, <1>6, <1>7 DEF q, request, fresh, pending

\* A request waits for the pump, and is pending.
LEMMA RequestedIsGood ==
  ASSUME NEW x, NEW evs, NEW w, Good(x, evs, w), NEW op \in Ops
  PROVE  /\ Good(Requested(x, op), evs, w)
         /\ Requested(x, op).d.opening = x.d.opening /\ Requested(x, op).app = x.app
<1> DEFINE y == Requested(x, op)
           fresh == FreshId(x.d)
           request == [id |-> fresh, op |-> op]
<1>1. x \in Uis
  BY DEF Good
<1>2. SUFFICES ASSUME y # x PROVE Good(y, evs, w) /\ y.d.opening = x.d.opening /\ y.app = x.app
  OBVIOUS
<1>3. /\ y \in Uis
      /\ y.app = x.app /\ y.tasks = x.tasks
      /\ y.d.listed = x.d.listed /\ y.d.opening = x.d.opening
      /\ request \in Requests
      /\ y.queue = Append(x.queue, request)
      /\ DOMAIN y.d.pending = DOMAIN x.d.pending \cup {fresh}
  BY <1>1, <1>2, RequestedIs
<1>4. fresh \notin DOMAIN x.d.pending
  BY <1>1, FreshIdIsFresh DEF Uis
<1>5. /\ DOMAIN x.queue = 1 .. Len(x.queue) /\ DOMAIN y.queue = 1 .. Len(x.queue) + 1
      /\ Len(x.queue) \in Nat
      /\ \A i \in DOMAIN x.queue : y.queue[i] = x.queue[i]
      /\ y.queue[Len(x.queue) + 1].id = fresh
  BY <1>1, <1>3, AppendProperties, LenProperties DEF Uis
<1> HIDE DEF y, fresh, request
<1>6. SUFFICES ASSUME y.app = "runs" PROVE Agrees(y, evs, w)
  BY <1>3 DEF Good, Fair
<1>7. Agrees(x, evs, w)
  BY <1>3, <1>6 DEF Good
<1>8. \A id : IsSeen(y, w, id) <=> IsSeen(x, w, id)
  BY <1>3 DEF IsSeen
<1>9. Born(y, evs, w) /\ News(y, evs, w)
  BY <1>7, <1>8 DEF Agrees, Born, News
<1>10. Opens(y, w) /\ Screened(y, w)
  BY <1>3, <1>7 DEF Agrees, Opens, Screened, IsHeld
<1>11. OnItsWay(y, evs)
  <2>1. OnItsWay(x, evs)
    BY <1>7 DEF Agrees
  <2>2. \A i \in DOMAIN x.queue : x.queue[i].id # fresh
    BY <2>1, <1>4 DEF OnItsWay
  <2>3. \A j \in DOMAIN evs : ~IsReply(evs[j], fresh)
    BY <2>1, <1>4 DEF OnItsWay, IsReply
  <2>4. \A i \in DOMAIN y.queue : i \in DOMAIN x.queue \/ i = Len(x.queue) + 1
    BY <1>5
  <2>5. \A i, j \in DOMAIN y.queue : y.queue[i].id = y.queue[j].id => i = j
    BY <2>1, <2>2, <2>4, <1>5 DEF OnItsWay
  <2>6. \A i \in DOMAIN y.queue, j \in DOMAIN evs : ~IsReply(evs[j], y.queue[i].id)
    BY <2>1, <2>3, <2>4, <1>5 DEF OnItsWay
  <2>7. \A i \in DOMAIN y.queue : y.queue[i].id \in DOMAIN y.d.pending
    BY <2>1, <2>4, <1>3, <1>5 DEF OnItsWay
  <2>8. \A id \in DOMAIN y.d.pending :
          \/ \E i \in DOMAIN y.queue : y.queue[i].id = id
          \/ \E j \in DOMAIN evs : IsReply(evs[j], id)
    <3>1. TAKE id \in DOMAIN y.d.pending
    <3>2. CASE id = fresh
      BY <3>2, <1>5
    <3>3. CASE id \in DOMAIN x.d.pending
      <4>1. CASE \E i \in DOMAIN x.queue : x.queue[i].id = id
        BY <4>1, <1>5
      <4>2. QED
        BY <4>1, <3>3, <2>1 DEF OnItsWay
    <3>4. QED
      BY <3>2, <3>3, <1>3
  <2>9. QED
    BY <2>1, <2>5, <2>6, <2>7, <2>8, <1>3 DEF OnItsWay
<1>12. QED
  BY <1>9, <1>10, <1>11 DEF Agrees

\* A session may be opened unless it is being opened, has a screen, has not
\* been, or is only to be heard of.
MayOpen(evs, w, id) ==
  id \notin w.unborn /\ id \notin w.registry /\ \A k \in DOMAIN evs : ~IsNews(evs[k], id)

LEMMA OpenedIsGood ==
  ASSUME NEW x, NEW evs, NEW w, Good(x, evs, w), NEW attachment \in Attachments,
         attachment.force => attachment.asked = attachment.id,
         x.app = "runs" => MayOpen(evs, w, attachment.id)
  PROVE  Good(Opened(x, attachment), evs, w)
<1> DEFINE y == Opened(x, attachment)
           new == attachment.id
<1>1. x \in Uis /\ new \in Sessions
  BY DEF Good, Attachments
<1>2. SUFFICES ASSUME new \notin x.d.opening PROVE Good(y, evs, w)
  BY DEF Opened
<1>3. /\ y \in Uis /\ y.app = x.app /\ y.queue = x.queue
      /\ y.tasks = x.tasks \cup {attachment}
      /\ y.d.listed = x.d.listed /\ y.d.pending = x.d.pending
      /\ y.d.opening = x.d.opening \cup {new}
  BY <1>1, <1>2 DEF Opened, Uis, Dashes
<1> HIDE DEF y
<1>4. SUFFICES ASSUME y.app = "runs" PROVE Agrees(y, evs, w)
  BY <1>3 DEF Good, Fair
<1>5. Agrees(x, evs, w) /\ MayOpen(evs, w, new)
  BY <1>3, <1>4 DEF Good
<1>6. \A id : IsSeen(y, w, id) => IsSeen(x, w, id) \/ id = new
  BY <1>3 DEF IsSeen
<1>7. Born(y, evs, w) /\ News(y, evs, w)
  BY <1>5, <1>6 DEF Agrees, Born, News, MayOpen
<1>8. ~IsHeld(x, w, new)
  BY <1>1, <1>2, <1>5 DEF Agrees, Opens
<1>9. Opens(y, w)
  <2>1. \A task \in x.tasks : task.id # new
    BY <1>8 DEF IsHeld
  <2>2. \A id \in Sessions : IsHeld(y, w, id) => id \in y.d.opening
    BY <1>3, <1>5 DEF Agrees, Opens, IsHeld
  <2>3. QED
    BY <1>3, <1>5, <1>8, <2>1, <2>2 DEF Agrees, Opens, IsHeld
<1>10. Screened(y, w)
  BY <1>3, <1>5 DEF Agrees, Screened, MayOpen
<1>11. OnItsWay(y, evs)
  BY <1>3, <1>5 DEF Agrees, OnItsWay
<1>12. QED
  BY <1>7, <1>9, <1>10, <1>11 DEF Agrees

-----------------------------------------------------------------------------
(* What is selected is listed.                                             *)

Below == {pair \in Nat \X Nat : pair[1] < pair[2]}

LEMMA BelowIsWellFounded == IsWellFoundedOn(Below, Nat)
BY ONLY NatLessThanWellFounded DEF OpToRel, Below

LEMMA LeastNumber ==
  ASSUME NEW I \in SUBSET Nat, I # {}
  PROVE  \E i \in I : \A j \in I : i <= j
<1>1. PICK i \in I : \A j \in I : ~(<<j, i>> \in Below)
  BY BelowIsWellFounded, WFMin
<1>2. ASSUME NEW j \in I PROVE i <= j
  <2>1. ~(j < i)
    BY <1>1 DEF Below
  <2>2. QED
    BY <2>1
<1>3. QED
  BY <1>2

\* The first session that a test finds is at a position of the list.
LEMMA NamedIsListed ==
  ASSUME NEW d \in Dashes
  PROVE  LET named == SelectInSeq(d.listed, LAMBDA one : one.name = d.query)
         IN named # 0 => named \in DOMAIN d.listed
<1> DEFINE I == {i \in 1 .. Len(d.listed) : d.listed[i].name = d.query}
<1>1. d.listed \in Seq(Records) /\ DOMAIN d.listed = 1 .. Len(d.listed) /\ Len(d.listed) \in Nat
  BY LenProperties DEF Dashes
<1>2. CASE I = {}
  BY <1>2 DEF SelectInSeq
<1>3. CASE I # {}
  <2>1. \E i \in I : \A j \in I : i <= j
    <3>1. I \in SUBSET Nat
      BY <1>1
    <3> HIDE DEF I
    <3>2. QED
      BY <3>1, <1>3, LeastNumber
  <2>2. SelectInSeq(d.listed, LAMBDA one : one.name = d.query) = CHOOSE i \in I : \A j \in I : i <= j
    BY <1>3 DEF SelectInSeq, Min
  <2>3. QED
    BY <1>1, <2>1, <2>2
<1>4. QED
  BY <1>2, <1>3

LEMMA FilteredIs ==
  ASSUME NEW d \in Dashes
  PROVE  /\ Filtered(d) \in Seq(Records)
         /\ \A i \in 1 .. Len(Filtered(d)) : Filtered(d)[i].id \in IdsOf(d.listed)
<1> DEFINE named == SelectInSeq(d.listed, LAMBDA one : one.name = d.query)
<1>1. d.listed \in Seq(Records) /\ DOMAIN d.listed = 1 .. Len(d.listed) /\ Len(d.listed) \in Nat
  BY LenProperties DEF Dashes
<1>2. named # 0 => named \in DOMAIN d.listed
  BY NamedIsListed
<1>3. Filtered(d) = IF d.query = NoName THEN d.listed ELSE IF named = 0 THEN <<>> ELSE <<d.listed[named]>>
  BY DEF Filtered
<1> HIDE DEF named
<1>4. CASE d.query = NoName
  BY <1>1, <1>3, <1>4 DEF IdsOf
<1>5. CASE d.query # NoName /\ named = 0
  BY <1>3, <1>5
<1>6. CASE d.query # NoName /\ named # 0
  BY <1>1, <1>2, <1>3, <1>6 DEF IdsOf
<1>7. QED
  BY <1>4, <1>5, <1>6

LEMMA SelectedIsListed ==
  ASSUME NEW d \in Dashes, SelectedSession(d) # NoSession
  PROVE  SelectedSession(d) \in Records /\ SelectedSession(d).id \in IdsOf(d.listed)
<1>1. d.selected + 1 \in 1 .. Len(Filtered(d)) /\ SelectedSession(d) = Filtered(d)[d.selected + 1]
  <2>1. d.selected < Len(Filtered(d)) /\ SelectedSession(d) = Filtered(d)[d.selected + 1]
    BY DEF SelectedSession
  <2>2. d.selected \in Nat /\ Len(Filtered(d)) \in Nat
    BY FilteredIs, LenProperties DEF Dashes
  <2>3. QED
    BY <2>1, <2>2
<1>2. QED
  BY <1>1, FilteredIs, ElementOfSeq

LEMMA OpenSelectedIsGood ==
  ASSUME NEW x, NEW evs, Good(x, evs, Rest), NEW view \in BOOLEAN, NEW force \in BOOLEAN,
         NEW asked \in Sessions \cup {NoSession},
         force => asked = SelectedSession(x.d).id
  PROVE  Good(OpenSelected(x, view, force, asked), evs, Rest)
<1> DEFINE session == SelectedSession(x.d)
           attachment == Attachment(session.id, view, force, asked)
<1>1. x \in Uis /\ x.d \in Dashes
  BY DEF Good, Uis
<1>2. SUFFICES ASSUME session # NoSession, session.id \notin registry
               PROVE  Good(Opened(x, attachment), evs, Rest)
  BY DEF OpenSelected
<1>3. session \in Records /\ session.id \in IdsOf(x.d.listed)
  BY <1>1, <1>2, SelectedIsListed
<1> HIDE DEF session
<1>4. attachment \in Attachments /\ attachment.id = session.id /\ attachment.force = force /\ attachment.asked = asked
  BY <1>3 DEF Attachment, Attachments, Records
<1>5. attachment.force => attachment.asked = attachment.id
  BY <1>4 DEF session
<1>6. ASSUME x.app = "runs" PROVE MayOpen(evs, Rest, session.id)
  <2>1. Born(x, evs, Rest) /\ News(x, evs, Rest)
    BY <1>6 DEF Good, Agrees
  <2>2. IsSeen(x, Rest, session.id) /\ session.id \in Sessions
    BY <1>3 DEF IsSeen, Records
  <2>3. Rest.registry = registry
    BY DEF Rest
  <2>4. QED
    BY <1>2, <2>1, <2>2, <2>3 DEF Born, News, MayOpen
<1> HIDE DEF attachment
<1>7. QED
  BY <1>4, <1>5, <1>6, OpenedIsGood

-----------------------------------------------------------------------------
(* What the pump has for the dashboard                                     *)

\* The rest of what waits.
LEMMA TailIs ==
  ASSUME NEW S, NEW evs \in Seq(S), evs # <<>>
  PROVE  /\ Head(evs) = evs[1] /\ Head(evs) \in S /\ Tail(evs) \in Seq(S)
         /\ 1 \in DOMAIN evs /\ DOMAIN evs \subseteq Nat
         /\ \A k \in DOMAIN Tail(evs) : k \in Nat /\ k + 1 \in DOMAIN evs /\ Tail(evs)[k] = evs[k + 1] /\ k + 1 > 1
         /\ \A k \in DOMAIN evs : k # 1 => k - 1 \in DOMAIN Tail(evs) /\ evs[k] = Tail(evs)[k - 1]
<1>1. /\ DOMAIN evs = 1 .. Len(evs) /\ Len(evs) \in Nat \ {0}
      /\ Tail(evs) \in Seq(S) /\ DOMAIN Tail(evs) = 1 .. Len(evs) - 1
  BY HeadTailProperties, LenProperties, EmptySeq
<1>2. \A k \in DOMAIN Tail(evs) : Tail(evs)[k] = evs[k + 1]
  BY HeadTailProperties, <1>1
<1>3. Head(evs) = evs[1] /\ Head(evs) \in S
  BY HeadTailProperties
<1>4. \A k \in DOMAIN evs : k # 1 => k - 1 \in DOMAIN Tail(evs) /\ (k - 1) + 1 = k
  BY <1>1
<1>5. QED
  BY <1>1, <1>2, <1>3, <1>4

\* All but an answer's operation stays as it is when the first event is
\* taken off the queue.
LEMMA TailIsGood ==
  ASSUME NEW x, NEW evs, NEW w, Good(x, evs, w), evs # <<>>
  PROVE  /\ Tail(evs) \in Seq(Events)
         /\ x.app = "runs" => Born(x, Tail(evs), w) /\ News(x, Tail(evs), w)
<1>1. evs \in Seq(Events)
  BY DEF Good
<1> DEFINE rest == Tail(evs)
<1>2. /\ rest \in Seq(Events) /\ DOMAIN evs \subseteq Nat
      /\ \A k \in DOMAIN rest : k \in Nat /\ k + 1 \in DOMAIN evs /\ rest[k] = evs[k + 1]
  BY <1>1, TailIs
<1> HIDE DEF rest
<1>3. ASSUME x.app = "runs" PROVE Born(x, rest, w) /\ News(x, rest, w)
  <2>1. Born(x, evs, w) /\ News(x, evs, w)
    BY <1>3 DEF Good, Agrees
  <2>2. Born(x, rest, w)
    BY <2>1, <1>2 DEF Born
  <2>3. ASSUME NEW k \in DOMAIN rest, NEW id \in Sessions, IsNews(rest[k], id)
        PROVE  /\ ~IsSeen(x, w, id)
               /\ \A j \in DOMAIN rest : (j < k => ~Lists(rest[j], id)) /\ (IsNews(rest[j], id) => j = k)
    <3>1. k + 1 \in DOMAIN evs /\ IsNews(evs[k + 1], id)
      BY <1>2, <2>3
    <3>2. /\ ~IsSeen(x, w, id)
          /\ \A j \in DOMAIN evs : (j < k + 1 => ~Lists(evs[j], id)) /\ (IsNews(evs[j], id) => j = k + 1)
      BY <2>1, <3>1 DEF News
    <3>3. ASSUME NEW j \in DOMAIN rest
          PROVE (j < k => ~Lists(rest[j], id)) /\ (IsNews(rest[j], id) => j = k)
      <4>1. /\ j \in Nat /\ k \in Nat /\ j + 1 \in DOMAIN evs /\ rest[j] = evs[j + 1]
        BY <1>2
      <4>2. (j + 1 < k + 1 => ~Lists(rest[j], id)) /\ (IsNews(rest[j], id) => j + 1 = k + 1)
        BY <3>2, <4>1
      <4>3. (j < k => j + 1 < k + 1) /\ (j + 1 = k + 1 => j = k)
        BY <4>1
      <4>4. QED
        BY <4>2, <4>3
    <3>4. QED
      BY <3>2, <3>3
  <2>4. QED
    BY <2>2, <2>3 DEF News
<1>4. QED
  BY <1>2, <1>3 DEF rest

\* An event that is not a reply leaves what is pending alone.
LEMMA NoReplyIsGood ==
  ASSUME NEW x, NEW evs, NEW w, Good(x, evs, w), evs # <<>>, x.app = "runs",
         Head(evs).kind # "completed" \/ Head(evs).id \notin DOMAIN x.d.pending
  PROVE  Good(x, Tail(evs), w)
<1>1. evs \in Seq(Events)
  BY DEF Good
<1> DEFINE rest == Tail(evs)
<1>2. /\ Head(evs) = evs[1] /\ 1 \in DOMAIN evs
      /\ \A k \in DOMAIN rest : k \in Nat /\ k + 1 \in DOMAIN evs /\ rest[k] = evs[k + 1]
      /\ \A k \in DOMAIN evs : k # 1 => k - 1 \in DOMAIN rest /\ evs[k] = rest[k - 1]
  BY <1>1, TailIs
<1>3. Agrees(x, evs, w)
  BY DEF Good
<1>4. evs[1].kind # "completed"
  BY <1>2, <1>3 DEF Agrees, OnItsWay
<1>5. Born(x, rest, w) /\ News(x, rest, w) /\ rest \in Seq(Events)
  BY TailIsGood
<1> HIDE DEF rest
<1>6. OnItsWay(x, rest)
  <2>1. OnItsWay(x, evs)
    BY <1>3 DEF Agrees
  <2>2. \A i, j \in DOMAIN rest : rest[i].kind = "completed" /\ IsReply(rest[j], rest[i].id) => i = j
    BY <2>1, <1>2 DEF OnItsWay
  <2>3. \A i \in DOMAIN x.queue, j \in DOMAIN rest : ~IsReply(rest[j], x.queue[i].id)
    BY <2>1, <1>2 DEF OnItsWay
  <2>4. \A j \in DOMAIN rest : rest[j].kind = "completed" => rest[j].id \in DOMAIN x.d.pending
    BY <2>1, <1>2 DEF OnItsWay
  <2>5. \A j \in DOMAIN evs : \A id : IsReply(evs[j], id) => \E k \in DOMAIN rest : IsReply(rest[k], id)
    BY <1>2, <1>4 DEF IsReply
  <2>6. \A id \in DOMAIN x.d.pending :
          \/ \E i \in DOMAIN x.queue : x.queue[i].id = id
          \/ \E j \in DOMAIN rest : IsReply(rest[j], id)
    BY <2>1, <2>5 DEF OnItsWay
  <2>7. QED
    BY <2>1, <2>2, <2>3, <2>4, <2>6 DEF OnItsWay
<1>7. QED
  BY <1>3, <1>5, <1>6 DEF Good, Agrees, rest

\* What was pending under the identity of a reply is pending no more.
LEMMA AnsweredIsGood ==
  ASSUME NEW x, NEW evs, NEW w, Good(x, evs, w), evs # <<>>, x.app = "runs",
         Head(evs).kind = "completed", Head(evs).id \in DOMAIN x.d.pending
  PROVE  LET y == [x EXCEPT !.d = [@ EXCEPT !.pending = Answered(x.d, Head(evs))]]
         IN Good(y, Tail(evs), w) /\ y.app = "runs"
<1>1. evs \in Seq(Events) /\ x \in Uis
  BY DEF Good
<1> DEFINE rest == Tail(evs)
           answer == Head(evs).id
           pending == Answered(x.d, Head(evs))
           y == [x EXCEPT !.d = [@ EXCEPT !.pending = pending]]
<1>2. /\ Head(evs) = evs[1] /\ 1 \in DOMAIN evs
      /\ \A k \in DOMAIN rest : k \in Nat /\ k + 1 \in DOMAIN evs /\ rest[k] = evs[k + 1] /\ k + 1 > 1
      /\ \A k \in DOMAIN evs : k # 1 => k - 1 \in DOMAIN rest /\ evs[k] = rest[k - 1]
  BY <1>1, TailIs
<1>3. Agrees(x, evs, w)
  BY DEF Good
<1>4. pending \in Pendings /\ DOMAIN pending = DOMAIN x.d.pending \ {answer}
  <2>1. PICK some \in {s \in SUBSET Nat : IsFiniteSet(s)} : x.d.pending \in [some -> Ops]
    BY <1>1 DEF Uis, Dashes, Pendings
  <2>2. some \ {answer} \in {s \in SUBSET Nat : IsFiniteSet(s)}
    BY <2>1, FS_Subset
  <2>3. pending \in [some \ {answer} -> Ops]
    BY <2>1 DEF Answered, Restrict
  <2>4. QED
    BY <2>1, <2>2, <2>3 DEF Pendings
<1> HIDE DEF pending
<1>5. /\ y \in Uis /\ y.app = x.app /\ y.tasks = x.tasks /\ y.queue = x.queue
      /\ y.d.pending = pending /\ y.d.listed = x.d.listed /\ y.d.opening = x.d.opening
  BY <1>1, <1>4 DEF Uis, Dashes
<1> HIDE DEF y
<1>6. Born(x, rest, w) /\ News(x, rest, w) /\ rest \in Seq(Events)
  BY TailIsGood
<1>7. Born(y, rest, w) /\ News(y, rest, w)
  <2>1. \A id : IsSeen(y, w, id) <=> IsSeen(x, w, id)
    BY <1>5 DEF IsSeen
  <2>2. QED
    BY <1>6, <2>1 DEF Born, News
<1>8. Opens(y, w) /\ Screened(y, w)
  BY <1>3, <1>5 DEF Agrees, Opens, Screened, IsHeld
<1> HIDE DEF rest
<1>9. OnItsWay(y, rest)
  <2>1. OnItsWay(x, evs) /\ evs[1].kind = "completed" /\ evs[1].id = answer
    BY <1>2, <1>3 DEF Agrees
  <2>2. \A i, j \in DOMAIN rest : rest[i].kind = "completed" /\ IsReply(rest[j], rest[i].id) => i = j
    BY <2>1, <1>2 DEF OnItsWay
  <2>3. \A i \in DOMAIN y.queue, j \in DOMAIN rest : ~IsReply(rest[j], y.queue[i].id)
    BY <2>1, <1>2, <1>5 DEF OnItsWay
  <2>4. \A j \in DOMAIN rest : rest[j].kind = "completed" => rest[j].id # answer
    <3>1. TAKE j \in DOMAIN rest
    <3>2. HAVE rest[j].kind = "completed"
    <3>3. j \in Nat /\ j + 1 \in DOMAIN evs /\ rest[j] = evs[j + 1] /\ j + 1 # 1
      BY <1>2
    <3>4. ~IsReply(evs[j + 1], evs[1].id)
      BY <2>1, <3>3, <1>2 DEF OnItsWay
    <3>5. QED
      BY <2>1, <3>2, <3>3, <3>4 DEF IsReply
  <2>5. \A j \in DOMAIN rest : rest[j].kind = "completed" => rest[j].id \in DOMAIN pending
    BY <2>1, <2>4, <1>2, <1>4 DEF OnItsWay
  <2>6. \A i \in DOMAIN x.queue : x.queue[i].id # answer
    BY <2>1, <1>2 DEF OnItsWay, IsReply
  <2>7. \A i \in DOMAIN y.queue : y.queue[i].id \in DOMAIN pending
    BY <2>1, <2>6, <1>4, <1>5 DEF OnItsWay
  <2>8. \A j \in DOMAIN evs : \A id : IsReply(evs[j], id) /\ id # answer => \E k \in DOMAIN rest : IsReply(rest[k], id)
    BY <2>1, <1>2 DEF IsReply
  <2>9. \A id \in DOMAIN pending :
          \/ \E i \in DOMAIN y.queue : y.queue[i].id = id
          \/ \E j \in DOMAIN rest : IsReply(rest[j], id)
    BY <2>1, <2>8, <1>4, <1>5 DEF OnItsWay
  <2>10. QED
    BY <2>1, <2>2, <2>3, <2>5, <2>7, <2>9, <1>5 DEF OnItsWay
<1>10. Fair(y)
  BY <1>5 DEF Good, Fair
<1>11. QED
  BY <1>5, <1>6, <1>7, <1>8, <1>9, <1>10 DEF Good, Agrees, y, pending, rest

LEMMA ReplacedIsGood ==
  ASSUME NEW x, NEW evs, NEW w, Good(x, evs, w), x.app = "runs", NEW list \in Seq(Records),
         \A id \in IdsOf(list) : id \notin w.unborn /\ \A k \in DOMAIN evs : ~IsNews(evs[k], id)
  PROVE  Good([x EXCEPT !.d = ReplaceSessions(@, list)], evs, w)
<1> DEFINE d == ReplaceSessions(x.d, list)
           y == [x EXCEPT !.d = ReplaceSessions(@, list)]
<1>1. x \in Uis /\ x.d \in Dashes
  BY DEF Good, Uis
<1>2. /\ d \in Dashes /\ d.listed = list
      /\ d.pending = x.d.pending /\ d.opening = x.d.opening
  <2> DEFINE next == [x.d EXCEPT !.listed = list]
             last == LastOf(Filtered(next))
  <2>1. /\ next \in Dashes /\ next.listed = list /\ next.selected = x.d.selected
        /\ next.pending = x.d.pending /\ next.opening = x.d.opening
    BY <1>1 DEF Dashes
  <2>2. d = [next EXCEPT !.selected = AtMost(@, last)]
    BY DEF ReplaceSessions
  <2> HIDE DEF next
  <2>3. last \in Nat
    <3>1. Filtered(next) \in Seq(Records)
      BY <2>1, FilteredIs
    <3>2. Filtered(next) # <<>> => Len(Filtered(next)) \in Nat \ {0}
      BY <3>1, EmptySeq
    <3>3. QED
      BY <3>2 DEF LastOf
  <2> HIDE DEF last
  <2>4. AtMost(next.selected, last) \in Nat
    BY <2>1, <2>3 DEF Dashes, AtMost
  <2>5. QED
    BY <2>1, <2>2, <2>4 DEF Dashes
<1> HIDE DEF d
<1>3. /\ y \in Uis /\ y.app = x.app /\ y.tasks = x.tasks /\ y.queue = x.queue
      /\ y.d.pending = x.d.pending /\ y.d.listed = list /\ y.d.opening = x.d.opening
  <2>1. y = [x EXCEPT !.d = d]
    BY <1>1 DEF d, Uis
  <2> HIDE DEF y
  <2>2. QED
    BY <2>1, <1>1, <1>2 DEF Uis
<1> HIDE DEF y
<1>4. Agrees(x, evs, w) /\ Fair(x)
  BY DEF Good
<1>5. \A id : IsSeen(y, w, id) => IsSeen(x, w, id) \/ id \in IdsOf(list)
  BY <1>3 DEF IsSeen
<1>6. Born(y, evs, w) /\ News(y, evs, w)
  BY <1>4, <1>5 DEF Agrees, Born, News
<1>7. Opens(y, w) /\ Screened(y, w)
  BY <1>3, <1>4 DEF Agrees, Opens, Screened, IsHeld
<1>8. OnItsWay(y, evs)
  BY <1>3, <1>4 DEF Agrees, OnItsWay
<1>9. Good(y, evs, w)
  BY <1>3, <1>4, <1>6, <1>7, <1>8 DEF Good, Agrees, Fair
<1>10. QED
  BY <1>9 DEF y

LEMMA RefreshIsAnOp == Refresh \in Ops
BY DEF Refresh, Ops

\* A reply tells of a session that there has been, and of its birth before
\* anything else does.
LEMMA CompletedIsGood ==
  ASSUME NEW x, NEW evs, NEW w, Good(x, evs, w), x.app = "runs", NEW op \in Ops, NEW reply \in Replies,
         reply.kind = "sessions" =>
           \A id \in IdsOf(reply.sessions) : id \notin w.unborn /\ \A k \in DOMAIN evs : ~IsNews(evs[k], id),
         reply.kind = "created" => MayOpen(evs, w, reply.session.id)
  PROVE  Good(Completed(x, op, reply), evs, w)
<1>1. CASE reply.kind = "sessions"
  <2>1. reply.sessions \in Seq(Records)
    BY <1>1 DEF Replies
  <2>2. Completed(x, op, reply) = [x EXCEPT !.d = ReplaceSessions(@, reply.sessions)]
    BY <1>1 DEF Completed
  <2>3. QED
    BY <1>1, <2>1, <2>2, ReplacedIsGood
<1>2. CASE reply.kind = "created"
  <2> DEFINE y == Requested(Cleared(x), Refresh)
             attachment == Attachment(reply.session.id, FALSE, FALSE, NoSession)
  <2>1. Good(y, evs, w)
    BY ClearedIsGood, RequestedIsGood, RefreshIsAnOp
  <2>2. attachment \in Attachments /\ attachment.id = reply.session.id /\ attachment.force = FALSE
    <3>1. reply.session.id \in Sessions
      BY <1>2 DEF Replies, Records
    <3>2. QED
      BY <3>1 DEF Attachment, Attachments
  <2>3. Completed(x, op, reply) = Opened(y, attachment)
    BY <1>2 DEF Completed
  <2> HIDE DEF y, attachment
  <2>4. QED
    BY <1>2, <2>1, <2>2, <2>3, OpenedIsGood
<1>3. CASE reply.kind = "renamed"
  <2>1. Completed(x, op, reply) = Requested(Cleared(x), Refresh)
    BY <1>3 DEF Completed
  <2>2. QED
    BY <2>1, ClearedIsGood, RequestedIsGood, RefreshIsAnOp
<1>4. CASE reply.kind = "stopping" /\ op.kind = "delete"
  <2>1. Completed(x, op, reply) = Requested(InMode(x, Browse), Refresh)
    BY <1>4 DEF Completed
  <2>2. Browse \in Modes
    BY DEF Browse, Modes
  <2>3. QED
    BY <2>1, <2>2, InModeIsGood, RequestedIsGood, RefreshIsAnOp
<1>5. CASE reply.kind = "stopping" /\ op.kind = "stop"
  <2>1. Completed(x, op, reply) = Left(x)
    BY <1>5 DEF Completed
  <2>2. QED
    BY <2>1, LeftIsGood
<1>6. CASE /\ reply.kind \notin {"sessions", "created", "renamed"}
           /\ ~(reply.kind = "stopping" /\ op.kind \in {"delete", "stop"})
  <2>1. Completed(x, op, reply) = x
    BY <1>6 DEF Completed
  <2>2. QED
    BY <2>1
<1>7. QED
  BY <1>1, <1>2, <1>3, <1>4, <1>5, <1>6

LEMMA UiIs == With(dash) = Ui /\ Ui.d = dash /\ Ui.queue = queue /\ Ui.tasks = tasks /\ Ui.app = app
BY DEF Ui, With

LEMMA RestIs ==
  Rest.unborn = unborn /\ Rest.opened = opened /\ Rest.registry = registry /\ Rest.screens = screens
BY DEF Rest

LEMMA AppliedIsGood ==
  ASSUME DashInv, app = "runs", events # <<>>
  PROVE  Good(Applied(Head(events)), Tail(events), Rest)
<1> DEFINE event == Head(events)
           rest == Tail(events)
<1>1. Good(Ui, events, Rest) /\ Ui.app = "runs" /\ events \in Seq(Events)
  BY UiIs DEF DashInv, Good
<1>2. /\ event = events[1] /\ event \in Events /\ 1 \in DOMAIN events
      /\ \A k \in DOMAIN rest : k \in Nat /\ k + 1 \in DOMAIN events /\ rest[k] = events[k + 1] /\ k + 1 > 1
  BY <1>1, TailIs
<1>3. CASE event.kind # "completed"
  <2>1. Good(Ui, rest, Rest)
    BY <1>1, <1>3, NoReplyIsGood
  <2>2. event = Reconnected \/ event = ShutDown
    BY <1>2, <1>3 DEF Events, Reconnected, ShutDown
  <2>3. Applied(event) = Requested(Ui, Refresh) \/ Applied(event) = Left(Ui)
    BY <2>2 DEF Applied
  <2>4. QED
    BY <2>1, <2>3, RequestedIsGood, LeftIsGood, RefreshIsAnOp
<1>4. CASE event.kind = "completed" /\ event.id \notin DOMAIN dash.pending
  <2>1. Good(Ui, rest, Rest)
    BY <1>1, <1>4, NoReplyIsGood, UiIs
  <2>2. event # Reconnected /\ event # ShutDown
    BY <1>4 DEF Reconnected, ShutDown
  <2>3. Applied(event) = Ui
    BY <2>2, <1>4 DEF Applied
  <2>4. QED
    BY <2>1, <2>3
<1>5. CASE event.kind = "completed" /\ event.id \in DOMAIN dash.pending
  <2> DEFINE y == [Ui EXCEPT !.d = [@ EXCEPT !.pending = Answered(Ui.d, event)]]
             op == dash.pending[event.id]
             reply == event.reply
  <2>1. Good(y, rest, Rest) /\ y.app = "runs"
    BY <1>1, <1>5, AnsweredIsGood, UiIs
  <2>2. event # Reconnected /\ event # ShutDown
    BY <1>5 DEF Reconnected, ShutDown
  <2>3. Applied(event) = Completed(y, op, reply)
    BY <2>2, <1>5, UiIs DEF Applied, With, Ui
  <2>4. op \in Ops
    <3>1. dash \in Dashes
      BY <1>1, UiIs DEF Good, Uis
    <3>2. QED
      BY <3>1, <1>5 DEF Dashes, Pendings
  <2>5. reply \in Replies
    BY <1>2, <1>5 DEF Events
  <2>6. Born(Ui, events, Rest) /\ News(Ui, events, Rest)
    BY <1>1 DEF Good, Agrees
  <2>7. ASSUME reply.kind = "sessions", NEW id \in IdsOf(reply.sessions)
        PROVE id \notin Rest.unborn /\ \A k \in DOMAIN rest : ~IsNews(rest[k], id)
    <3>1. Lists(events[1], id)
      BY <1>2, <1>5, <2>7 DEF Lists
    <3>2. id \notin Rest.unborn
      BY <3>1, <1>2, <2>6 DEF Born
    <3>3. id \in Sessions
      <4>1. reply.sessions \in Seq(Records)
        BY <2>5, <2>7 DEF Replies
      <4>2. DOMAIN reply.sessions = 1 .. Len(reply.sessions)
        BY <4>1, LenProperties
      <4>3. PICK i \in DOMAIN reply.sessions : reply.sessions[i].id = id
        BY <2>7 DEF IdsOf
      <4>4. reply.sessions[i] \in Records
        BY <4>1, <4>2, ElementOfSeq
      <4>5. QED
        BY <4>3, <4>4 DEF Records
    <3>4. ASSUME NEW k \in DOMAIN rest, IsNews(rest[k], id) PROVE FALSE
      BY <3>1, <3>3, <3>4, <1>2, <2>6 DEF News
    <3>5. QED
      BY <3>2, <3>4
  <2>8. ASSUME reply.kind = "created" PROVE MayOpen(rest, Rest, reply.session.id)
    <3>1. IsNews(events[1], reply.session.id) /\ reply.session.id \in Sessions
      BY <1>2, <1>5, <2>5, <2>8 DEF IsNews, Replies, Records
    <3>2. reply.session.id \notin Rest.unborn
      BY <3>1, <1>2, <2>6 DEF Born
    <3>3. reply.session.id \notin Rest.registry
      BY <3>1, <1>2, <2>6 DEF News, IsSeen
    <3>4. ASSUME NEW k \in DOMAIN rest, IsNews(rest[k], reply.session.id) PROVE FALSE
      <4>1. k + 1 \in DOMAIN events /\ IsNews(events[k + 1], reply.session.id) /\ k \in Nat
        BY <1>2, <3>4
      <4>2. k + 1 = 1
        BY <4>1, <3>1, <1>2, <2>6 DEF News
      <4>3. QED
        BY <4>1, <4>2
    <3>5. QED
      BY <3>2, <3>3, <3>4 DEF MayOpen
  <2> HIDE DEF y, op, reply, rest
  <2>9. QED
    BY <2>1, <2>3, <2>4, <2>5, <2>7, <2>8, CompletedIsGood DEF rest
<1>6. QED
  BY <1>3, <1>4, <1>5

-----------------------------------------------------------------------------
(* The handlers of the dashboard                                           *)

LEMMA HandlesKeeps ==
  ASSUME DashInv, NEW x, Good(x, events, Rest), Handles(x)
  PROVE  DashInv'
<1>1. x \in Uis
  BY DEF Good
<1>2. Ui' = x
  BY <1>1 DEF Handles, Becomes, Ui, Uis
<1>3. Rest' = Rest /\ events' = events /\ leader' = leader /\ unborn' = unborn
  BY DEF Handles, Rest
<1>4. Resident'
  BY <1>3 DEF DashInv, Resident, IdsOf
<1>5. Good(Ui', events', Rest')
  BY <1>2, <1>3
<1>6. QED
  BY <1>4, <1>5 DEF DashInv

\* A dashboard in which only the mode, the query or the selection differ.
LEMMA WithIsGood ==
  ASSUME DashInv, NEW d \in Dashes,
         d.listed = dash.listed, d.pending = dash.pending, d.opening = dash.opening
  PROVE  Good(With(d), events, Rest)
<1>1. Good(Ui, events, Rest) /\ Ui \in Uis
  BY DEF DashInv, Good
<1>2. IsPlain(Ui, With(d))
  BY <1>1 DEF IsPlain, With, Ui, Uis
<1>3. QED
  BY <1>1, <1>2, PlainIsGood

LEMMA DashIs ==
  ASSUME DashInv
  PROVE  dash \in Dashes /\ Good(Ui, events, Rest)
BY UiIs DEF DashInv, Good, Uis

LEMMA BrowseIsAMode ==
  /\ {Browse, Search, Create, ConfirmStopLeader} \subseteq Modes
  /\ \A id \in Sessions : {Rename(id), ConfirmTake(id), ConfirmDelete(id)} \subseteq Modes
BY DEF Modes, Browse, Search, Create, ConfirmStopLeader, Rename, ConfirmTake, ConfirmDelete

LEMMA MovedIsGood ==
  ASSUME DashInv, NEW delta \in Moves
  PROVE  Good(With(MoveSelection(dash, delta)), events, Rest)
<1>1. dash \in Dashes
  BY DashIs
<1> DEFINE last == LastOf(Filtered(dash))
           moved == IF Filtered(dash) = <<>> THEN 0
                    ELSE IF delta < 0 THEN (IF dash.selected + delta < 0 THEN 0 ELSE dash.selected + delta)
                    ELSE AtMost(dash.selected + delta, last)
<1>2. last \in Nat
  <2>1. Filtered(dash) # <<>> => Len(Filtered(dash)) \in Nat \ {0}
    BY <1>1, FilteredIs, EmptySeq
  <2>2. QED
    BY <2>1 DEF LastOf
<1>3. MoveSelection(dash, delta) = [dash EXCEPT !.selected = moved]
  BY <1>1 DEF MoveSelection, Dashes
<1> HIDE DEF last
<1>4. moved \in Nat
  BY <1>1, <1>2 DEF Dashes, Moves, AtMost
<1> HIDE DEF moved
<1>5. QED
  BY <1>1, <1>3, <1>4, WithIsGood DEF Dashes

LEMMA CommandIsGood ==
  ASSUME DashInv, NEW x \in Commands(SelectedSession(dash))
  PROVE  Good(x, events, Rest)
<1> DEFINE session == SelectedSession(dash)
<1>1. dash \in Dashes /\ Good(Ui, events, Rest) /\ Ui.d = dash
  BY DashIs, UiIs
<1>2. NoSession \in Sessions \cup {NoSession}
  OBVIOUS
<1>3. CASE x \in {Cleared(InMode(Ui, Search)), Cleared(InMode(Ui, Create)), InMode(Ui, ConfirmStopLeader)}
  BY <1>1, <1>3, InModeIsGood, ClearedIsGood, BrowseIsAMode
<1>4. CASE x = OpenSelected(Ui, session # NoSession /\ session.driver # "none", FALSE, NoSession)
  BY <1>1, <1>2, <1>4, OpenSelectedIsGood
<1>5. CASE x = OpenSelected(Ui, TRUE, FALSE, NoSession)
  BY <1>1, <1>2, <1>5, OpenSelectedIsGood
<1>6. ASSUME session # NoSession,
             x \in {IF session.driver = "none" THEN OpenSelected(Ui, FALSE, FALSE, NoSession)
                    ELSE InMode(Ui, ConfirmTake(session.id)),
                    InMode(With([dash EXCEPT !.query = session.name]), Rename(session.id)),
                    InMode(Ui, ConfirmDelete(session.id))}
      PROVE  Good(x, events, Rest)
  <2>1. session \in Records
    BY <1>1, <1>6, SelectedIsListed
  <2>2. session.id \in Sessions /\ session.name \in Names
    BY <2>1 DEF Records
  <2>3. Good(OpenSelected(Ui, FALSE, FALSE, NoSession), events, Rest)
    BY <1>1, <1>2, OpenSelectedIsGood
  <2>4. Good(With([dash EXCEPT !.query = session.name]), events, Rest)
    BY <1>1, <2>2, WithIsGood DEF Dashes
  <2> HIDE DEF session
  <2>5. QED
    BY <1>1, <1>6, <2>2, <2>3, <2>4, InModeIsGood, BrowseIsAMode
<1> HIDE DEF session
<1>7. QED
  BY <1>3, <1>4, <1>5, <1>6 DEF Commands, session

LEMMA SubmittedIsGood ==
  ASSUME DashInv, NEW op, dash.query # NoName => op \in Ops
  PROVE  Good(Submitted(op), events, Rest)
<1>1. Good(Ui, events, Rest) /\ Browse \in Modes
  BY DashIs, BrowseIsAMode
<1>2. Good(InMode(Ui, Browse), events, Rest)
  BY <1>1, InModeIsGood
<1>3. QED
  BY <1>1, <1>2, RequestedIsGood DEF Submitted

LEMMA TypedIsGood ==
  ASSUME DashInv, IsTyped(dash), NEW x \in TextKeys
  PROVE  Good(x, events, Rest)
<1>1. dash \in Dashes /\ Good(Ui, events, Rest) /\ dash.query \in Names \cup {NoName} /\ dash.mode \in Modes
  BY DashIs DEF Dashes
<1>2. CASE \E query \in Names \cup {NoName} : x = With([dash EXCEPT !.query = query, !.selected = 0])
  BY <1>1, <1>2, WithIsGood DEF Dashes
<1>3. CASE x = Cleared(InMode(Ui, Browse)) \/ x = InMode(Ui, Browse)
  BY <1>1, <1>3, InModeIsGood, ClearedIsGood, BrowseIsAMode
<1>4. CASE x = Submitted([kind |-> "create", name |-> dash.query])
  <2>1. dash.query # NoName => [kind |-> "create", name |-> dash.query] \in Ops
    BY <1>1 DEF Ops
  <2>2. QED
    BY <1>4, <2>1, SubmittedIsGood
<1>5. CASE /\ x = Submitted([kind |-> "rename", id |-> dash.mode.id, name |-> dash.query])
           /\ dash.mode # Search /\ dash.mode # Create
  <2>1. dash.mode.id \in Sessions
    BY <1>1, <1>5 DEF IsTyped, Modes, Search, Create
  <2>2. dash.query # NoName => [kind |-> "rename", id |-> dash.mode.id, name |-> dash.query] \in Ops
    BY <1>1, <2>1 DEF Ops
  <2>3. QED
    BY <1>5, <2>2, SubmittedIsGood
<1>6. Search # Create
  BY DEF Search, Create
<1>7. QED
  BY <1>2, <1>3, <1>4, <1>5, <1>6 DEF TextKeys

\* The selection is of the list, the query and the position only.
LEMMA SameSelection ==
  ASSUME NEW d \in Dashes, NEW mode
  PROVE  SelectedSession([d EXCEPT !.mode = mode]) = SelectedSession(d)
<1> DEFINE other == [d EXCEPT !.mode = mode]
<1>1. other.listed = d.listed /\ other.query = d.query /\ other.selected = d.selected
  BY DEF Dashes
<1> HIDE DEF other
<1>2. Filtered(other) = Filtered(d)
  BY <1>1 DEF Filtered, SelectInSeq
<1>3. SelectedSession(other) = SelectedSession(d)
  BY <1>1, <1>2 DEF SelectedSession
<1>4. QED
  BY <1>3 DEF other

LEMMA TakenIsGood ==
  ASSUME DashInv, dash.mode.kind = "take"
  PROVE  Good(Taken(Ui), events, Rest)
<1> DEFINE x == InMode(Ui, Browse)
           session == SelectedSession(dash)
<1>1. dash \in Dashes /\ Good(x, events, Rest) /\ Ui.d = dash
  BY DashIs, UiIs, InModeIsGood, BrowseIsAMode
<1>2. CASE session # NoSession /\ session.id = dash.mode.id
  <2>1. Taken(Ui) = OpenSelected(x, FALSE, TRUE, dash.mode.id)
    BY <1>1, <1>2 DEF Taken
  <2>2. x.d = [dash EXCEPT !.mode = Browse]
    BY DEF InMode, Ui
  <2>3. SelectedSession(x.d) = session
    BY <1>1, <2>2, SameSelection
  <2>4. dash.mode.id \in Sessions
    BY <1>1 DEF Dashes, Modes
  <2> HIDE DEF x, session
  <2>5. QED
    BY <1>1, <1>2, <2>1, <2>3, <2>4, OpenSelectedIsGood
<1>3. CASE ~(session # NoSession /\ session.id = dash.mode.id)
  BY <1>1, <1>3 DEF Taken
<1>4. QED
  BY <1>2, <1>3

LEMMA BrowseKeyKeeps == DashInv /\ BrowseKey => DashInv'
<1> SUFFICES ASSUME DashInv, BrowseKey PROVE DashInv'
  OBVIOUS
<1>1. ASSUME NEW delta \in Moves, Handles(With(MoveSelection(dash, delta))) PROVE DashInv'
  BY <1>1, MovedIsGood, HandlesKeeps
<1>2. ASSUME NEW x \in Commands(SelectedSession(dash)), Handles(x) PROVE DashInv'
  BY <1>2, CommandIsGood, HandlesKeeps
<1>3. QED
  BY <1>1, <1>2 DEF BrowseKey

LEMMA TextKeyKeeps == DashInv /\ TextKey => DashInv'
<1> SUFFICES ASSUME DashInv, TextKey PROVE DashInv'
  OBVIOUS
<1>1. PICK x \in TextKeys : Handles(x)
  BY DEF TextKey
<1>2. QED
  BY <1>1, TypedIsGood, HandlesKeeps DEF TextKey

LEMMA ConfirmKeyKeeps == DashInv /\ ConfirmKey => DashInv'
<1> SUFFICES ASSUME DashInv, ConfirmKey PROVE DashInv'
  OBVIOUS
<1>1. dash \in Dashes /\ Good(Ui, events, Rest)
  BY DashIs
<1>2. CASE Handles(InMode(Ui, Browse))
  BY <1>1, <1>2, InModeIsGood, BrowseIsAMode, HandlesKeeps
<1>3. CASE dash.mode.kind = "take" /\ Handles(Taken(Ui))
  BY <1>3, TakenIsGood, HandlesKeeps
<1>4. CASE dash.mode.kind = "delete" /\ Handles(Requested(Ui, [kind |-> "delete", id |-> dash.mode.id]))
  <2>1. dash.mode.id \in Sessions
    BY <1>1, <1>4 DEF Dashes, Modes
  <2>2. [kind |-> "delete", id |-> dash.mode.id] \in Ops
    BY <2>1 DEF Ops
  <2>3. QED
    BY <1>1, <1>4, <2>2, RequestedIsGood, HandlesKeeps
<1>5. CASE Handles(Requested(Ui, [kind |-> "stop"]))
  <2>1. [kind |-> "stop"] \in Ops
    BY DEF Ops
  <2>2. QED
    BY <1>1, <1>5, <2>1, RequestedIsGood, HandlesKeeps
<1>6. QED
  BY <1>2, <1>3, <1>4, <1>5 DEF ConfirmKey

LEMMA ClickKeeps == DashInv /\ Click => DashInv'
<1> SUFFICES ASSUME DashInv, NEW position \in 0 .. Len(Filtered(dash)) - 1,
                    Handles(With([dash EXCEPT !.selected = position]))
             PROVE  DashInv'
  BY DEF Click
<1>1. dash \in Dashes
  BY DashIs
<1>2. position \in Nat
  BY <1>1, FilteredIs, LenProperties
<1>3. Good(With([dash EXCEPT !.selected = position]), events, Rest)
  BY <1>1, <1>2, WithIsGood DEF Dashes
<1>4. QED
  BY <1>3, HandlesKeeps

LEMMA TickRefreshKeeps == DashInv /\ TickRefresh => DashInv'
BY DashIs, RequestedIsGood, RefreshIsAnOp, HandlesKeeps DEF TickRefresh

LEMMA ClientEventKeeps == DashInv /\ ClientEvent => DashInv'
<1> SUFFICES ASSUME DashInv, ClientEvent PROVE DashInv'
  OBVIOUS
<1> DEFINE x == Applied(Head(events))
<1>1. Good(x, Tail(events), Rest)
  BY AppliedIsGood DEF ClientEvent
<1>2. x \in Uis
  BY <1>1 DEF Good
<1>3. Becomes(x) /\ events' = Tail(events)
  BY DEF ClientEvent
<1> HIDE DEF x
<1>4. Ui' = x
  BY <1>2, <1>3 DEF Becomes, Ui, Uis
<1>5. Rest' = Rest /\ leader' = leader /\ unborn' = unborn
  BY DEF ClientEvent, Rest
<1>6. Resident'
  BY <1>5 DEF DashInv, Resident, IdsOf
<1>7. Good(Ui', events', Rest')
  BY <1>1, <1>3, <1>4, <1>5
<1>8. QED
  BY <1>6, <1>7 DEF DashInv

-----------------------------------------------------------------------------
(* The resident's list of sessions                                         *)

LEMMA PositionIs ==
  ASSUME NEW list \in Seq(Records), NEW id, PositionOf(list, id) # 0
  PROVE  PositionOf(list, id) \in DOMAIN list /\ list[PositionOf(list, id)].id = id
<1> DEFINE I == {i \in 1 .. Len(list) : list[i].id = id}
<1>1. DOMAIN list = 1 .. Len(list) /\ Len(list) \in Nat
  BY LenProperties
<1>2. I # {}
  BY DEF PositionOf, SelectInSeq
<1>3. \E i \in I : \A j \in I : i <= j
  <2>1. I \in SUBSET Nat
    BY <1>1
  <2> HIDE DEF I
  <2>2. QED
    BY <2>1, <1>2, LeastNumber
<1>4. PositionOf(list, id) = CHOOSE i \in I : \A j \in I : i <= j
  BY <1>2 DEF PositionOf, SelectInSeq, Min
<1>5. QED
  BY <1>1, <1>3, <1>4

LEMMA ExceptIs ==
  ASSUME NEW list \in Seq(Records), NEW i \in DOMAIN list, NEW driver \in Drivers
  PROVE  /\ [list EXCEPT ![i].driver = driver] \in Seq(Records)
         /\ IdsOf([list EXCEPT ![i].driver = driver]) = IdsOf(list)
<1> DEFINE one == [list[i] EXCEPT !.driver = driver]
           next == [list EXCEPT ![i] = one]
<1>1. DOMAIN list = 1 .. Len(list)
  BY LenProperties
<1>2. list[i] \in Records
  BY <1>1, ElementOfSeq
<1>3. one \in Records /\ one.id = list[i].id
  BY <1>2 DEF Records
<1> HIDE DEF one
<1>4. next \in Seq(Records) /\ Len(next) = Len(list) /\ \A j \in 1 .. Len(list) : next[j] = IF j = i THEN one ELSE list[j]
  BY <1>1, <1>3, ExceptSeq
<1>5. DOMAIN next = DOMAIN list
  OBVIOUS
<1>6. IdsOf(next) = IdsOf(list)
  BY <1>1, <1>3, <1>4, <1>5 DEF IdsOf
<1>7. QED
  BY <1>4, <1>6 DEF one

LEMMA DrivenIs ==
  ASSUME leader \in Seq(Records), NEW id, IsThere(id), NEW driver \in Drivers
  PROVE  Driven(id, driver) \in Seq(Records) /\ IdsOf(Driven(id, driver)) = IdsOf(leader)
<1>1. PositionOf(leader, id) \in DOMAIN leader
  BY PositionIs DEF IsThere
<1>2. QED
  BY <1>1, ExceptIs DEF Driven

LEMMA RemovedIs ==
  ASSUME NEW list \in Seq(Records), NEW i \in DOMAIN list
  PROVE  RemoveAt(list, i) \in Seq(Records)
<1>1. DOMAIN list = 1 .. Len(list) /\ Len(list) \in Nat /\ \A j \in 1 .. Len(list) : list[j] \in Records
  BY LenProperties, ElementOfSeq
<1>2. SubSeq(list, 1, i - 1) \in Seq(Records)
  BY <1>1, SubSeqProperties
<1>3. SubSeq(list, i + 1, Len(list)) \in Seq(Records)
  BY <1>1, SubSeqProperties
<1>4. QED
  BY <1>2, <1>3, ConcatProperties DEF RemoveAt

LEMMA PlacedIs ==
  ASSUME NEW list \in Seq(Records), NEW session \in Records
  PROVE  Placed(list, session) \in Seq(Records) /\ session.id \in IdsOf(Placed(list, session))
<1> DEFINE before == {i \in DOMAIN list : list[i].name < session.name}
           n == Cardinality(before)
           first == SubSeq(list, 1, (1 + n) - 1)
           last == SubSeq(list, 1 + n, Len(list))
<1>1. DOMAIN list = 1 .. Len(list) /\ Len(list) \in Nat /\ \A j \in 1 .. Len(list) : list[j] \in Records
  BY LenProperties, ElementOfSeq
<1>2. n \in 0 .. Len(list)
  <2>1. IsFiniteSet(1 .. Len(list)) /\ Cardinality(1 .. Len(list)) = Len(list)
    <3> DEFINE m == Len(list)
    <3>1. m \in Nat
      BY <1>1
    <3> HIDE DEF m
    <3>2. IsFiniteSet(1 .. m) /\ Cardinality(1 .. m) = m
      BY <3>1, FS_Interval
    <3>3. QED
      BY <3>2 DEF m
  <2>2. before \subseteq 1 .. Len(list)
    BY <1>1
  <2> HIDE DEF before
  <2>3. IsFiniteSet(before) /\ Cardinality(before) <= Len(list)
    BY <2>1, <2>2, FS_Subset
  <2>4. QED
    BY <2>3, <1>1, FS_CardinalityType
<1> HIDE DEF n
<1>3. first \in Seq(Records) /\ last \in Seq(Records)
  <2>1. \A j \in 1 .. (1 + n) - 1 : list[j] \in Records
    BY <1>1, <1>2
  <2>2. \A j \in 1 + n .. Len(list) : list[j] \in Records
    BY <1>1, <1>2
  <2>3. (1 + n) - 1 \in Int /\ 1 + n \in Int /\ Len(list) \in Int /\ 1 \in Int
    BY <1>1, <1>2
  <2>4. QED
    BY <2>1, <2>2, <2>3, SubSeqProperties
<1> DEFINE most == first \o <<session>>
<1>4. Placed(list, session) = most \o last
  BY DEF Placed, InsertAt, n
<1> HIDE DEF first, last
<1>5. <<session>> \in Seq(Records) /\ Len(<<session>>) = 1 /\ <<session>>[1] = session
  OBVIOUS
<1>6. Len(first) \in Nat /\ Len(last) \in Nat
  BY <1>3, LenProperties
<1>7. most \in Seq(Records) /\ Len(most) = Len(first) + 1 /\ most[Len(first) + 1] = session
  BY <1>3, <1>5, <1>6, ConcatProperties
<1> HIDE DEF most
<1> DEFINE all == most \o last
           here == Len(first) + 1
<1>8. /\ all \in Seq(Records) /\ Len(all) = Len(most) + Len(last)
      /\ all[here] = session
  <2>1. /\ all \in Seq(Records) /\ Len(all) = Len(most) + Len(last)
        /\ \A i \in 1 .. Len(most) + Len(last) : all[i] = IF i <= Len(most) THEN most[i] ELSE last[i - Len(most)]
    BY <1>3, <1>7, ConcatProperties
  <2> HIDE DEF all
  <2>2. here \in 1 .. Len(most) + Len(last) /\ here <= Len(most)
    BY <1>6, <1>7
  <2>3. QED
    BY <2>1, <2>2, <1>7
<1> HIDE DEF all
<1>9. here \in DOMAIN all
  BY <1>6, <1>7, <1>8, LenProperties
<1>10. QED
  BY <1>4, <1>8, <1>9 DEF IdsOf, all

LEMMA CarriedIs ==
  ASSUME leader \in Seq(Records), unborn \subseteq Sessions, NEW op \in Ops
  PROVE  /\ Carried(op).list \in Seq(Records) /\ Carried(op).reply \in Replies
         /\ Carried(op).reply.kind = "sessions" =>
              Carried(op).reply.sessions = leader /\ Carried(op).list = leader
         /\ Carried(op).reply.kind = "created" =>
              Carried(op).reply.session.id \in unborn \cap IdsOf(Carried(op).list)
<1>1. CASE op.kind = "refresh"
  <2>1. Carried(op) = [list |-> leader, reply |-> [kind |-> "sessions", sessions |-> leader]]
    BY <1>1 DEF Carried
  <2>2. QED
    BY <2>1 DEF Replies
<1>2. CASE op.kind = "create" /\ ~IsTaken(op.name, {}) /\ unborn # {}
  <2> DEFINE session == [id |-> CHOOSE id \in unborn : TRUE, name |-> op.name, driver |-> "none"]
  <2>1. Carried(op) = [list |-> Placed(leader, session), reply |-> [kind |-> "created", session |-> session]]
    BY <1>2 DEF Carried
  <2>2. session \in Records /\ session.id \in unborn
    BY <1>2 DEF Ops, Records, Drivers
  <2> HIDE DEF session
  <2>3. Placed(leader, session) \in Seq(Records) /\ session.id \in IdsOf(Placed(leader, session))
    BY <2>2, PlacedIs
  <2>4. QED
    BY <2>1, <2>2, <2>3 DEF Replies
<1>3. CASE op.kind = "rename" /\ IsThere(op.id) /\ ~IsTaken(op.name, op.id)
  <2> DEFINE position == PositionOf(leader, op.id)
             rest == RemoveAt(leader, position)
             session == [leader[position] EXCEPT !.name = op.name]
  <2>1. Carried(op) = [list |-> Placed(rest, session), reply |-> [kind |-> "renamed"]]
    BY <1>3 DEF Carried
  <2>2. position \in DOMAIN leader
    BY <1>3, PositionIs DEF IsThere
  <2>3. leader[position] \in Records
    BY <2>2, LenProperties, ElementOfSeq
  <2>4. session \in Records
    BY <2>3, <1>3 DEF Records, Ops
  <2>5. rest \in Seq(Records)
    BY <2>2, RemovedIs
  <2> HIDE DEF session, rest
  <2>6. Placed(rest, session) \in Seq(Records)
    BY <2>4, <2>5, PlacedIs
  <2>7. QED
    BY <2>1, <2>6 DEF Replies
<1>4. CASE op.kind = "delete" /\ IsThere(op.id)
  <2>1. Carried(op) = [list |-> RemoveAt(leader, PositionOf(leader, op.id)), reply |-> [kind |-> "stopping"]]
    BY <1>4 DEF Carried
  <2>2. PositionOf(leader, op.id) \in DOMAIN leader
    BY <1>4, PositionIs DEF IsThere
  <2>3. QED
    BY <2>1, <2>2, RemovedIs DEF Replies
<1>5. CASE op.kind = "stop"
  <2>1. Carried(op) = [list |-> leader, reply |-> [kind |-> "stopping"]]
    BY <1>5 DEF Carried
  <2>2. QED
    BY <2>1 DEF Replies
<1>6. CASE /\ op.kind # "refresh" /\ op.kind # "stop"
           /\ ~(op.kind = "create" /\ ~IsTaken(op.name, {}) /\ unborn # {})
           /\ ~(op.kind = "rename" /\ IsThere(op.id) /\ ~IsTaken(op.name, op.id))
           /\ ~(op.kind = "delete" /\ IsThere(op.id))
  <2>1. Carried(op) = [list |-> leader, reply |-> Failed]
    BY <1>6 DEF Carried
  <2>2. QED
    BY <2>1 DEF Replies, Failed
<1>7. QED
  BY <1>1, <1>2, <1>3, <1>4, <1>5, <1>6

-----------------------------------------------------------------------------
(* What the pump adds to what waits for the dashboard                      *)

LEMMA FewerAreUnborn ==
  ASSUME NEW x, NEW evs, NEW w, NEW v \in Rests, Good(x, evs, w),
         v.unborn \subseteq w.unborn, v.opened = w.opened, v.registry = w.registry, v.screens = w.screens
  PROVE  Good(x, evs, v)
<1>1. SUFFICES ASSUME x.app = "runs" PROVE Agrees(x, evs, v)
  BY DEF Good
<1>2. Agrees(x, evs, w)
  BY <1>1 DEF Good
<1>3. \A id : IsSeen(x, v, id) <=> IsSeen(x, w, id)
  BY DEF IsSeen
<1>4. Born(x, evs, v) /\ News(x, evs, v)
  BY <1>2, <1>3 DEF Agrees, Born, News
<1>5. Opens(x, v) /\ Screened(x, v)
  BY <1>2 DEF Agrees, Opens, Screened, IsHeld, Attaching
<1>6. QED
  BY <1>2, <1>4, <1>5 DEF Agrees

LEMMA AppendIs ==
  ASSUME NEW S, NEW evs \in Seq(S), NEW event \in S
  PROVE  LET all == Append(evs, event)
             last == Len(evs) + 1
         IN /\ all \in Seq(S) /\ last \in DOMAIN all /\ all[last] = event
            /\ last \notin DOMAIN evs
            /\ \A k \in DOMAIN evs : k \in DOMAIN all /\ all[k] = evs[k] /\ k < last /\ k \in Nat
            /\ \A k \in DOMAIN all : k # last => k \in DOMAIN evs
<1>1. DOMAIN evs = 1 .. Len(evs) /\ Len(evs) \in Nat
  BY LenProperties
<1>2. /\ Append(evs, event) \in Seq(S) /\ Len(Append(evs, event)) = Len(evs) + 1
      /\ \A i \in 1 .. Len(evs) : Append(evs, event)[i] = evs[i]
      /\ Append(evs, event)[Len(evs) + 1] = event
  BY AppendProperties
<1>3. DOMAIN Append(evs, event) = 1 .. Len(evs) + 1
  BY <1>2, LenProperties
<1>4. QED
  BY <1>1, <1>2, <1>3

LEMMA AppendedIsGood ==
  ASSUME NEW x, NEW evs, NEW w, Good(x, evs, w), NEW event \in Events, event.kind # "completed"
  PROVE  Good(x, Append(evs, event), w)
<1> DEFINE all == Append(evs, event)
           last == Len(evs) + 1
<1>1. evs \in Seq(Events)
  BY DEF Good
<1>2. /\ all \in Seq(Events) /\ last \in DOMAIN all /\ all[last] = event
      /\ \A k \in DOMAIN evs : k \in DOMAIN all /\ all[k] = evs[k]
      /\ \A k \in DOMAIN all : k # last => k \in DOMAIN evs
  BY <1>1, AppendIs
<1> HIDE DEF all, last
<1>3. SUFFICES ASSUME x.app = "runs" PROVE Agrees(x, all, w)
  BY <1>2 DEF Good, all
<1>4. Agrees(x, evs, w)
  BY <1>3 DEF Good
<1>5. \A k \in DOMAIN all : \A id : Lists(all[k], id) \/ IsNews(all[k], id) \/ IsReply(all[k], id) => k \in DOMAIN evs
  BY <1>2 DEF Lists, IsNews, IsReply
<1>6. Born(x, all, w)
  BY <1>2, <1>4, <1>5 DEF Agrees, Born
<1>7. News(x, all, w)
  BY <1>2, <1>4, <1>5 DEF Agrees, News
<1>8. OnItsWay(x, all)
  <2>1. OnItsWay(x, evs)
    BY <1>4 DEF Agrees
  <2>2. \A k \in DOMAIN all : all[k].kind = "completed" => k \in DOMAIN evs
    BY <1>2
  <2>3. \A i, j \in DOMAIN all : all[i].kind = "completed" /\ IsReply(all[j], all[i].id) => i = j
    BY <2>1, <2>2, <1>2, <1>5 DEF OnItsWay
  <2>4. \A i \in DOMAIN x.queue, j \in DOMAIN all : ~IsReply(all[j], x.queue[i].id)
    BY <2>1, <1>2, <1>5 DEF OnItsWay
  <2>5. \A j \in DOMAIN all : all[j].kind = "completed" => all[j].id \in DOMAIN x.d.pending
    BY <2>1, <2>2, <1>2 DEF OnItsWay
  <2>6. \A id \in DOMAIN x.d.pending :
          \/ \E i \in DOMAIN x.queue : x.queue[i].id = id
          \/ \E j \in DOMAIN all : IsReply(all[j], id)
    BY <2>1, <1>2 DEF OnItsWay
  <2>7. QED
    BY <2>1, <2>3, <2>4, <2>5, <2>6 DEF OnItsWay
<1>9. QED
  BY <1>4, <1>6, <1>7, <1>8 DEF Agrees

\* A request has been answered: the answer lists no session that is unborn
\* after it, and tells of the birth of one that was unborn before.
LEMMA ServedIsGood ==
  ASSUME NEW x, NEW evs, NEW w, NEW v \in Rests, Good(x, evs, w),
         v.unborn \subseteq w.unborn, v.opened = w.opened, v.registry = w.registry, v.screens = w.screens,
         x.queue # <<>>, NEW reply \in Replies,
         reply.kind = "sessions" => \A id \in IdsOf(reply.sessions) : id \notin v.unborn,
         reply.kind = "created" => reply.session.id \in w.unborn \ v.unborn
  PROVE  Good([x EXCEPT !.queue = Tail(@)], Append(evs, Completion(Head(x.queue), reply)), v)
<1> DEFINE y == [x EXCEPT !.queue = Tail(@)]
           request == Head(x.queue)
           rest == Tail(x.queue)
           event == Completion(request, reply)
           all == Append(evs, event)
           last == Len(evs) + 1
<1>1. x \in Uis /\ evs \in Seq(Events) /\ x.queue \in Seq(Requests)
  BY DEF Good, Uis
<1>2. /\ request = x.queue[1] /\ request \in Requests /\ 1 \in DOMAIN x.queue
      /\ rest \in Seq(Requests)
      /\ \A k \in DOMAIN rest : k \in Nat /\ k + 1 \in DOMAIN x.queue /\ rest[k] = x.queue[k + 1] /\ k + 1 > 1
      /\ \A k \in DOMAIN x.queue : k # 1 => k - 1 \in DOMAIN rest /\ x.queue[k] = rest[k - 1]
  BY <1>1, TailIs
<1> HIDE DEF request, rest
<1>3. /\ event \in Events /\ event.kind = "completed" /\ event.id = request.id /\ event.reply = reply
  BY <1>2 DEF Completion, Events, Requests
<1> HIDE DEF event
<1>4. /\ all \in Seq(Events) /\ last \in DOMAIN all /\ all[last] = event /\ last \notin DOMAIN evs
      /\ \A k \in DOMAIN evs : k \in DOMAIN all /\ all[k] = evs[k] /\ k < last /\ k \in Nat
      /\ \A k \in DOMAIN all : k # last => k \in DOMAIN evs
  BY <1>1, <1>3, AppendIs
<1>5. last \in Nat
  BY <1>1, LenProperties
<1> HIDE DEF all, last
<1>6. /\ y \in Uis /\ y.app = x.app /\ y.tasks = x.tasks /\ y.d = x.d /\ y.queue = rest
  BY <1>1, <1>2 DEF Uis, rest
<1> HIDE DEF y
<1>7. Good(y, all, v)
  <2>1. SUFFICES ASSUME x.app = "runs" PROVE Agrees(y, all, v)
    BY <1>4, <1>6 DEF Good, Fair
  <2>2. Agrees(x, evs, w)
    BY <2>1 DEF Good
  <2>3. \A id : IsSeen(y, v, id) <=> IsSeen(x, w, id)
    BY <1>6 DEF IsSeen
  <2>4. Born(y, all, v)
    <3>1. ASSUME NEW id \in v.unborn PROVE ~Lists(event, id) /\ ~IsNews(event, id)
      BY <1>3 DEF Lists, IsNews
    <3>2. ASSUME NEW id \in v.unborn, NEW k \in DOMAIN all PROVE ~Lists(all[k], id) /\ ~IsNews(all[k], id)
      BY <1>4, <2>2, <3>1 DEF Agrees, Born
    <3>3. \A id \in v.unborn : ~IsSeen(y, v, id)
      BY <2>2, <2>3 DEF Agrees, Born
    <3>4. QED
      BY <3>2, <3>3 DEF Born
  <2>5. News(y, all, v)
    <3>1. SUFFICES ASSUME NEW k \in DOMAIN all, NEW id \in Sessions, IsNews(all[k], id)
                   PROVE  /\ ~IsSeen(y, v, id)
                          /\ \A j \in DOMAIN all :
                               (j < k => ~Lists(all[j], id)) /\ (IsNews(all[j], id) => j = k)
      BY DEF News
    <3>2. CASE k = last
      <4>1. id \in w.unborn
        BY <1>3, <1>4, <3>1, <3>2 DEF IsNews
      <4>2. ~IsSeen(y, v, id) /\ \A j \in DOMAIN evs : ~Lists(evs[j], id) /\ ~IsNews(evs[j], id)
        BY <2>2, <2>3, <4>1 DEF Agrees, Born
      <4>3. ~(last < last)
        BY <1>5
      <4>4. QED
        BY <1>4, <3>2, <4>2, <4>3
    <3>3. CASE k # last
      <4>1. k \in DOMAIN evs /\ IsNews(evs[k], id)
        BY <1>4, <3>1, <3>3
      <4>2. /\ ~IsSeen(x, w, id)
            /\ \A j \in DOMAIN evs : (j < k => ~Lists(evs[j], id)) /\ (IsNews(evs[j], id) => j = k)
        BY <2>2, <4>1 DEF Agrees, News
      <4>3. ~IsNews(event, id)
        <5>1. ASSUME IsNews(event, id) PROVE FALSE
          <6>1. id \in w.unborn
            BY <1>3, <5>1 DEF IsNews
          <6>2. QED
            BY <2>2, <4>1, <6>1 DEF Agrees, Born
        <5>2. QED
          BY <5>1
      <4>4. k < last /\ k \in Nat /\ ~(last < k)
        BY <1>4, <1>5, <4>1
      <4>5. QED
        BY <1>4, <2>3, <4>2, <4>3, <4>4
    <3>4. QED
      BY <3>2, <3>3
  <2>6. Opens(y, v) /\ Screened(y, v)
    BY <1>6, <2>2 DEF Agrees, Opens, Screened, IsHeld, Attaching
  <2>7. OnItsWay(y, all)
    <3>1. OnItsWay(x, evs)
      BY <2>2 DEF Agrees
    <3>2. \A i \in DOMAIN rest : rest[i].id # request.id
      <4>1. TAKE i \in DOMAIN rest
      <4>2. i + 1 \in DOMAIN x.queue /\ rest[i] = x.queue[i + 1] /\ i + 1 # 1
        BY <1>2
      <4>3. QED
        BY <3>1, <4>2, <1>2 DEF OnItsWay
    <3>3. \A i, j \in DOMAIN rest : rest[i].id = rest[j].id => i = j
      <4>1. TAKE i, j \in DOMAIN rest
      <4>2. HAVE rest[i].id = rest[j].id
      <4>3. i + 1 = j + 1 /\ i \in Nat /\ j \in Nat
        BY <3>1, <4>2, <1>2 DEF OnItsWay
      <4>4. QED
        BY <4>3
    <3>4. \A j \in DOMAIN evs : ~IsReply(evs[j], request.id)
      BY <3>1, <1>2 DEF OnItsWay
    <3>5. \A i, j \in DOMAIN all : all[i].kind = "completed" /\ IsReply(all[j], all[i].id) => i = j
      <4>1. TAKE i, j \in DOMAIN all
      <4>2. HAVE all[i].kind = "completed" /\ IsReply(all[j], all[i].id)
      <4>3. CASE i = last /\ j # last
        BY <4>2, <4>3, <3>4, <1>3, <1>4
      <4>4. CASE i # last /\ j = last
        <5>1. evs[i].kind = "completed" /\ evs[i].id = request.id /\ i \in DOMAIN evs
          BY <4>2, <4>4, <1>3, <1>4 DEF IsReply
        <5>2. QED
          BY <5>1, <3>4 DEF IsReply
      <4>5. CASE i # last /\ j # last
        BY <4>2, <4>5, <3>1, <1>4 DEF OnItsWay
      <4>6. QED
        BY <4>3, <4>4, <4>5
    <3>6. \A i \in DOMAIN rest, j \in DOMAIN all : ~IsReply(all[j], rest[i].id)
      <4>1. TAKE i \in DOMAIN rest, j \in DOMAIN all
      <4>2. CASE j = last
        BY <4>2, <3>2, <1>3, <1>4 DEF IsReply
      <4>3. CASE j # last
        BY <4>3, <3>1, <1>2, <1>4 DEF OnItsWay
      <4>4. QED
        BY <4>2, <4>3
    <3>7. \A i \in DOMAIN rest : rest[i].id \in DOMAIN x.d.pending
      BY <3>1, <1>2 DEF OnItsWay
    <3>8. \A j \in DOMAIN all : all[j].kind = "completed" => all[j].id \in DOMAIN x.d.pending
      BY <3>1, <1>2, <1>3, <1>4 DEF OnItsWay
    <3>9. \A id \in DOMAIN x.d.pending :
            \/ \E i \in DOMAIN rest : rest[i].id = id
            \/ \E j \in DOMAIN all : IsReply(all[j], id)
      <4>1. TAKE id \in DOMAIN x.d.pending
      <4>2. CASE \E i \in DOMAIN x.queue : x.queue[i].id = id
        <5>1. PICK i \in DOMAIN x.queue : x.queue[i].id = id
          BY <4>2
        <5>2. CASE i = 1
          BY <5>1, <5>2, <1>2, <1>3, <1>4 DEF IsReply
        <5>3. CASE i # 1
          BY <5>1, <5>3, <1>2
        <5>4. QED
          BY <5>2, <5>3
      <4>3. CASE \E j \in DOMAIN evs : IsReply(evs[j], id)
        BY <4>3, <1>4
      <4>4. QED
        BY <4>2, <4>3, <3>1 DEF OnItsWay
    <3>10. QED
      BY <3>3, <3>5, <3>6, <3>7, <3>8, <3>9, <1>6 DEF OnItsWay
  <2>8. QED
    BY <2>4, <2>5, <2>6, <2>7 DEF Agrees
<1>8. QED
  BY <1>7 DEF y, all, event, request

\* Every request that waits is answered, that it failed.
LEMMA StoppedIsGood ==
  ASSUME NEW x, NEW evs, NEW w, Good(x, evs, w)
  PROVE  Good([x EXCEPT !.queue = <<>>],
              evs \o [i \in DOMAIN x.queue |-> Completion(x.queue[i], Failed)], w)
<1> DEFINE y == [x EXCEPT !.queue = <<>>]
           more == [i \in DOMAIN x.queue |-> Completion(x.queue[i], Failed)]
           all == evs \o more
           n == Len(evs)
<1>1. x \in Uis /\ evs \in Seq(Events) /\ x.queue \in Seq(Requests)
  BY DEF Good, Uis
<1>2. y \in Uis /\ y.app = x.app /\ y.tasks = x.tasks /\ y.d = x.d /\ y.queue = <<>>
  <2>1. <<>> \in Seq(Requests)
    BY EmptySeq
  <2>2. QED
    BY <1>1, <2>1 DEF Uis
<1> HIDE DEF y
<1>3. DOMAIN evs = 1 .. n /\ n \in Nat /\ DOMAIN x.queue = 1 .. Len(x.queue) /\ Len(x.queue) \in Nat
  BY <1>1, LenProperties
<1>4. /\ more \in Seq(Events) /\ Len(more) = Len(x.queue)
      /\ \A i \in DOMAIN x.queue : /\ more[i].kind = "completed" /\ more[i].id = x.queue[i].id
                                   /\ more[i].reply.kind = "failed"
  <2>1. \A i \in DOMAIN x.queue : Completion(x.queue[i], Failed) \in Events
    <3>1. TAKE i \in DOMAIN x.queue
    <3>2. x.queue[i] \in Requests
      BY <1>1, <1>3, ElementOfSeq
    <3>3. QED
      BY <3>2 DEF Completion, Failed, Events, Requests, Replies
  <2>2. more = [i \in 1 .. Len(x.queue) |-> Completion(x.queue[i], Failed)]
    BY <1>3
  <2>3. more \in Seq(Events) /\ Len(more) = Len(x.queue)
    <3>1. more \in [1 .. Len(x.queue) -> Events]
      BY <2>1, <1>3
    <3> HIDE DEF more
    <3>2. QED
      BY <3>1, <1>3
  <2>4. QED
    BY <2>3 DEF Completion, Failed
<1> HIDE DEF more
<1>5. /\ all \in Seq(Events) /\ Len(all) = n + Len(x.queue)
      /\ \A i \in 1 .. n + Len(x.queue) : all[i] = IF i <= n THEN evs[i] ELSE more[i - n]
  <2>1. more \in Seq(Events) /\ Len(more) = Len(x.queue)
    BY <1>4
  <2>2. /\ all \in Seq(Events) /\ Len(all) = n + Len(more)
        /\ \A i \in 1 .. n + Len(more) : all[i] = IF i <= n THEN evs[i] ELSE more[i - n]
    BY <1>1, <2>1, ConcatProperties
  <2> HIDE DEF all, n
  <2>3. QED
    BY <2>1, <2>2
<1>6. DOMAIN all = 1 .. n + Len(x.queue)
  BY <1>5, LenProperties
<1> HIDE DEF all, n
<1>7. \A k \in DOMAIN evs : k \in DOMAIN all /\ all[k] = evs[k] /\ k \in Nat /\ k <= n
  BY <1>3, <1>5, <1>6
<1>8. \A i \in DOMAIN x.queue : n + i \in DOMAIN all /\ all[n + i] = more[i] /\ i \in Nat /\ n + i \notin DOMAIN evs
  BY <1>3, <1>5, <1>6
<1>9. \A k \in DOMAIN all : k \notin DOMAIN evs => k - n \in DOMAIN x.queue /\ all[k] = more[k - n] /\ k > n
  BY <1>3, <1>5, <1>6
<1>10. \A k \in DOMAIN all : \A id : Lists(all[k], id) \/ IsNews(all[k], id) => k \in DOMAIN evs
  BY <1>4, <1>9 DEF Lists, IsNews
<1>11. Good(y, all, w)
  <2>1. SUFFICES ASSUME x.app = "runs" PROVE Agrees(y, all, w)
    BY <1>2, <1>5 DEF Good, Fair
  <2>2. Agrees(x, evs, w)
    BY <2>1 DEF Good
  <2>3. \A id : IsSeen(y, w, id) <=> IsSeen(x, w, id)
    BY <1>2 DEF IsSeen
  <2>4. Born(y, all, w)
    BY <1>7, <1>10, <2>2, <2>3 DEF Agrees, Born
  <2>5. News(y, all, w)
    BY <1>7, <1>10, <2>2, <2>3 DEF Agrees, News
  <2>6. Opens(y, w) /\ Screened(y, w)
    BY <1>2, <2>2 DEF Agrees, Opens, Screened, IsHeld
  <2>7. OnItsWay(y, all)
    <3>1. OnItsWay(x, evs)
      BY <2>2 DEF Agrees
    <3>2. ASSUME NEW i \in DOMAIN all, NEW j \in DOMAIN all,
                 all[i].kind = "completed", IsReply(all[j], all[i].id)
          PROVE  i = j
      <4>1. CASE i \in DOMAIN evs /\ j \in DOMAIN evs
        BY <3>1, <3>2, <4>1, <1>7 DEF OnItsWay
      <4>2. CASE i \in DOMAIN evs /\ j \notin DOMAIN evs
        <5>1. /\ j - n \in DOMAIN x.queue /\ all[j] = more[j - n]
              /\ more[j - n].id = x.queue[j - n].id
          BY <4>2, <1>4, <1>9
        <5>2. IsReply(evs[i], x.queue[j - n].id)
          BY <3>2, <4>2, <5>1, <1>7 DEF IsReply
        <5>3. QED
          BY <3>1, <4>2, <5>1, <5>2 DEF OnItsWay
      <4>3. CASE i \notin DOMAIN evs /\ j \in DOMAIN evs
        <5>1. /\ i - n \in DOMAIN x.queue /\ all[i] = more[i - n]
              /\ more[i - n].id = x.queue[i - n].id
          BY <4>3, <1>4, <1>9
        <5>2. IsReply(evs[j], x.queue[i - n].id)
          BY <3>2, <4>3, <5>1, <1>7
        <5>3. QED
          BY <3>1, <4>3, <5>1, <5>2 DEF OnItsWay
      <4>4. CASE i \notin DOMAIN evs /\ j \notin DOMAIN evs
        <5>1. /\ i - n \in DOMAIN x.queue /\ all[i] = more[i - n] /\ more[i - n].id = x.queue[i - n].id
              /\ j - n \in DOMAIN x.queue /\ all[j] = more[j - n] /\ more[j - n].id = x.queue[j - n].id
          BY <4>4, <1>4, <1>9
        <5>2. x.queue[i - n].id = x.queue[j - n].id
          BY <3>2, <5>1 DEF IsReply
        <5>3. i - n = j - n
          BY <3>1, <5>1, <5>2 DEF OnItsWay
        <5>4. QED
          BY <5>3, <1>3, <1>6
      <4>5. QED
        BY <4>1, <4>2, <4>3, <4>4
    <3>3. \A j \in DOMAIN all : all[j].kind = "completed" => all[j].id \in DOMAIN x.d.pending
      <4>1. TAKE j \in DOMAIN all
      <4>2. HAVE all[j].kind = "completed"
      <4>3. CASE j \in DOMAIN evs
        BY <3>1, <4>2, <4>3, <1>7 DEF OnItsWay
      <4>4. CASE j \notin DOMAIN evs
        <5>1. j - n \in DOMAIN x.queue /\ all[j].id = x.queue[j - n].id
          BY <4>4, <1>4, <1>9
        <5>2. QED
          BY <3>1, <5>1 DEF OnItsWay
      <4>5. QED
        BY <4>3, <4>4
    <3>4. \A id \in DOMAIN x.d.pending : \E j \in DOMAIN all : IsReply(all[j], id)
      <4>1. TAKE id \in DOMAIN x.d.pending
      <4>2. CASE \E i \in DOMAIN x.queue : x.queue[i].id = id
        <5>1. PICK i \in DOMAIN x.queue : x.queue[i].id = id
          BY <4>2
        <5>2. n + i \in DOMAIN all /\ IsReply(all[n + i], id)
          BY <5>1, <1>4, <1>8 DEF IsReply
        <5>3. QED
          BY <5>2
      <4>3. CASE \E j \in DOMAIN evs : IsReply(evs[j], id)
        BY <4>3, <1>7
      <4>4. QED
        BY <4>2, <4>3, <3>1 DEF OnItsWay
    <3>5. DOMAIN y.queue = {}
      BY <1>2
    <3>6. QED
      BY <3>2, <3>3, <3>4, <3>5, <1>2 DEF OnItsWay
  <2>8. QED
    BY <2>4, <2>5, <2>6, <2>7 DEF Agrees
<1>12. QED
  BY <1>11 DEF y, all, more

-----------------------------------------------------------------------------
(* The pump and other clients                                              *)

\* The resident's list becomes another: those that it has are born.
LEMMA ChangedIs ==
  ASSUME DashInv, NEW list \in Seq(Records), Changed(list), UNCHANGED <<opened, registry, screens>>
  PROVE  /\ Resident'
         /\ Rest' \in Rests /\ Rest'.unborn = Rest.unborn \ IdsOf(list)
         /\ Rest'.opened = Rest.opened /\ Rest'.registry = Rest.registry /\ Rest'.screens = Rest.screens
<1>1. leader' = list /\ unborn' = unborn \ IdsOf(list)
  BY DEF Changed, IdsOf
<1>2. Resident'
  BY <1>1 DEF Resident, IdsOf
<1>3. Rest \in Rests
  BY DEF DashInv, Good
<1>4. Rest' \in Rests
  BY <1>1, <1>3 DEF Rest, Rests
<1>5. QED
  BY <1>1, <1>2, <1>4 DEF Rest

LEMMA UnbornAre ==
  ASSUME DashInv
  PROVE  leader \in Seq(Records) /\ unborn \subseteq Sessions
<1>1. Rest \in Rests
  BY DEF DashInv, Good
<1>2. QED
  BY <1>1 DEF DashInv, Resident, Rest, Rests

LEMMA UiBecomes ==
  ASSUME NEW x \in Uis, dash' = x.d, queue' = x.queue, tasks' = x.tasks, app' = x.app
  PROVE  Ui' = x
BY DEF Ui, Uis

\* The request at the head of the queue is carried out, or not, and answered.
LEMMA AnsweringKeeps ==
  ASSUME DashInv, queue # <<>>, NEW reply \in Replies,
         NEW list \in Seq(Records),
         Changed(list) \/ UNCHANGED <<leader, unborn>>,
         queue' = Tail(queue), events' = Append(events, Completion(Head(queue), reply)),
         UNCHANGED <<clientVars, dash, app>>,
         reply.kind = "sessions" => Changed(list) /\ reply.sessions = list,
         reply.kind = "created" => Changed(list) /\ reply.session.id \in unborn \cap IdsOf(list)
  PROVE  DashInv'
<1>1. Good(Ui, events, Rest) /\ Ui.queue # <<>>
  BY UiIs DEF DashInv
<1>2. UNCHANGED <<opened, registry, screens, tasks>>
  BY DEF clientVars
<1>3. /\ Resident' /\ Rest' \in Rests /\ Rest'.unborn \subseteq Rest.unborn
      /\ Rest'.opened = Rest.opened /\ Rest'.registry = Rest.registry /\ Rest'.screens = Rest.screens
      /\ Changed(list) => Rest'.unborn = Rest.unborn \ IdsOf(list)
  <2>1. CASE Changed(list)
    BY <2>1, <1>2, ChangedIs
  <2>2. CASE UNCHANGED <<leader, unborn>> /\ ~Changed(list)
    <3>1. Rest' = Rest
      BY <2>2, <1>2 DEF Rest
    <3>2. Resident'
      BY <2>2 DEF DashInv, Resident, IdsOf
    <3>3. QED
      BY <3>1, <3>2, <1>1, <2>2 DEF Good
  <2>3. QED
    BY <2>1, <2>2
<1>4. Rest.unborn = unborn
  BY RestIs
<1>5. reply.kind = "sessions" => \A id \in IdsOf(reply.sessions) : id \notin Rest'.unborn
  BY <1>3
<1>6. reply.kind = "created" => reply.session.id \in Rest.unborn \ Rest'.unborn
  BY <1>3, <1>4
<1>7. Good([Ui EXCEPT !.queue = Tail(@)], Append(events, Completion(Head(Ui.queue), reply)), Rest')
  BY <1>1, <1>3, <1>5, <1>6, ServedIsGood
<1> DEFINE x == [Ui EXCEPT !.queue = Tail(@)]
<1>8. Ui' = x
  <2>1. x \in Uis
    BY <1>7 DEF Good
  <2>2. x.d = Ui.d /\ x.tasks = Ui.tasks /\ x.app = Ui.app /\ x.queue = Tail(Ui.queue)
    BY <1>1 DEF Good, Uis
  <2>3. dash' = dash /\ app' = app /\ tasks' = tasks /\ queue' = Tail(queue)
    BY <1>2
  <2> HIDE DEF x
  <2>4. QED
    BY <2>1, <2>2, <2>3, UiIs, UiBecomes
<1>9. Good(Ui', events', Rest')
  BY <1>7, <1>8, UiIs
<1>10. QED
  BY <1>3, <1>9 DEF DashInv

LEMMA HeadOp ==
  ASSUME DashInv, queue # <<>>
  PROVE  Head(queue).op \in Ops
<1>1. queue \in Seq(Requests)
  BY UiIs DEF DashInv, Good, Uis
<1>2. Head(queue) \in Requests
  BY <1>1, TailIs
<1>3. QED
  BY <1>2 DEF Requests

LEMMA ServeKeeps == DashInv /\ Serve => DashInv'
<1> SUFFICES ASSUME DashInv, Serve PROVE DashInv'
  OBVIOUS
<1> DEFINE carried == Carried(Head(queue).op)
<1>1. /\ queue # <<>> /\ Changed(carried.list)
      /\ events' = Append(events, Completion(Head(queue), carried.reply))
      /\ queue' = Tail(queue) /\ UNCHANGED <<clientVars, dash, app>>
  BY DEF Serve
<1>2. /\ carried.list \in Seq(Records) /\ carried.reply \in Replies
      /\ carried.reply.kind = "sessions" => carried.reply.sessions = leader /\ carried.list = leader
      /\ carried.reply.kind = "created" => carried.reply.session.id \in unborn \cap IdsOf(carried.list)
  BY <1>1, HeadOp, UnbornAre, CarriedIs
<1> HIDE DEF carried
<1>3. QED
  BY <1>1, <1>2, AnsweringKeeps

LEMMA LoseReplyKeeps == DashInv /\ LoseReply => DashInv'
<1> SUFFICES ASSUME DashInv, LoseReply PROVE DashInv'
  OBVIOUS
<1> DEFINE list == Carried(Head(queue).op).list
<1>1. /\ queue # <<>>
      /\ Changed(list) \/ UNCHANGED <<leader, unborn>>
      /\ events' = Append(events, Completion(Head(queue), Failed))
      /\ queue' = Tail(queue) /\ UNCHANGED <<clientVars, dash, app>>
  BY DEF LoseReply
<1>2. list \in Seq(Records)
  BY <1>1, HeadOp, UnbornAre, CarriedIs
<1> HIDE DEF list
<1>3. Failed \in Replies /\ Failed.kind = "failed"
  BY DEF Failed, Replies
<1>4. QED
  BY <1>1, <1>2, <1>3, AnsweringKeeps

\* Nothing of the client changes but what waits for the dashboard.
LEMMA NotifyingKeeps ==
  ASSUME DashInv, NEW event \in Events, event.kind # "completed", events' = Append(events, event),
         UNCHANGED <<leader, unborn, queue, clientVars, dash, app>>
  PROVE  DashInv'
<1>1. Good(Ui, Append(events, event), Rest)
  BY AppendedIsGood DEF DashInv
<1>2. Ui' = Ui /\ Rest' = Rest
  BY DEF Ui, Rest, clientVars
<1>3. Resident'
  BY DEF DashInv, Resident, IdsOf
<1>4. Good(Ui', events', Rest')
  BY <1>1, <1>2
<1>5. QED
  BY <1>3, <1>4 DEF DashInv

LEMMA ReconnectKeeps == DashInv /\ Reconnect => DashInv'
<1>1. Reconnected \in Events /\ Reconnected.kind # "completed"
  BY DEF Reconnected, Events
<1>2. QED
  BY <1>1, NotifyingKeeps DEF Reconnect

LEMMA LeaderShutsDownKeeps == DashInv /\ LeaderShutsDown => DashInv'
<1>1. ShutDown \in Events /\ ShutDown.kind # "completed"
  BY DEF ShutDown, Events
<1>2. QED
  BY <1>1, NotifyingKeeps DEF LeaderShutsDown

LEMMA StopPumpKeeps == DashInv /\ StopPump => DashInv'
<1> SUFFICES ASSUME DashInv, StopPump PROVE DashInv'
  OBVIOUS
<1>1. Good([Ui EXCEPT !.queue = <<>>],
           events \o [i \in DOMAIN Ui.queue |-> Completion(Ui.queue[i], Failed)], Rest)
  BY StoppedIsGood DEF DashInv
<1>2. events' = events \o [i \in DOMAIN Ui.queue |-> Completion(Ui.queue[i], Failed)]
  BY UiIs DEF StopPump
<1>3. Ui' = [Ui EXCEPT !.queue = <<>>] /\ Rest' = Rest
  BY DEF StopPump, Ui, Rest, clientVars
<1>4. Resident'
  BY DEF StopPump, DashInv, Resident, IdsOf
<1>5. Good(Ui', events', Rest')
  BY <1>1, <1>2, <1>3
<1>6. QED
  BY <1>4, <1>5 DEF DashInv

LEMMA OthersActKeeps == DashInv /\ OthersAct => DashInv'
<1> SUFFICES ASSUME DashInv, OthersAct PROVE DashInv'
  OBVIOUS
<1>1. /\ UNCHANGED <<queue, events, clientVars, dash, app>>
      /\ Good(Ui, events, Rest) /\ leader \in Seq(Records) /\ unborn \subseteq Sessions
  BY UnbornAre DEF OthersAct, DashInv
<1>2. Ui' = Ui /\ UNCHANGED <<opened, registry, screens>>
  BY <1>1 DEF Ui, clientVars
<1>3. ASSUME NEW list \in Seq(Records), Changed(list) PROVE DashInv'
  <2>1. /\ Resident' /\ Rest' \in Rests /\ Rest'.unborn \subseteq Rest.unborn
        /\ Rest'.opened = Rest.opened /\ Rest'.registry = Rest.registry /\ Rest'.screens = Rest.screens
    BY <1>2, <1>3, ChangedIs
  <2>2. Good(Ui, events, Rest')
    BY <1>1, <2>1, FewerAreUnborn
  <2>3. Good(Ui', events', Rest')
    BY <1>1, <1>2, <2>2
  <2>4. QED
    BY <2>1, <2>3 DEF DashInv
<1>4. ASSUME NEW op \in Ops, Changed(Carried(op).list) PROVE DashInv'
  BY <1>1, <1>3, <1>4, CarriedIs
<1>5. CASE \E name \in Names : Changed(Carried([kind |-> "create", name |-> name]).list)
  BY <1>4, <1>5 DEF Ops
<1>6. ASSUME NEW i \in DOMAIN leader, Changed(RemoveAt(leader, i)) PROVE DashInv'
  BY <1>1, <1>3, <1>6, RemovedIs
<1>7. ASSUME NEW i \in DOMAIN leader, NEW name \in Names,
             Changed(Carried([kind |-> "rename", id |-> leader[i].id, name |-> name]).list)
      PROVE  DashInv'
  <2>1. leader[i] \in Records
    BY <1>1, LenProperties, ElementOfSeq
  <2>2. [kind |-> "rename", id |-> leader[i].id, name |-> name] \in Ops
    BY <2>1 DEF Ops, Records
  <2>3. QED
    BY <1>4, <1>7, <2>2
<1>8. ASSUME NEW i \in DOMAIN leader, NEW driver \in {"none", "other"},
             leader' = [leader EXCEPT ![i].driver = driver], UNCHANGED unborn
      PROVE  DashInv'
  <2>1. leader' \in Seq(Records) /\ IdsOf(leader') = IdsOf(leader)
    <3>1. driver \in Drivers
      BY DEF Drivers
    <3>2. QED
      BY <1>1, <1>8, <3>1, ExceptIs
  <2>2. Resident'
    BY <2>1, <1>8 DEF DashInv, Resident, IdsOf
  <2>3. Rest' = Rest
    BY <1>2, <1>8 DEF Rest
  <2>4. Good(Ui', events', Rest')
    BY <1>1, <1>2, <2>3
  <2>5. QED
    BY <2>2, <2>4 DEF DashInv
<1>9. QED
  BY <1>5, <1>6, <1>7, <1>8 DEF OthersAct

-----------------------------------------------------------------------------
(* Attachments and screens                                                 *)

\* An attachment ends: its result, where the dashboard runs, takes its place.
LEMMA EndsKeeps ==
  ASSUME DashInv, NEW task, NEW ok \in BOOLEAN, Ends(task, ok), ok => task.id \notin registry,
         leader' \in Seq(Records), IdsOf(leader') = IdsOf(leader)
  PROVE  DashInv'
<1> DEFINE result == [id |-> task.id, ok |-> ok]
           last == Len(opened) + 1
<1>1. /\ Ui \in Uis /\ events \in Seq(Events) /\ Rest \in Rests /\ Fair(Ui)
      /\ app = "runs" => Agrees(Ui, events, Rest)
  BY UiIs DEF DashInv, Good
<1>2. tasks \subseteq Attachments /\ opened \in Seq(Results) /\ registry \subseteq Sessions
  BY <1>1, UiIs, RestIs DEF Uis, Rests
<1>3. /\ task \in tasks /\ tasks' = tasks \ {task} /\ task \in Attachments /\ task.id \in Sessions
      /\ dash' = dash /\ queue' = queue /\ app' = app /\ events' = events /\ unborn' = unborn /\ screens' = screens
  BY <1>2 DEF Ends, Attachments
<1>4. /\ app = "runs" => /\ opened' = Append(opened, result)
                         /\ registry' = IF ok THEN registry \cup {task.id} ELSE registry
      /\ app # "runs" => opened' = opened /\ registry' = registry
  BY DEF Ends
<1>5. result \in Results /\ result.id = task.id /\ result.ok = ok
  BY <1>3 DEF Results
<1> HIDE DEF result
<1>6. /\ Ui' \in Uis /\ Ui'.d = Ui.d /\ Ui'.queue = Ui.queue /\ Ui'.app = Ui.app /\ Ui'.tasks = Ui.tasks \ {task}
  BY <1>1, <1>3 DEF Ui, Uis
<1>7. opened' \in Seq(Results) /\ registry' \subseteq Sessions
  <2>1. Append(opened, result) \in Seq(Results)
    BY <1>2, <1>5, AppendProperties
  <2>2. QED
    BY <2>1, <1>2, <1>3, <1>4
<1>8. Rest' \in Rests
  BY <1>1, <1>3, <1>7, RestIs DEF Rest, Rests
<1>9. Resident'
  BY <1>3 DEF DashInv, Resident, IdsOf
<1>10. Fair(Ui')
  BY <1>1, <1>6 DEF Fair
<1>11. SUFFICES ASSUME app = "runs" PROVE Agrees(Ui', events, Rest')
  <2>1. Good(Ui', events', Rest') <=> (Ui'.app = "runs" => Agrees(Ui', events, Rest'))
    BY <1>1, <1>3, <1>6, <1>8, <1>10 DEF Good
  <2>2. Ui'.app = app
    BY <1>6, UiIs
  <2>3. QED
    BY <1>9, <2>1, <2>2 DEF DashInv
<1>12. /\ Born(Ui, events, Rest) /\ News(Ui, events, Rest)
       /\ Opens(Ui, Rest) /\ Screened(Ui, Rest) /\ OnItsWay(Ui, events)
  BY <1>1, <1>11 DEF Agrees
<1>13. /\ opened' = Append(opened, result) /\ last \in DOMAIN opened' /\ opened'[last] = result
       /\ \A k \in DOMAIN opened : k \in DOMAIN opened' /\ opened'[k] = opened[k] /\ k # last
       /\ \A k \in DOMAIN opened' : k # last => k \in DOMAIN opened
  <2>1. opened' = Append(opened, result)
    BY <1>4, <1>11
  <2>2. /\ last \in DOMAIN Append(opened, result) /\ Append(opened, result)[last] = result
        /\ \A k \in DOMAIN opened : k \in DOMAIN Append(opened, result) /\ Append(opened, result)[k] = opened[k]
        /\ last \notin DOMAIN opened
        /\ \A k \in DOMAIN Append(opened, result) : k # last => k \in DOMAIN opened
    BY <1>2, <1>5, AppendIs
  <2> HIDE DEF last
  <2>3. QED
    BY <2>1, <2>2
<1> HIDE DEF last
<1>14. /\ Rest'.opened = opened' /\ Rest'.registry = registry' /\ Rest'.screens = screens /\ Rest'.unborn = unborn
       /\ Rest.opened = opened /\ Rest.registry = registry /\ Rest.screens = screens /\ Rest.unborn = unborn
       /\ Ui.tasks = tasks
  BY <1>3, RestIs, UiIs DEF Rest
<1>15. IsHeld(Ui, Rest, task.id) /\ task.id \in Ui.d.opening
  <2>1. IsHeld(Ui, Rest, task.id)
    BY <1>3, <1>14 DEF IsHeld
  <2>2. QED
    BY <2>1, <1>3, <1>12 DEF Opens
<1>16. \A id : IsSeen(Ui', Rest', id) => IsSeen(Ui, Rest, id)
  <2>1. \A id : id \in registry' => id \in registry \/ id = task.id
    BY <1>4, <1>11
  <2>2. QED
    BY <2>1, <1>6, <1>14, <1>15 DEF IsSeen
<1>17. Born(Ui', events, Rest') /\ News(Ui', events, Rest')
  <2>1. Rest'.unborn = Rest.unborn
    BY <1>14
  <2>2. QED
    BY <2>1, <1>12, <1>16 DEF Born, News
<1>18. Opens(Ui', Rest')
  <2>1. \A j \in DOMAIN opened : opened[j].id # task.id
    BY <1>3, <1>12, <1>14 DEF Opens
  <2>2. \A one \in tasks : one # task => one.id # task.id
    BY <1>3, <1>12, <1>14 DEF Opens
  <2>3. \A i, j \in DOMAIN opened' : opened'[i].id = opened'[j].id => i = j
    <3>1. TAKE i, j \in DOMAIN opened'
    <3>2. HAVE opened'[i].id = opened'[j].id
    <3>3. CASE i = last /\ j # last
      BY <3>2, <3>3, <2>1, <1>5, <1>13
    <3>4. CASE i # last /\ j = last
      BY <3>2, <3>4, <2>1, <1>5, <1>13
    <3>5. CASE i # last /\ j # last
      BY <3>2, <3>5, <1>12, <1>13, <1>14 DEF Opens
    <3>6. QED
      BY <3>3, <3>4, <3>5
  <2>4. \A one \in tasks', j \in DOMAIN opened' : opened'[j].id # one.id
    <3>1. TAKE one \in tasks', j \in DOMAIN opened'
    <3>2. one \in tasks /\ one # task
      BY <1>3
    <3>3. CASE j = last
      BY <3>2, <3>3, <2>2, <1>5, <1>13
    <3>4. CASE j # last
      BY <3>2, <3>4, <1>12, <1>13, <1>14 DEF Opens
    <3>5. QED
      BY <3>3, <3>4
  <2>5. \A id \in Sessions : IsHeld(Ui', Rest', id) => IsHeld(Ui, Rest, id)
    <3>1. TAKE id \in Sessions
    <3>2. HAVE IsHeld(Ui', Rest', id)
    <3>3. CASE \E one \in Ui'.tasks : one.id = id
      BY <3>3, <1>6 DEF IsHeld
    <3>4. CASE \E j \in DOMAIN opened' : opened'[j].id = id
      <4>1. PICK j \in DOMAIN opened' : opened'[j].id = id
        BY <3>4
      <4>2. CASE j = last
        BY <4>1, <4>2, <1>5, <1>13, <1>15
      <4>3. CASE j # last
        BY <4>1, <4>3, <1>13, <1>14 DEF IsHeld
      <4>4. QED
        BY <4>2, <4>3
    <3>5. QED
      BY <3>2, <3>3, <3>4, <1>14 DEF IsHeld
  <2>6. Ui'.tasks = tasks' /\ tasks' \subseteq tasks
    BY <1>3, <1>6, <1>14
  <2>7. \A id \in Sessions : IsHeld(Ui', Rest', id) => id \in Ui'.d.opening
    BY <2>5, <1>6, <1>12 DEF Opens
  <2>8. \A one \in Ui'.tasks, other \in Ui'.tasks : other.id = one.id => other = one
    BY <2>6, <1>12, <1>14 DEF Opens
  <2>9. QED
    BY <2>3, <2>4, <2>6, <2>7, <2>8, <1>14 DEF Opens
<1>19. Screened(Ui', Rest')
  <2>1. Attaching(Rest') = IF ok THEN Attaching(Rest) \cup {task.id} ELSE Attaching(Rest)
    <3>1. Attaching(Rest') = {opened'[i].id : i \in {j \in DOMAIN opened' : opened'[j].ok}}
      BY <1>14 DEF Attaching
    <3>2. Attaching(Rest) = {opened[i].id : i \in {j \in DOMAIN opened : opened[j].ok}}
      BY <1>14 DEF Attaching
    <3>3. \A id : id \in Attaching(Rest) => id \in Attaching(Rest')
      BY <3>1, <3>2, <1>13
    <3>4. ok => task.id \in Attaching(Rest')
      BY <3>1, <1>5, <1>13
    <3>5. \A id : id \in Attaching(Rest') => id \in Attaching(Rest) \/ (ok /\ id = task.id)
      BY <3>1, <3>2, <1>5, <1>13
    <3>6. QED
      BY <3>3, <3>4, <3>5
  <2>2. registry' = IF ok THEN registry \cup {task.id} ELSE registry
    BY <1>4, <1>11
  <2>3. /\ registry = screens \cup Attaching(Rest) /\ screens \cap Attaching(Rest) = {}
        /\ \A one \in tasks : one.id \notin registry
    BY <1>12, <1>14 DEF Screened
  <2>4. \A one \in tasks' : one.id \notin registry'
    <3>1. \A one \in tasks : one # task => one.id # task.id
      BY <1>3, <1>12, <1>14 DEF Opens
    <3>2. QED
      BY <3>1, <2>2, <2>3, <1>3
  <2>5. Ui'.tasks = tasks'
    BY <1>3, <1>6, <1>14
  <2>6. /\ registry' = screens \cup Attaching(Rest') /\ screens \cap Attaching(Rest') = {}
    BY <2>1, <2>2, <2>3
  <2>7. QED
    BY <2>4, <2>5, <2>6, <1>14 DEF Screened
<1>20. OnItsWay(Ui', events)
  BY <1>6, <1>12 DEF OnItsWay
<1>21. QED
  BY <1>17, <1>18, <1>19, <1>20 DEF Agrees

LEMMA AttachKeeps == ASSUME DashInv, NEW task \in tasks, Attach(task) PROVE DashInv'
<1> DEFINE ok == Admits(task) /\ task.id \notin registry
<1>1. leader \in Seq(Records) /\ Ui \in Uis
  BY UnbornAre DEF DashInv, Good
<1>2. task \in Attachments
  BY <1>1, UiIs DEF Uis
<1>3. Admits(task) \in BOOLEAN
  BY <1>2 DEF Admits, IsThere, Attachments
<1>4. ok \in BOOLEAN /\ (ok => task.id \notin registry)
  BY <1>3
<1>5. Ends(task, ok)
  BY DEF Attach
<1>6. leader' \in Seq(Records) /\ IdsOf(leader') = IdsOf(leader)
  <2>1. CASE ~Admits(task) \/ task.view
    BY <2>1, <1>1 DEF Attach
  <2>2. CASE ~(~Admits(task) \/ task.view)
    <3> DEFINE driver == IF task.id \in registry \/ app # "runs" THEN "none" ELSE "us"
    <3>1. leader' = Driven(task.id, driver) /\ IsThere(task.id)
      BY <2>2 DEF Attach, Admits
    <3>2. driver \in Drivers
      BY DEF Drivers
    <3> HIDE DEF driver
    <3>3. QED
      BY <3>1, <3>2, <1>1, DrivenIs
  <2>3. QED
    BY <2>1, <2>2
<1> HIDE DEF ok
<1>7. QED
  BY <1>4, <1>5, <1>6, EndsKeeps

LEMMA AttachFailsKeeps == ASSUME DashInv, NEW task \in tasks, AttachFails(task) PROVE DashInv'
<1>1. Ends(task, FALSE) /\ leader' = leader
  BY DEF AttachFails
<1>2. leader' \in Seq(Records) /\ IdsOf(leader') = IdsOf(leader)
  BY <1>1, UnbornAre
<1>3. QED
  BY <1>1, <1>2, EndsKeeps

\* The screen of the first result is shown, and may be opened again later.
LEMMA ScreenOpenedKeeps == DashInv /\ ScreenOpened => DashInv'
<1> SUFFICES ASSUME DashInv, ScreenOpened PROVE DashInv'
  OBVIOUS
<1> DEFINE result == Head(opened)
<1>1. /\ Ui \in Uis /\ events \in Seq(Events) /\ Rest \in Rests /\ Fair(Ui)
      /\ app = "runs" /\ opened # <<>> /\ Agrees(Ui, events, Rest)
  BY UiIs DEF DashInv, Good, ScreenOpened
<1>2. opened \in Seq(Results) /\ registry \subseteq Sessions /\ screens \subseteq Sessions /\ dash \in Dashes
  BY <1>1, UiIs, RestIs DEF Uis, Rests
<1>3. /\ result = opened[1] /\ result \in Results /\ 1 \in DOMAIN opened /\ Tail(opened) \in Seq(Results)
      /\ \A k \in DOMAIN Tail(opened) :
           k \in Nat /\ k + 1 \in DOMAIN opened /\ Tail(opened)[k] = opened[k + 1] /\ k + 1 > 1
      /\ \A k \in DOMAIN opened : k # 1 => k - 1 \in DOMAIN Tail(opened) /\ opened[k] = Tail(opened)[k - 1]
  BY <1>1, <1>2, TailIs
<1>4. /\ dash' = [dash EXCEPT !.opening = dash.opening \ {result.id}]
      /\ screens' = IF result.ok THEN screens \cup {result.id} ELSE screens
      /\ registry' = IF result.ok /\ result.id \in screens THEN registry \ {result.id} ELSE registry
      /\ opened' = Tail(opened)
      /\ leader' = leader /\ unborn' = unborn /\ queue' = queue /\ events' = events /\ tasks' = tasks /\ app' = app
  BY DEF ScreenOpened, NotOpening
<1> HIDE DEF result
<1>5. /\ Born(Ui, events, Rest) /\ News(Ui, events, Rest)
      /\ Opens(Ui, Rest) /\ Screened(Ui, Rest) /\ OnItsWay(Ui, events)
  BY <1>1 DEF Agrees
<1>6. result.id \in Sessions /\ result.ok \in BOOLEAN
  BY <1>3 DEF Results
<1>7. /\ dash' \in Dashes /\ dash'.opening = dash.opening \ {result.id}
      /\ dash'.listed = dash.listed /\ dash'.pending = dash.pending
  BY <1>2, <1>4 DEF Dashes
<1>8. /\ Ui' \in Uis /\ Ui'.d = dash' /\ Ui'.queue = queue /\ Ui'.app = app /\ Ui'.tasks = tasks
      /\ Ui.d = dash /\ Ui.queue = queue /\ Ui.app = app /\ Ui.tasks = tasks
  BY <1>1, <1>4, <1>7 DEF Ui, Uis
<1>9. /\ Rest' \in Rests /\ Rest'.unborn = unborn /\ Rest'.opened = opened'
      /\ Rest'.registry = registry' /\ Rest'.screens = screens'
      /\ Rest.unborn = unborn /\ Rest.opened = opened /\ Rest.registry = registry /\ Rest.screens = screens
  BY <1>1, <1>2, <1>3, <1>4, <1>6 DEF Rest, Rests
<1>10. Resident'
  BY <1>4 DEF DashInv, Resident, IdsOf
<1>11. result.ok => result.id \in Attaching(Rest)
  BY <1>3, <1>9 DEF Attaching
<1>12. registry' = registry /\ (result.ok => result.id \notin screens /\ result.id \in registry)
  BY <1>4, <1>5, <1>9, <1>11 DEF Screened
<1>13. Born(Ui', events, Rest') /\ News(Ui', events, Rest')
  <2>1. \A id : IsSeen(Ui', Rest', id) => IsSeen(Ui, Rest, id)
    BY <1>4, <1>7, <1>8, <1>9, <1>12 DEF IsSeen
  <2>2. QED
    BY <2>1, <1>5, <1>9 DEF Born, News
<1>14. Opens(Ui', Rest')
  <2>1. \A i, j \in DOMAIN opened' : opened'[i].id = opened'[j].id => i = j
    <3>1. TAKE i, j \in DOMAIN opened'
    <3>2. HAVE opened'[i].id = opened'[j].id
    <3>3. i + 1 = j + 1 /\ i \in Nat /\ j \in Nat
      BY <3>2, <1>3, <1>4, <1>5, <1>9 DEF Opens
    <3>4. QED
      BY <3>3
  <2>2. \A j \in DOMAIN opened' : opened'[j].id # result.id
    <3>1. TAKE j \in DOMAIN opened'
    <3>2. j + 1 \in DOMAIN opened /\ opened'[j] = opened[j + 1] /\ j + 1 # 1
      BY <1>3, <1>4
    <3>3. QED
      BY <3>2, <1>3, <1>5, <1>9 DEF Opens
  <2>3. \A task \in tasks : task.id # result.id
    BY <1>3, <1>5, <1>8, <1>9 DEF Opens
  <2>4. \A task \in tasks, j \in DOMAIN opened' : opened'[j].id # task.id
    BY <1>3, <1>4, <1>5, <1>8, <1>9 DEF Opens
  <2>5. ASSUME NEW id \in Sessions, IsHeld(Ui', Rest', id) PROVE id \in dash'.opening
    <3>1. id # result.id
      BY <2>2, <2>3, <2>5, <1>8, <1>9 DEF IsHeld
    <3>2. IsHeld(Ui, Rest, id)
      BY <2>5, <1>3, <1>4, <1>8, <1>9 DEF IsHeld
    <3>3. QED
      BY <3>1, <3>2, <1>5, <1>7, <1>8 DEF Opens
  <2>6. \A task \in tasks, other \in tasks : other.id = task.id => other = task
    BY <1>5, <1>8 DEF Opens
  <2>7. QED
    BY <2>1, <2>4, <2>5, <2>6, <1>8, <1>9 DEF Opens
<1>15. Screened(Ui', Rest')
  <2>1. Attaching(Rest) = {opened[i].id : i \in {j \in DOMAIN opened : opened[j].ok}}
    BY <1>9 DEF Attaching
  <2>2. Attaching(Rest') = {opened'[i].id : i \in {j \in DOMAIN opened' : opened'[j].ok}}
    BY <1>9 DEF Attaching
  <2>3. \A id : id \in Attaching(Rest') => id \in Attaching(Rest)
    BY <2>1, <2>2, <1>3, <1>4
  <2>4. \A id : id \in Attaching(Rest) => id \in Attaching(Rest') \/ (result.ok /\ id = result.id)
    <3>1. TAKE id
    <3>2. HAVE id \in Attaching(Rest)
    <3>3. PICK i \in DOMAIN opened : opened[i].ok /\ opened[i].id = id
      BY <2>1, <3>2
    <3>4. CASE i = 1
      BY <3>3, <3>4, <1>3
    <3>5. CASE i # 1
      BY <3>3, <3>5, <2>2, <1>3, <1>4
    <3>6. QED
      BY <3>4, <3>5
  <2>5. result.id \notin Attaching(Rest')
    <3>1. SUFFICES ASSUME NEW j \in DOMAIN opened', opened'[j].id = result.id PROVE FALSE
      BY <2>2
    <3>2. j + 1 \in DOMAIN opened /\ opened'[j] = opened[j + 1] /\ j + 1 # 1
      BY <1>3, <1>4
    <3>3. QED
      BY <3>1, <3>2, <1>3, <1>5, <1>9 DEF Opens
  <2>6. /\ registry = screens \cup Attaching(Rest) /\ screens \cap Attaching(Rest) = {}
        /\ \A task \in tasks : task.id \notin registry
    BY <1>5, <1>8, <1>9 DEF Screened
  <2>7. screens' = IF result.ok THEN screens \cup {result.id} ELSE screens
    BY <1>4
  <2>8. registry' = screens' \cup Attaching(Rest') /\ screens' \cap Attaching(Rest') = {}
    BY <2>3, <2>4, <2>5, <2>6, <2>7, <1>12
  <2>9. QED
    BY <2>6, <2>8, <1>8, <1>9, <1>12 DEF Screened
<1>16. OnItsWay(Ui', events)
  BY <1>5, <1>7, <1>8 DEF OnItsWay
<1>17. Fair(Ui')
  BY <1>1, <1>8 DEF Fair
<1>18. Good(Ui', events', Rest')
  BY <1>1, <1>4, <1>8, <1>9, <1>13, <1>14, <1>15, <1>16, <1>17 DEF Good, Agrees
<1>19. QED
  BY <1>10, <1>18 DEF DashInv

LEMMA CloseScreenKeeps == ASSUME DashInv, NEW id \in Sessions, CloseScreen(id) PROVE DashInv'
<1>1. /\ Ui \in Uis /\ events \in Seq(Events) /\ Rest \in Rests /\ Fair(Ui)
      /\ app = "runs" => Agrees(Ui, events, Rest)
  BY UiIs DEF DashInv, Good
<1>2. registry \subseteq Sessions /\ screens \subseteq Sessions /\ app \in {"runs", "closed", "left"}
  BY <1>1, UiIs, RestIs DEF Uis, Rests
<1>3. /\ id \in screens /\ screens' = screens \ {id} /\ registry' = registry \ {id}
      /\ app' \in {"runs", "closed", "left"} /\ (app' = "runs" => app = "runs")
      /\ UNCHANGED <<unborn, queue, events, tasks, opened, dash>>
  BY <1>2 DEF CloseScreen
<1>4. Resident'
  <2>1. leader' \in Seq(Records) /\ IdsOf(leader') = IdsOf(leader)
    <3>1. leader \in Seq(Records) /\ "none" \in Drivers
      BY UnbornAre DEF Drivers
    <3>2. CASE IsThere(id) /\ leader[PositionOf(leader, id)].driver = "us"
      BY <3>1, <3>2, DrivenIs DEF CloseScreen
    <3>3. CASE ~(IsThere(id) /\ leader[PositionOf(leader, id)].driver = "us")
      BY <3>1, <3>3 DEF CloseScreen
    <3>4. QED
      BY <3>2, <3>3
  <2>2. QED
    BY <2>1, <1>3 DEF DashInv, Resident, IdsOf
<1>5. /\ Ui' \in Uis /\ Ui'.d = Ui.d /\ Ui'.queue = Ui.queue /\ Ui'.app = app' /\ Ui'.tasks = Ui.tasks
  BY <1>1, <1>3 DEF Ui, Uis
<1>6. /\ Rest' \in Rests /\ Rest'.unborn = Rest.unborn /\ Rest'.opened = Rest.opened
      /\ Rest'.registry = Rest.registry \ {id} /\ Rest'.screens = Rest.screens \ {id}
      /\ id \in Rest.screens
  BY <1>1, <1>2, <1>3 DEF Rest, Rests
<1>7. ASSUME app' = "runs" PROVE Agrees(Ui', events, Rest')
  <2>1. Agrees(Ui, events, Rest)
    BY <1>1, <1>3, <1>7
  <2>2. \A other : IsSeen(Ui', Rest', other) => IsSeen(Ui, Rest, other)
    BY <1>5, <1>6 DEF IsSeen
  <2>3. Born(Ui', events, Rest') /\ News(Ui', events, Rest')
    BY <2>1, <2>2, <1>6 DEF Agrees, Born, News
  <2>4. Opens(Ui', Rest')
    BY <2>1, <1>5, <1>6 DEF Agrees, Opens, IsHeld
  <2>5. Screened(Ui', Rest')
    <3>1. Attaching(Rest') = Attaching(Rest)
      BY <1>6 DEF Attaching
    <3>2. QED
      BY <2>1, <3>1, <1>5, <1>6 DEF Agrees, Screened
  <2>6. OnItsWay(Ui', events)
    BY <2>1, <1>5 DEF Agrees, OnItsWay
  <2>7. QED
    BY <2>3, <2>4, <2>5, <2>6 DEF Agrees
<1>8. Fair(Ui')
  BY <1>1, <1>5 DEF Fair
<1>9. Good(Ui', events', Rest')
  BY <1>1, <1>3, <1>5, <1>6, <1>7, <1>8 DEF Good
<1>10. QED
  BY <1>4, <1>9 DEF DashInv

LEMMA CloseKeeps == DashInv /\ Close => DashInv'
<1> SUFFICES ASSUME DashInv, Close PROVE DashInv'
  OBVIOUS
<1>1. Ui \in Uis /\ Rest \in Rests /\ Fair(Ui)
  BY DEF DashInv, Good
<1>2. /\ app' \in {"closed", "left"} /\ registry' = screens /\ opened' = <<>> /\ dash' = NewDash(<<>>)
      /\ queue' = <<>> /\ events' = <<>> /\ UNCHANGED <<unborn, tasks, screens>>
  BY DEF Close
<1>3. <<>> \in Seq(Requests) /\ <<>> \in Seq(Events) /\ <<>> \in Seq(Results) /\ <<>> \in Seq(Records)
  BY EmptySeq
<1>4. NewDash(<<>>) \in Dashes
  <2>1. <<>> \in Pendings
    <3>1. IsFiniteSet({}) /\ <<>> \in [{} -> Ops]
      BY FS_EmptySet
    <3>2. QED
      BY <3>1 DEF Pendings
  <2>2. QED
    BY <1>3, <2>1, BrowseIsAMode DEF NewDash, Dashes
<1>5. Ui' \in Uis /\ Ui'.app # "runs" /\ Ui'.tasks = Ui.tasks
  BY <1>1, <1>2, <1>3, <1>4 DEF Ui, Uis
<1>6. Rest' \in Rests
  BY <1>1, <1>2, <1>3 DEF Rest, Rests
<1>7. Resident'
  <2>1. leader' = Unscreened /\ leader \in Seq(Records)
    BY DEF Close, DashInv, Resident
  <2>2. DOMAIN leader = 1 .. Len(leader) /\ Len(leader) \in Nat /\ \A i \in 1 .. Len(leader) : leader[i] \in Records
    BY <2>1, LenProperties, ElementOfSeq
  <2>3. \A i \in 1 .. Len(leader) : Unscreened[i] \in Records /\ Unscreened[i].id = leader[i].id
    BY <2>2 DEF Unscreened, Records, Drivers
  <2>4. DOMAIN Unscreened = 1 .. Len(leader)
    BY <2>2 DEF Unscreened
  <2>5. Unscreened \in Seq(Records)
    BY <2>2, <2>3, <2>4 DEF Unscreened, Seq
  <2>6. IdsOf(Unscreened) = IdsOf(leader)
    BY <2>2, <2>3, <2>4 DEF IdsOf
  <2>7. IdsOf(leader)' = IdsOf(leader')
    BY DEF IdsOf
  <2>8. QED
    BY <1>2, <2>1, <2>5, <2>6, <2>7 DEF DashInv, Resident
<1>8. Good(Ui', events', Rest')
  BY <1>1, <1>2, <1>3, <1>5, <1>6 DEF Good, Fair
<1>9. QED
  BY <1>7, <1>8 DEF DashInv

-----------------------------------------------------------------------------
(* The invariant                                                           *)

LEMMA DashInit == Init => DashInv
<1> SUFFICES ASSUME Init PROVE DashInv
  OBVIOUS
<1> DEFINE session == [id |-> CHOOSE id \in Sessions : TRUE, name |-> CHOOSE name \in Names : TRUE,
                       driver |-> "none"]
<1>1. session \in Records
  BY DashboardAssumption DEF Records, Drivers
<1>2. leader = <<session>>
  BY DEF Init
<1> HIDE DEF session
<1>3. leader \in Seq(Records) /\ IdsOf(leader) = {session.id} /\ leader[1] = session
  BY <1>1, <1>2 DEF IdsOf
<1>4. /\ unborn = Sessions \ {session.id} /\ queue = <<>> /\ events = <<>> /\ tasks = {} /\ opened = <<>>
      /\ registry = {} /\ screens = {} /\ dash = NewDash(leader) /\ app = "runs"
  BY <1>3 DEF Init
<1>5. <<>> \in Seq(Requests) /\ <<>> \in Seq(Events) /\ <<>> \in Seq(Results)
  BY EmptySeq
<1>6. dash \in Dashes /\ dash.listed = leader /\ dash.opening = {} /\ DOMAIN dash.pending = {}
  <2>1. <<>> \in Pendings
    <3>1. IsFiniteSet({}) /\ <<>> \in [{} -> Ops]
      BY FS_EmptySet
    <3>2. QED
      BY <3>1 DEF Pendings
  <2>2. QED
    BY <1>3, <1>4, <2>1, BrowseIsAMode DEF NewDash, Dashes
<1>7. Ui \in Uis /\ Ui.d = dash /\ Ui.queue = <<>> /\ Ui.tasks = {} /\ Ui.app = "runs"
  BY <1>4, <1>5, <1>6 DEF Ui, Uis
<1>8. /\ Rest \in Rests /\ Rest.unborn = Sessions \ {session.id} /\ Rest.opened = <<>>
      /\ Rest.registry = {} /\ Rest.screens = {}
  BY <1>4, <1>5 DEF Rest, Rests
<1>9. Born(Ui, events, Rest) /\ News(Ui, events, Rest)
  BY <1>3, <1>4, <1>6, <1>7, <1>8 DEF Born, News, IsSeen
<1>10. Opens(Ui, Rest)
  BY <1>7, <1>8 DEF Opens, IsHeld
<1>11. Screened(Ui, Rest)
  BY <1>7, <1>8 DEF Screened, Attaching
<1>12. OnItsWay(Ui, events)
  BY <1>4, <1>6, <1>7 DEF OnItsWay
<1>13. Resident
  BY <1>3, <1>4 DEF Resident
<1>14. Good(Ui, events, Rest)
  BY <1>4, <1>5, <1>7, <1>8, <1>9, <1>10, <1>11, <1>12 DEF Good, Agrees, Fair
<1>15. QED
  BY <1>13, <1>14 DEF DashInv

LEMMA DashStep == DashInv /\ [Next]_vars => DashInv'
<1> SUFFICES ASSUME DashInv, [Next]_vars PROVE DashInv'
  OBVIOUS
<1>1. CASE Serve
  BY <1>1, ServeKeeps
<1>2. CASE LoseReply
  BY <1>2, LoseReplyKeeps
<1>3. CASE Reconnect
  BY <1>3, ReconnectKeeps
<1>4. CASE StopPump
  BY <1>4, StopPumpKeeps
<1>5. CASE LeaderShutsDown
  BY <1>5, LeaderShutsDownKeeps
<1>6. CASE OthersAct
  BY <1>6, OthersActKeeps
<1>7. CASE BrowseKey
  BY <1>7, BrowseKeyKeeps
<1>8. CASE TextKey
  BY <1>8, TextKeyKeeps
<1>9. CASE ConfirmKey
  BY <1>9, ConfirmKeyKeeps
<1>10. CASE Click
  BY <1>10, ClickKeeps
<1>11. CASE Close
  BY <1>11, CloseKeeps
<1>12. CASE TickRefresh
  BY <1>12, TickRefreshKeeps
<1>13. CASE ScreenOpened
  BY <1>13, ScreenOpenedKeeps
<1>14. CASE ClientEvent
  BY <1>14, ClientEventKeeps
<1>15. CASE \E task \in tasks : Attach(task) \/ AttachFails(task)
  BY <1>15, AttachKeeps, AttachFailsKeeps
<1>16. CASE \E id \in Sessions : CloseScreen(id)
  BY <1>16, CloseScreenKeeps
<1>17. CASE UNCHANGED vars
  <2>1. Ui' = Ui /\ Rest' = Rest /\ events' = events /\ leader' = leader /\ unborn' = unborn
    BY <1>17 DEF vars, clientVars, Ui, Rest
  <2>2. Resident'
    BY <2>1 DEF DashInv, Resident, IdsOf
  <2>3. Good(Ui', events', Rest')
    BY <2>1 DEF DashInv
  <2>4. QED
    BY <2>2, <2>3 DEF DashInv
<1>18. QED
  BY <1>1, <1>2, <1>3, <1>4, <1>5, <1>6, <1>7, <1>8, <1>9, <1>10, <1>11, <1>12, <1>13, <1>14, <1>15,
     <1>16, <1>17 DEF Next

LEMMA DashImplies == DashInv => OneOfEach /\ TakesWhatWasAsked
<1> SUFFICES ASSUME DashInv PROVE OneOfEach /\ TakesWhatWasAsked
  OBVIOUS
<1>1. Fair(Ui) /\ (app = "runs" => Screened(Ui, Rest) /\ OnItsWay(Ui, events))
  BY UiIs DEF DashInv, Good, Agrees
<1>2. TakesWhatWasAsked
  BY <1>1, UiIs DEF TakesWhatWasAsked, Fair
<1>3. ASSUME app = "runs" PROVE ScreensAgree
  <2>1. Attaching(Rest) = Attached
    BY RestIs DEF Attaching, Attached
  <2>2. QED
    BY <1>1, <1>3, <2>1, UiIs, RestIs DEF ScreensAgree, Screened
<1>4. ASSUME app = "runs" PROVE PendingIsOnItsWay
  <2> DEFINE answers == {j \in DOMAIN events : events[j].kind = "completed"}
             requests == [i \in DOMAIN queue |-> queue[i].id]
             replies == [i \in answers |-> events[i].id]
  <2>1. OnItsWay(Ui, events) /\ Ui.queue = queue /\ Ui.d = dash
    BY <1>1, <1>4, UiIs
  <2>2. IsInjective(requests)
    BY <2>1 DEF IsInjective, OnItsWay
  <2>3. IsInjective(replies)
    BY <2>1 DEF IsInjective, OnItsWay, IsReply
  <2>4. Range(requests) = {queue[i].id : i \in DOMAIN queue}
    BY DEF Range
  <2>5. Range(replies) = {events[i].id : i \in answers}
    BY DEF Range
  <2>6. Range(requests) \cap Range(replies) = {}
    BY <2>1, <2>4, <2>5 DEF OnItsWay, IsReply
  <2>7. Range(requests) \cup Range(replies) = DOMAIN dash.pending
    BY <2>1, <2>4, <2>5 DEF OnItsWay, IsReply
  <2> HIDE DEF requests, replies
  <2>8. QED
    BY <2>2, <2>3, <2>6, <2>7 DEF PendingIsOnItsWay, requests, replies
<1>5. QED
  BY <1>2, <1>3, <1>4 DEF OneOfEach

LEMMA DashInvariant == Spec => []DashInv
<1>1. DashInv /\ [Next]_vars => DashInv'
  BY DashStep
<1>2. QED
  BY DashInit, <1>1, PTL DEF Spec

\* A session has one screen at most, and what the dashboard expects an
\* answer to is on its way, once, whatever order replies, attachments and
\* keys come in.
THEOREM SessionsHaveOneScreen == Spec => []OneOfEach
<1>1. DashInv => OneOfEach
  BY DashImplies
<1>2. QED
  BY DashInvariant, <1>1, PTL

\* A session is taken over only if that was asked of this session, though
\* lists that come while the question stands move the selection.
THEOREM TakeoversAreAsked == Spec => []TakesWhatWasAsked
<1>1. DashInv => TakesWhatWasAsked
  BY DashImplies
<1>2. QED
  BY DashInvariant, <1>1, PTL

-----------------------------------------------------------------------------
(***************************************************************************)
(* The screen of one session: Remote, for any lines, heights, capacities   *)
(* and numbers of attempts.                                                *)
(***************************************************************************)
CONSTANTS Texts, MaxTranscript, Heights, ReconnectAttempts, MaxNotes, MaxEvents
VARIABLES session, link, missed, screen, state

R == INSTANCE Remote

Leases == [driver : R!Drivers, epoch : Nat]

Messages ==
  [kind : {"driver"}, lease : Leases]
  \cup [kind : {"event"}, event : [kind : {"appended", "reset"}, lines : Seq(Texts)]]

ScreenReplies ==
  [kind : {"sessions"}, there : BOOLEAN, lease : Leases] \cup [kind : {"driver"}, lease : Leases]
  \cup [kind : {"accepted", "failed"}]

ScreenEvents ==
  Messages \cup [kind : {"snapshot"}, lines : Seq(Texts)] \cup [kind : {"completed"}, reply : ScreenReplies]
  \cup [kind : {"reconnected", "shutting", "shutdown"}]

ScreenOps == [kind : Texts \cup {"list", "acquire", "release", "detach", "clear", "interrupt"}, epoch : Nat]

SessionStates == [there : BOOLEAN, driver : R!Drivers, epoch : Nat, lines : Seq(Texts)]

\* What the leader makes of a session, and publishes.
Outcomes == [session : SessionStates, messages : Seq(Messages)]

\* A screen asks only while it views, in whatever shape it is otherwise.
Calm(s) ==
  /\ s \in [lease : Nat, asked : BOOLEAN, shown : {s.shown},
            fromBottom : {s.fromBottom}, height : {s.height}, error : {s.error}]
  /\ s.asked => s.lease = 0

CalmUi(x) ==
  /\ x \in [s : {x.s}, queue : Seq(ScreenOps), state : {x.state}]
  /\ Calm(x.s)

LeaderTypes == session \in SessionStates /\ missed \in Seq(Messages)

ScreenInv ==
  /\ LeaderTypes
  /\ events \in Seq(ScreenEvents) /\ queue \in Seq(ScreenOps) /\ Calm(screen)

\* The assumption of Remote, which the lemmas carry with them.
LEMMA LatestIs ==
  ASSUME R!RemoteAssumption, NEW S, NEW all \in Seq(S)
  PROVE  R!Latest(all) \in Seq(S)
<1>1. /\ MaxTranscript \in Nat /\ Len(all) \in Nat
      /\ \A i \in 1 .. Len(all) : all[i] \in S
  BY ElementOfSeq, LenProperties DEF R!RemoteAssumption
<1>2. CASE Len(all) <= MaxTranscript
  BY <1>2 DEF R!Latest
<1>3. CASE ~(Len(all) <= MaxTranscript)
  <2> DEFINE m == Len(all) - MaxTranscript + 1
             n == Len(all)
  <2>1. m \in Int /\ n \in Int /\ \A i \in m .. n : all[i] \in S
    BY <1>1, <1>3
  <2>2. R!Latest(all) = SubSeq(all, m, n)
    BY <1>3 DEF R!Latest
  <2> HIDE DEF m, n
  <2>3. QED
    BY <2>1, <2>2, SubSeqProperties
<1>4. QED
  BY <1>2, <1>3

LEMMA OutcomesAre ==
  ASSUME R!RemoteAssumption, session \in SessionStates
  PROVE  /\ R!Same \in Outcomes
         /\ \A driver \in R!Drivers : R!Granted(driver) \in Outcomes
         /\ \A text \in Texts : R!Printed(text) \in Outcomes
         /\ R!Cleared \in Outcomes
         /\ [session |-> [session EXCEPT !.there = FALSE, !.driver = "none"], messages |-> <<>>] \in Outcomes
<1>1. <<>> \in Seq(Messages) /\ <<>> \in Seq(Texts)
  BY EmptySeq
<1>2. R!Same \in Outcomes
  BY <1>1 DEF R!Same, Outcomes
<1>3. ASSUME NEW driver \in R!Drivers PROVE R!Granted(driver) \in Outcomes
  <2> DEFINE next == [session EXCEPT !.driver = driver,
                                     !.epoch = IF driver = "none" THEN @ ELSE @ + 1]
             epoch == IF driver = "none" THEN session.epoch ELSE session.epoch + 1
  <2>1. next \in SessionStates
    <3>1. epoch \in Nat
      BY DEF SessionStates
    <3>2. next = [session EXCEPT !.driver = driver, !.epoch = epoch]
      BY DEF SessionStates
    <3> HIDE DEF next, epoch
    <3>3. QED
      BY <3>1, <3>2 DEF SessionStates
  <2> HIDE DEF next
  <2>2. R!DriverChanged(next) \in Messages
    BY <2>1 DEF R!DriverChanged, R!Lease, Messages, Leases, SessionStates
  <2> DEFINE change == R!DriverChanged(next)
  <2> HIDE DEF change
  <2>3. <<change>> \in Seq(Messages)
    BY <2>2 DEF change
  <2>4. R!Granted(driver) = IF driver = session.driver THEN R!Same ELSE [session |-> next, messages |-> <<change>>]
    BY DEF R!Granted, next, change
  <2>5. QED
    BY <1>2, <2>1, <2>3, <2>4 DEF Outcomes
<1>4. ASSUME NEW all \in Seq(Texts) PROVE R!Written(all) \in Outcomes
  <2>1. [session EXCEPT !.lines = all] \in SessionStates
    BY DEF SessionStates
  <2>2. R!Between(session.lines, all) \in [kind : {"appended", "reset"}, lines : Seq(Texts)]
    <3>1. session.lines \in Seq(Texts)
      BY DEF SessionStates
    <3> DEFINE m == Len(session.lines) + 1
               n == Len(all)
    <3>2. m \in Int /\ n \in Int /\ \A i \in m .. n : all[i] \in Texts
      <4>1. Len(session.lines) \in Nat /\ n \in Nat
        BY <3>1, LenProperties
      <4>2. \A i \in m .. n : i \in 1 .. Len(all)
        BY <4>1
      <4>3. QED
        BY <4>1, <4>2, ElementOfSeq
    <3> HIDE DEF m, n
    <3>3. SubSeq(all, m, n) \in Seq(Texts)
      BY <3>2, SubSeqProperties
    <3>4. QED
      BY <3>3 DEF R!Between, m, n
  <2> DEFINE event == R!Between(session.lines, all)
             message == R!Published(event)
  <2>3. message \in Messages
    BY <2>2 DEF R!Published, Messages
  <2> HIDE DEF message
  <2>4. <<message>> \in Seq(Messages)
    BY <2>3
  <2>5. R!Written(all) = [session |-> [session EXCEPT !.lines = all],
                          messages |-> IF all = session.lines THEN <<>> ELSE <<message>>]
    BY DEF R!Written, message
  <2>6. QED
    BY <1>1, <2>1, <2>4, <2>5 DEF Outcomes
<1>5. ASSUME NEW text \in Texts PROVE R!Printed(text) \in Outcomes
  <2>1. Append(session.lines, text) \in Seq(Texts)
    BY AppendProperties DEF SessionStates
  <2>2. QED
    BY <1>4, <2>1, LatestIs DEF R!Printed
<1>6. R!Cleared \in Outcomes
  BY <1>1, <1>4 DEF R!Cleared
<1>7. [session |-> [session EXCEPT !.there = FALSE, !.driver = "none"], messages |-> <<>>] \in Outcomes
  <2>1. [session EXCEPT !.there = FALSE, !.driver = "none"] \in SessionStates
    BY DEF SessionStates, R!Drivers
  <2>2. QED
    BY <1>1, <2>1 DEF Outcomes
<1>8. QED
  BY <1>2, <1>3, <1>5, <1>6, <1>7

LEMMA ScreenCarriedIs ==
  ASSUME R!RemoteAssumption, session \in SessionStates, NEW op
  PROVE  R!Carried(op)[1] \in Outcomes /\ R!Carried(op)[2] \in ScreenReplies
<1>1. \A driver \in {"us", "none"} : R!Granted(driver) \in Outcomes /\ R!Lease(R!Granted(driver).session) \in Leases
  <2>1. TAKE driver \in {"us", "none"}
  <2>2. R!Granted(driver) \in Outcomes
    BY OutcomesAre DEF R!Drivers
  <2>3. QED
    BY <2>2 DEF Outcomes, SessionStates, R!Lease, Leases
<1>2. R!Same \in Outcomes /\ R!Cleared \in Outcomes /\ \A text \in Texts : R!Printed(text) \in Outcomes
  BY OutcomesAre
<1>3. R!Lease(session) \in Leases /\ session.there \in BOOLEAN
  BY DEF SessionStates, R!Lease, Leases
<1>4. R!Failed \in ScreenReplies /\ [kind |-> "accepted"] \in ScreenReplies
  BY DEF R!Failed, ScreenReplies
<1>5. [kind |-> "sessions", there |-> session.there, lease |-> R!Lease(session)] \in ScreenReplies
  BY <1>3 DEF ScreenReplies
<1>6. \A driver \in {"us", "none"} : [kind |-> "driver", lease |-> R!Lease(R!Granted(driver).session)] \in ScreenReplies
  BY <1>1 DEF ScreenReplies
<1>0. Texts \cap {"list", "acquire", "release", "detach", "clear", "interrupt"} = {}
  BY DEF R!RemoteAssumption
<1> DEFINE isList == op.kind = "list"
           isAcquire == op.kind = "acquire" /\ session.there
           isRelease == op.kind \in {"release", "detach"} /\ session.driver = "us"
           isMine == session.driver = "us" /\ session.epoch = op.epoch
<1>7. CASE isList
  <2>1. R!Carried(op) = <<R!Same, [kind |-> "sessions", there |-> session.there, lease |-> R!Lease(session)]>>
    BY <1>7, <1>0 DEF R!Carried
  <2>2. QED
    BY <2>1, <1>2, <1>5
<1>8. CASE isAcquire
  <2>1. R!Carried(op) = <<R!Granted("us"), [kind |-> "driver", lease |-> R!Lease(R!Granted("us").session)]>>
    BY <1>8, <1>0 DEF R!Carried
  <2>2. QED
    BY <2>1, <1>1, <1>6
<1>9. CASE isRelease
  <2>1. R!Carried(op) = <<R!Granted("none"), [kind |-> "driver", lease |-> R!Lease(R!Granted("none").session)]>>
    BY <1>9, <1>0 DEF R!Carried
  <2>2. QED
    BY <2>1, <1>1, <1>6
<1>10. CASE ~isList /\ ~isAcquire /\ ~isRelease /\ isMine /\ op.kind = "clear"
  <2>1. R!Carried(op) = <<R!Cleared, [kind |-> "accepted"]>>
    BY <1>10, <1>0 DEF R!Carried
  <2>2. QED
    BY <2>1, <1>2, <1>4
<1>11. CASE ~isList /\ ~isAcquire /\ ~isRelease /\ isMine /\ op.kind # "clear" /\ op.kind = "interrupt"
  <2>1. R!Carried(op) = <<R!Same, [kind |-> "accepted"]>>
    BY <1>11, <1>0 DEF R!Carried
  <2>2. QED
    BY <2>1, <1>2, <1>4
<1>12. CASE /\ ~isList /\ ~isAcquire /\ ~isRelease /\ isMine
            /\ op.kind # "clear" /\ op.kind # "interrupt" /\ op.kind \in Texts
  <2>1. R!Carried(op) = <<R!Printed(op.kind), [kind |-> "accepted"]>>
    BY <1>12, <1>0 DEF R!Carried
  <2>2. QED
    BY <2>1, <1>12, <1>2, <1>4
<1>13. CASE /\ ~isList /\ ~isAcquire /\ ~isRelease
            /\ ~isMine \/ (op.kind # "clear" /\ op.kind # "interrupt" /\ op.kind \notin Texts)
  <2>1. R!Carried(op) = <<R!Same, R!Failed>>
    BY <1>13, <1>0 DEF R!Carried
  <2>2. QED
    BY <2>1, <1>2, <1>4
<1>14. QED
  BY <1>7, <1>8, <1>9, <1>10, <1>11, <1>12, <1>13

\* t is s but for the lines, the scrollback and the error.
LEMMA CalmIs ==
  ASSUME NEW s, Calm(s)
  PROVE  /\ Calm(R!WithNote(s))
         /\ \A error : Calm(R!Noted(s, error))
         /\ \A count : Calm(R!Appended(s, count))
         /\ \A amount : Calm(R!ScrolledUp(s, amount)) /\ Calm(R!ScrolledDown(s, amount))
         /\ \A height : Calm(R!Drawn(s, height))
         /\ \A x : /\ Calm([s EXCEPT !.shown = x]) /\ Calm([s EXCEPT !.fromBottom = x])
                   /\ Calm([s EXCEPT !.error = x])
         /\ Calm([s EXCEPT !.asked = FALSE])
         /\ ~R!Drives(s) => Calm([s EXCEPT !.asked = TRUE])
         /\ \A lease \in Leases : Calm(R!ApplyDriver(s, lease))
<1>1. \A x : /\ Calm([s EXCEPT !.shown = x]) /\ Calm([s EXCEPT !.fromBottom = x])
             /\ Calm([s EXCEPT !.error = x])
  BY DEF Calm
<1>2. Calm([s EXCEPT !.asked = FALSE]) /\ (~R!Drives(s) => Calm([s EXCEPT !.asked = TRUE]))
  BY DEF Calm, R!Drives
<1>3. Calm(R!WithNote(s))
  BY <1>1 DEF R!WithNote
<1>4. \A error : Calm(R!Noted(s, error))
  <2>1. \A x : Calm([R!WithNote(s) EXCEPT !.error = x])
    BY <1>3 DEF Calm
  <2>2. QED
    BY <2>1 DEF R!Noted
<1>5. \A count : Calm(R!Appended(s, count))
  BY <1>1 DEF R!Appended
<1>6. \A amount : Calm(R!ScrolledUp(s, amount)) /\ Calm(R!ScrolledDown(s, amount))
  BY <1>1 DEF R!ScrolledUp, R!ScrolledDown
<1>7. \A height : Calm(R!Drawn(s, height))
  BY DEF Calm, R!Drawn
<1>8. \A lease \in Leases : Calm(R!ApplyDriver(s, lease))
  <2>1. TAKE lease \in Leases
  <2> DEFINE owned == IF lease.driver = "us" THEN lease.epoch ELSE 0
  <2>2. owned \in Nat
    BY DEF Leases
  <2>3. R!ApplyDriver(s, lease) = IF s.lease = owned THEN s ELSE [s EXCEPT !.lease = owned, !.asked = FALSE]
    BY DEF R!ApplyDriver
  <2> HIDE DEF owned
  <2>4. Calm([s EXCEPT !.lease = owned, !.asked = FALSE])
    BY <2>2 DEF Calm
  <2>5. QED
    BY <2>3, <2>4
<1>9. QED
  BY <1>1, <1>2, <1>3, <1>4, <1>5, <1>6, <1>7, <1>8

LEMMA CalmUiIs ==
  ASSUME NEW x, CalmUi(x)
  PROVE  /\ \A s : Calm(s) => CalmUi([x EXCEPT !.s = s])
         /\ \A to : CalmUi([x EXCEPT !.state = to])
         /\ \A op \in ScreenOps : CalmUi(R!Enqueued(x, op))
<1>1. \A s : Calm(s) => CalmUi([x EXCEPT !.s = s])
  BY DEF CalmUi
<1>2. \A to : CalmUi([x EXCEPT !.state = to])
  BY DEF CalmUi
<1>3. ASSUME NEW op \in ScreenOps PROVE CalmUi(R!Enqueued(x, op))
  <2>1. \A error : CalmUi([x EXCEPT !.s = R!Noted(x.s, error)])
    BY <1>1, CalmIs DEF CalmUi
  <2>2. Append(x.queue, op) \in Seq(ScreenOps)
    BY AppendProperties DEF CalmUi
  <2>3. CalmUi([x EXCEPT !.queue = Append(x.queue, op)])
    BY <2>2 DEF CalmUi
  <2>4. QED
    BY <2>1, <2>3 DEF R!Enqueued, CalmUi
<1>4. QED
  BY <1>1, <1>2, <1>3

LEMMA WithIsCalm ==
  ASSUME ScreenInv
  PROVE  CalmUi(R!Ui) /\ R!Ui.s = screen /\ \A s : Calm(s) => CalmUi(R!With(s))
<1>1. CalmUi(R!Ui) /\ R!Ui.s = screen
  BY DEF ScreenInv, CalmUi, R!Ui
<1>2. QED
  BY <1>1, CalmUiIs DEF R!With

LEMMA OperationsAre ==
  ASSUME ScreenInv
  PROVE  \A kind \in Texts \cup {"list", "acquire", "release", "detach", "clear", "interrupt"} :
           R!Operation(kind) \in ScreenOps
BY DEF ScreenInv, Calm, R!Operation, ScreenOps

LEMMA CommandIsCalm ==
  ASSUME ScreenInv, NEW kind \in Texts \cup {"list", "acquire", "release", "detach", "clear", "interrupt"}
  PROVE  CalmUi(R!Command(kind))
<1> DEFINE x == R!Enqueued(R!Ui, R!Operation(kind))
<1>1. Calm(screen) /\ CalmUi(R!Ui) /\ CalmUi(R!With(R!Noted(screen, "viewing")))
  BY WithIsCalm, CalmIs DEF ScreenInv
<1>2. CalmUi(x)
  BY <1>1, OperationsAre, CalmUiIs
<1>3. CalmUi([x EXCEPT !.s.error = "none"])
  <2>1. Calm([x.s EXCEPT !.error = "none"])
    BY <1>2, CalmIs DEF CalmUi
  <2> HIDE DEF x
  <2>2. [x EXCEPT !.s.error = "none"] = [x EXCEPT !.s = [x.s EXCEPT !.error = "none"]]
    BY <1>2 DEF CalmUi
  <2>3. QED
    BY <1>2, <2>1, <2>2, CalmUiIs
<1>4. R!Command(kind) = IF ~R!Drives(screen) THEN R!With(R!Noted(screen, "viewing"))
                        ELSE IF x.queue = queue THEN x ELSE [x EXCEPT !.s.error = "none"]
  BY DEF R!Command
<1> HIDE DEF x
<1>5. QED
  BY <1>1, <1>2, <1>3, <1>4

\* The screen becomes what a handler makes of it.
LEMMA CalmKeeps ==
  ASSUME ScreenInv, NEW x, CalmUi(x), R!Becomes(x), events' \in Seq(ScreenEvents),
         UNCHANGED <<session, missed>>
  PROVE  ScreenInv'
BY DEF ScreenInv, LeaderTypes, CalmUi, R!Becomes, Calm, SessionStates

LEMMA AppliedIsCalm ==
  ASSUME ScreenInv, NEW event \in ScreenEvents
  PROVE  CalmUi(R!Applied(event))
<1>1. Calm(screen) /\ CalmUi(R!Ui)
  BY WithIsCalm DEF ScreenInv
<1>2. \A s : Calm(s) => CalmUi(R!With(s))
  BY WithIsCalm
<1>3. \A lease \in Leases : CalmUi(R!With(R!ApplyDriver(screen, lease)))
  BY <1>1, <1>2, CalmIs
<1>4. \A to : CalmUi([R!Ui EXCEPT !.state = to])
  BY <1>1, CalmUiIs
<1>5. CalmUi(R!With([screen EXCEPT !.error = "none"])) /\ \A error : CalmUi(R!With(R!Noted(screen, error)))
  BY <1>1, <1>2, CalmIs
<1>6. CalmUi(R!With(R!WithNote(screen)))
  BY <1>1, <1>2, CalmIs
<1>7. \A e : CalmUi(R!With(R!Scrolled(e)))
  <2>1. \A e : Calm([screen EXCEPT !.shown = R!AppliedTo(e, screen.shown)])
    BY <1>1, CalmIs
  <2>2. \A e : Calm(R!Scrolled(e))
    BY <2>1, CalmIs DEF R!Scrolled
  <2>3. QED
    BY <1>2, <2>2
<1>8. CASE event.kind = "completed"
  <2> DEFINE reply == event.reply
  <2>1. reply \in ScreenReplies
    BY <1>8 DEF ScreenEvents, Messages
  <2> HIDE DEF reply
  <2>2. CalmUi(R!ApplyResult(reply))
    <3>1. CASE reply.kind = "accepted"
      <4>1. R!ApplyResult(reply) = R!With([screen EXCEPT !.error = "none"])
        BY <3>1 DEF R!ApplyResult, R!Failed
      <4>2. QED
        BY <4>1, <1>5
    <3>2. CASE reply.kind = "driver"
      <4>1. R!ApplyResult(reply) = R!With(R!ApplyDriver(screen, reply.lease)) /\ reply.lease \in Leases
        BY <3>2, <2>1 DEF R!ApplyResult, R!Failed, ScreenReplies
      <4>2. QED
        BY <4>1, <1>3
    <3>3. CASE reply.kind = "sessions" /\ ~reply.there
      <4>1. R!ApplyResult(reply) = [R!Ui EXCEPT !.state = "closed"]
        BY <3>3 DEF R!ApplyResult, R!Failed
      <4>2. QED
        BY <4>1, <1>4
    <3>4. CASE reply.kind = "sessions" /\ reply.there
      <4>1. R!ApplyResult(reply) = R!With(R!ApplyDriver(screen, reply.lease)) /\ reply.lease \in Leases
        BY <3>4, <2>1 DEF R!ApplyResult, R!Failed, ScreenReplies
      <4>2. QED
        BY <4>1, <1>3
    <3>5. CASE reply.kind = "failed"
      <4>1. reply = R!Failed
        BY <3>5, <2>1 DEF R!Failed, ScreenReplies
      <4>2. R!ApplyResult(reply) = R!With(R!Noted(screen, "failed"))
        BY <3>5, <4>1 DEF R!ApplyResult
      <4>3. QED
        BY <4>2, <1>5
    <3>6. QED
      BY <2>1, <3>1, <3>2, <3>3, <3>4, <3>5 DEF ScreenReplies
  <2>3. QED
    BY <1>8, <2>2 DEF R!Applied, reply
<1>9. CASE event.kind = "reconnected"
  BY <1>9, <1>5 DEF R!Applied
<1>10. CASE event.kind = "driver"
  <2>1. R!Applied(event) = R!With(R!ApplyDriver(screen, event.lease)) /\ event.lease \in Leases
    BY <1>10 DEF R!Applied, R!ApplyMessage, ScreenEvents, Messages
  <2>2. QED
    BY <2>1, <1>3
<1>11. CASE event.kind = "event"
  BY <1>11, <1>7 DEF R!Applied, R!ApplyMessage
<1>12. CASE event.kind = "snapshot"
  BY <1>12, <1>7 DEF R!Applied, R!ApplyMessage
<1>13. CASE event.kind = "shutting"
  BY <1>13, <1>6 DEF R!Applied, R!ApplyMessage
<1>14. CASE event.kind = "shutdown"
  BY <1>14, <1>4 DEF R!Applied, R!ApplyMessage
<1>15. QED
  BY <1>8, <1>9, <1>10, <1>11, <1>12, <1>13, <1>14 DEF ScreenEvents, Messages

-----------------------------------------------------------------------------
(* One step of the leader, the pump or the screen                          *)

\* What the leader adds to what waits for the screen.
LEMMA MessagesAreEvents ==
  ASSUME NEW some \in Seq(Messages)
  PROVE  some \in Seq(ScreenEvents)
BY SeqMonotonic DEF ScreenEvents

LEMMA ActsKeeps ==
  ASSUME ScreenInv, NEW x \in Outcomes, R!Acts(x)
  PROVE  ScreenInv'
<1>1. /\ session' = x.session /\ UNCHANGED <<queue, screen>>
      /\ x.session \in SessionStates /\ x.messages \in Seq(Messages)
  BY DEF R!Acts, Outcomes
<1>2. events \in Seq(ScreenEvents) /\ missed \in Seq(Messages)
  BY DEF ScreenInv, LeaderTypes
<1>3. events' \in Seq(ScreenEvents) /\ missed' \in Seq(Messages)
  <2>1. CASE link.up
    <3>1. events' = events \o x.messages /\ missed' = missed
      BY <2>1 DEF R!Acts
    <3>2. x.messages \in Seq(ScreenEvents)
      BY <1>1, MessagesAreEvents
    <3>3. QED
      BY <1>2, <3>1, <3>2, ConcatProperties
  <2>2. CASE ~link.up
    <3> DEFINE more == IF R!IsEvent(x.messages) THEN x.messages ELSE <<>>
    <3>1. events' = events /\ missed' = missed \o more
      BY <2>2 DEF R!Acts
    <3>2. more \in Seq(Messages)
      BY <1>1, EmptySeq
    <3> HIDE DEF more
    <3>3. QED
      BY <1>2, <3>1, <3>2, ConcatProperties
  <2>3. QED
    BY <2>1, <2>2
<1>4. QED
  BY <1>1, <1>3 DEF ScreenInv, LeaderTypes, Calm

LEMMA OthersKeep ==
  ASSUME R!RemoteAssumption, ScreenInv, R!OthersAct
  PROVE  ScreenInv'
<1>1. session \in SessionStates
  BY DEF ScreenInv, LeaderTypes
<1>2. \/ \E driver \in {"none", "other"} : R!Acts(R!Granted(driver))
      \/ \E text \in Texts : R!Acts(R!Printed(text))
      \/ R!Acts(R!Cleared)
      \/ R!Acts([session |-> [session EXCEPT !.there = FALSE, !.driver = "none"], messages |-> <<>>])
  BY DEF R!OthersAct
<1>3. {"none", "other"} \subseteq R!Drivers
  BY DEF R!Drivers
<1>4. QED
  BY <1>1, <1>2, <1>3, OutcomesAre, ActsKeeps

LEMMA QueuedOpsAre ==
  ASSUME ScreenInv, queue # <<>>
  PROVE  Head(queue) \in ScreenOps /\ Tail(queue) \in Seq(ScreenOps)
BY HeadTailProperties DEF ScreenInv

LEMMA FailedIsAnEvent == R!Completed(R!Failed) \in ScreenEvents
BY DEF R!Completed, R!Failed, ScreenEvents, ScreenReplies

LEMMA ReleasedIs ==
  ASSUME ScreenInv
  PROVE  R!Released \in SessionStates
BY DEF ScreenInv, LeaderTypes, R!Released, SessionStates, R!Drivers

LEMMA PumpKeeps ==
  ASSUME R!RemoteAssumption, ScreenInv,
         R!Serve \/ R!TryAgain \/ R!GiveUp \/ R!Lose \/ R!Rejoin \/ R!StopPump \/ R!LeaderStops
  PROVE  ScreenInv'
<1>1. /\ session \in SessionStates /\ missed \in Seq(Messages) /\ events \in Seq(ScreenEvents)
      /\ queue \in Seq(ScreenOps) /\ Calm(screen)
  BY DEF ScreenInv, LeaderTypes
<1>2. SUFFICES session' \in SessionStates /\ missed' \in Seq(Messages) /\ events' \in Seq(ScreenEvents)
               /\ queue' \in Seq(ScreenOps) /\ screen' = screen
  BY <1>1 DEF ScreenInv, LeaderTypes, Calm
<1>3. <<>> \in Seq(Messages) /\ <<>> \in Seq(ScreenOps)
  BY EmptySeq
<1>4. CASE R!Serve
  <2> DEFINE x == R!Carried(Head(queue))[1]
             reply == R!Carried(Head(queue))[2]
             done == R!Completed(reply)
  <2>1. x \in Outcomes /\ reply \in ScreenReplies
    BY <1>1, ScreenCarriedIs
  <2>2. /\ session' = x.session /\ events' = events \o x.messages \o <<done>>
        /\ queue # <<>> /\ queue' = Tail(queue) /\ missed' = missed /\ screen' = screen
    BY <1>4 DEF R!Serve
  <2> HIDE DEF x, reply
  <2>3. done \in ScreenEvents
    BY <2>1 DEF R!Completed, ScreenEvents
  <2> HIDE DEF done
  <2>4. x.session \in SessionStates /\ x.messages \in Seq(ScreenEvents) /\ <<done>> \in Seq(ScreenEvents)
    BY <2>1, <2>3, MessagesAreEvents DEF Outcomes
  <2>5. events \o x.messages \o <<done>> \in Seq(ScreenEvents)
    BY <1>1, <2>4, ConcatProperties
  <2>6. QED
    BY <1>1, <2>2, <2>4, <2>5, QueuedOpsAre
<1>5. CASE R!TryAgain
  BY <1>1, <1>5, ReleasedIs DEF R!TryAgain
<1>6. CASE R!GiveUp
  <2>1. Append(events, R!Completed(R!Failed)) \in Seq(ScreenEvents)
    BY <1>1, FailedIsAnEvent, AppendProperties
  <2>2. QED
    BY <1>1, <1>6, <2>1, QueuedOpsAre DEF R!GiveUp
<1>7. CASE R!Lose
  <2>1. Append(events, R!Completed(R!Failed)) \in Seq(ScreenEvents)
    BY <1>1, FailedIsAnEvent, AppendProperties
  <2>2. QED
    BY <1>1, <1>7, <2>1, QueuedOpsAre, ReleasedIs DEF R!Lose
<1>8. CASE R!Rejoin
  <2> DEFINE x == IF link.mode = "drive" THEN R!Granted("us") ELSE R!Same
             snapshot == R!Snapshot(session)
  <2>1. x \in Outcomes
    BY <1>1, OutcomesAre DEF R!Drivers
  <2>2. snapshot \in ScreenEvents /\ R!Reconnected \in ScreenEvents
    BY <1>1 DEF R!Snapshot, R!Reconnected, ScreenEvents, SessionStates
  <2>3. PICK replayed \in {missed, <<snapshot>>} : events' = events \o x.messages \o replayed \o <<R!Reconnected>>
    BY <1>8 DEF R!Rejoin
  <2>4. session' = x.session /\ missed' = <<>> /\ queue' = queue /\ screen' = screen
    BY <1>8 DEF R!Rejoin
  <2> HIDE DEF x, snapshot
  <2>5. x.session \in SessionStates /\ x.messages \in Seq(ScreenEvents)
    BY <2>1, MessagesAreEvents DEF Outcomes
  <2>6. <<snapshot>> \in Seq(ScreenEvents)
    BY <2>2
  <2>7. replayed \in Seq(ScreenEvents)
    BY <1>1, <2>6, MessagesAreEvents
  <2> DEFINE last == R!Reconnected
  <2>8. last \in ScreenEvents
    BY <2>2
  <2>9. events' = events \o x.messages \o replayed \o <<last>>
    BY <2>3
  <2> HIDE DEF last
  <2>10. <<last>> \in Seq(ScreenEvents)
    BY <2>8
  <2>11. events \o x.messages \o replayed \o <<last>> \in Seq(ScreenEvents)
    BY <1>1, <2>5, <2>7, <2>10, ConcatProperties
  <2>12. QED
    BY <1>1, <1>3, <2>4, <2>5, <2>9, <2>11
<1>9. CASE R!StopPump
  <2> DEFINE failed == R!Completed(R!Failed)
             n == Len(queue) + 1
             more == [i \in 1 .. n |-> failed]
  <2>1. events' = events \o more /\ queue' = <<>> /\ UNCHANGED <<session, missed, screen>>
    BY <1>9 DEF R!StopPump
  <2>2. failed \in ScreenEvents /\ n \in Nat
    BY <1>1, FailedIsAnEvent, LenProperties
  <2> HIDE DEF failed, n
  <2>3. more \in Seq(ScreenEvents)
    BY <2>2
  <2> HIDE DEF more
  <2>4. events \o more \in Seq(ScreenEvents)
    BY <1>1, <2>3, ConcatProperties
  <2>5. QED
    BY <1>1, <1>3, <2>1, <2>4
<1>10. CASE R!LeaderStops
  <2>1. R!ShuttingDown \in ScreenEvents /\ R!ShutDown \in ScreenEvents
    BY DEF R!ShuttingDown, R!ShutDown, ScreenEvents
  <2> DEFINE first == R!ShuttingDown
             second == R!ShutDown
  <2>2. PICK last \in {<<>>, <<second>>} : events' = events \o <<first>> \o last
    BY <1>10 DEF R!LeaderStops
  <2>3. session' = R!Released /\ UNCHANGED <<missed, queue, screen>>
    BY <1>10 DEF R!LeaderStops
  <2>4. first \in ScreenEvents /\ second \in ScreenEvents
    BY <2>1
  <2> HIDE DEF first, second
  <2>5. <<first>> \in Seq(ScreenEvents) /\ <<second>> \in Seq(ScreenEvents) /\ <<>> \in Seq(ScreenEvents)
    BY <2>4
  <2>6. last \in Seq(ScreenEvents)
    BY <2>5
  <2>7. events \o <<first>> \o last \in Seq(ScreenEvents)
    BY <1>1, <2>5, <2>6, ConcatProperties
  <2>8. QED
    BY <1>1, <2>2, <2>3, <2>7, ReleasedIs
<1>11. QED
  BY <1>4, <1>5, <1>6, <1>7, <1>8, <1>9, <1>10

LEMMA KeysAreCalm ==
  ASSUME ScreenInv, NEW x \in R!Keys \cup R!ExecuteCommand \cup {R!With(s) : s \in R!Pages}
  PROVE  CalmUi(x)
<1>1. Calm(screen) /\ CalmUi(R!Ui) /\ \A s : Calm(s) => CalmUi(R!With(s))
  BY WithIsCalm DEF ScreenInv
<1>2. CalmUi([R!Ui EXCEPT !.state = "left"])
  BY <1>1, CalmUiIs
<1>3. {R!Command("clear"), R!Command("interrupt")} \subseteq {y \in {R!Command("clear"), R!Command("interrupt")} : CalmUi(y)}
  BY CommandIsCalm
<1>4. CalmUi(R!ReleaseControl)
  BY <1>1, CalmUiIs, OperationsAre DEF R!ReleaseControl
<1>5. CalmUi(R!TakeDriver)
  BY <1>1, CalmIs DEF R!TakeDriver
<1>6. ASSUME NEW y \in R!Submit PROVE CalmUi(y)
  <2>1. \A text \in Texts : CalmUi(R!Command(text))
    BY CommandIsCalm
  <2>2. CalmUi([R!Enqueued(R!Ui, R!Operation("detach")) EXCEPT !.state = "left"])
    <3>1. CalmUi(R!Enqueued(R!Ui, R!Operation("detach")))
      BY <1>1, CalmUiIs, OperationsAre
    <3>2. QED
      BY <3>1, CalmUiIs
  <2>3. QED
    BY <1>1, <1>6, <2>1, <2>2 DEF R!Submit
<1>7. ASSUME NEW y \in R!Answers PROVE CalmUi(y)
  <2>1. CalmUi(R!With([screen EXCEPT !.asked = FALSE]))
    BY <1>1, CalmIs
  <2>2. CalmUi(R!Enqueued(R!With([screen EXCEPT !.asked = FALSE]), R!Operation("acquire")))
    BY <2>1, CalmUiIs, OperationsAre
  <2>3. QED
    BY <1>7, <2>1, <2>2 DEF R!Answers
<1>8. \A s \in R!ScrollKeys : CalmUi(R!With(s))
  BY <1>1, CalmIs DEF R!ScrollKeys
<1>9. \A s \in R!Pages : CalmUi(R!With(s))
  BY <1>1, CalmIs DEF R!Pages
<1>10. \A y \in R!ExecuteCommand : CalmUi(y)
  BY <1>3, <1>4, <1>5 DEF R!ExecuteCommand
<1>11. \A y \in R!Keys : CalmUi(y)
  BY <1>2, <1>3, <1>4, <1>5, <1>6, <1>7, <1>8 DEF R!Keys
<1>12. QED
  BY <1>9, <1>10, <1>11

LEMMA ScreenKeeps ==
  ASSUME ScreenInv, R!Key \/ R!Draw \/ R!Resize \/ R!Tick \/ R!Poll
  PROVE  ScreenInv'
<1>1. Calm(screen) /\ CalmUi(R!Ui) /\ \A s : Calm(s) => CalmUi(R!With(s))
  BY WithIsCalm DEF ScreenInv
<1>2. events \in Seq(ScreenEvents)
  BY DEF ScreenInv
<1>3. ASSUME NEW x, CalmUi(x), R!Handles(x) PROVE ScreenInv'
  BY <1>2, <1>3, CalmKeeps DEF R!Handles
<1>4. CASE R!Key
  BY <1>3, <1>4, KeysAreCalm DEF R!Key
<1>5. CASE R!Draw \/ R!Resize
  BY <1>1, <1>3, <1>5, CalmIs DEF R!Draw, R!Resize
<1>6. CASE R!Tick
  <2>1. CalmUi(R!Enqueued(R!Ui, R!Operation("list")))
    BY <1>1, CalmUiIs, OperationsAre
  <2>2. QED
    BY <1>3, <1>6, <2>1 DEF R!Tick
<1>7. CASE R!Poll
  <2>1. CASE events # <<>> /\ R!Becomes(R!Applied(Head(events))) /\ events' = Tail(events)
    <3>1. Head(events) \in ScreenEvents /\ events' \in Seq(ScreenEvents)
      BY <1>2, <2>1, HeadTailProperties
    <3>2. CalmUi(R!Applied(Head(events)))
      BY <3>1, AppliedIsCalm
    <3>3. QED
      BY <1>7, <2>1, <3>1, <3>2, CalmKeeps DEF R!Poll
  <2>2. CASE R!Becomes(R!With(R!Noted(screen, "stopped"))) /\ UNCHANGED events
    BY <1>1, <1>2, <1>7, <2>2, CalmIs, CalmKeeps DEF R!Poll
  <2>3. QED
    BY <1>7, <2>1, <2>2 DEF R!Poll
<1>8. QED
  BY <1>4, <1>5, <1>6, <1>7

LEMMA ScreenInit ==
  ASSUME R!RemoteAssumption, R!Init
  PROVE  ScreenInv
<1> DEFINE text == CHOOSE t \in Texts : TRUE
           n == MaxTranscript - 1
           all == [i \in 1 .. n |-> text]
<1>1. text \in Texts /\ n \in Nat
  BY DEF R!RemoteAssumption
<1>2. PICK driver \in {"none", "us", "other"}, height \in Heights :
        /\ session = [there |-> TRUE, driver |-> driver, epoch |-> 1, lines |-> all]
        /\ screen = R!NewScreen(IF driver = "us" THEN 1 ELSE 0, all, height)
  BY DEF R!Init
<1> HIDE DEF text, n
<1>3. all \in Seq(Texts)
  BY <1>1
<1> HIDE DEF all
<1>4. session \in SessionStates
  BY <1>2, <1>3 DEF SessionStates, R!Drivers
<1>5. Calm(screen)
  BY <1>2 DEF Calm, R!NewScreen
<1>6. missed = <<>> /\ queue = <<>> /\ events = <<>>
  BY DEF R!Init
<1>7. QED
  BY <1>4, <1>5, <1>6, EmptySeq DEF ScreenInv, LeaderTypes

\* The question whether to take control stands on a screen that views its
\* session only, whatever replies, notices and connections come while it
\* stands.
THEOREM QuestionsAreOfViewers ==
  ASSUME R!RemoteAssumption
  PROVE  R!Spec => []R!QuestionIsOpen
<1>1. R!Init => ScreenInv
  BY ScreenInit
<1>2. ScreenInv /\ [R!Next]_(R!vars) => ScreenInv'
  <2> SUFFICES ASSUME ScreenInv, [R!Next]_(R!vars) PROVE ScreenInv'
    OBVIOUS
  <2>1. CASE R!OthersAct
    BY <2>1, OthersKeep
  <2>2. CASE R!Serve \/ R!TryAgain \/ R!GiveUp \/ R!Lose \/ R!Rejoin \/ R!StopPump \/ R!LeaderStops
    BY <2>2, PumpKeeps
  <2>3. CASE R!Key \/ R!Draw \/ R!Resize \/ R!Tick \/ R!Poll
    BY <2>3, ScreenKeeps
  <2>4. CASE UNCHANGED R!vars
    BY <2>4 DEF R!vars, ScreenInv, LeaderTypes, Calm
  <2>5. QED
    BY <2>1, <2>2, <2>3, <2>4 DEF R!Next
<1>3. ScreenInv => R!QuestionIsOpen
  BY DEF ScreenInv, Calm, R!QuestionIsOpen, R!Drives
<1>4. QED
  BY <1>1, <1>2, <1>3, PTL DEF R!Spec
-----------------------------------------------------------------------------
(***************************************************************************)
(* Settings, for any processes, actions, keys, edits of the user and       *)
(* number of inputs.                                                       *)
(***************************************************************************)
CONSTANTS Dashboards, Standalone, Actions, Keys, Default, Edits, Torn, None
VARIABLES files, active, clock, process, init

St == INSTANCE Settings

Fields == {"at", "text"}

CheckedResolves ==
  /\ process = [p \in St!Processes |-> process[p]]
  /\ \A p \in St!Processes :
       /\ Fields \subseteq DOMAIN process[p]
       /\ process[p].at = "checked" => St!Resolves(process[p].text)

(***************************************************************************)
(* What a process is about to rename into place resolves, wherever the     *)
(* files have gone in the meantime: it is written whole.                   *)
(***************************************************************************)
SettingsInv ==
  /\ files = [format \in St!Formats |-> files[format]]
  /\ St!SavedResolves
  /\ CheckedResolves

(* The template, which config init writes, resolves. *)
LEMMA DefaultResolves ==
  ASSUME St!SettingsAssumption
  PROVE  St!Resolves(Default)
<1>1. Default \in St!Texts /\ DOMAIN Default = Actions
  BY St!SettingsAssumption DEF St!Configs, St!Texts
<1>2. St!Parses(Default)
  BY <1>1, St!SettingsAssumption DEF St!Parses
<1>3. St!Resolved(Default) = Default
  BY <1>1, St!SettingsAssumption DEF St!Resolved, St!KeyOf, St!Configs
<1> QED
  BY <1>2, <1>3, St!SettingsAssumption DEF St!Resolves, St!Validates

(* A process takes a step, and is not left with a text it has not checked. *)
LEMMA BecomesKeeps ==
  ASSUME CheckedResolves, NEW p \in St!Processes, NEW x, St!Becomes(p, x),
         Fields \subseteq DOMAIN x,
         x.at = "checked" => St!Resolves(x.text)
  PROVE  CheckedResolves'
<1>1. /\ process' = [q \in St!Processes |-> process'[q]]
      /\ process'[p] = x
      /\ \A q \in St!Processes \ {p} : process'[q] = process[q]
  BY DEF CheckedResolves, St!Becomes
<1> QED
  BY <1>1 DEF CheckedResolves

(* The same, for a process whose record only changes in some fields. *)
LEMMA RestKeeps ==
  ASSUME NEW x, Fields \subseteq DOMAIN x
  PROVE  /\ Fields \subseteq DOMAIN St!AtRest(x)
         /\ St!AtRest(x).at = "idle"
         /\ \A config : /\ Fields \subseteq DOMAIN St!Reconfigured(x, config)
                        /\ St!Reconfigured(x, config).at = x.at
                        /\ St!Reconfigured(x, config).text = x.text
  BY DEF St!AtRest, St!Reconfigured, Fields

(* The steps of a process that loads, or of its keys. *)
LEMMA LoadingKeeps ==
  ASSUME CheckedResolves, NEW p \in St!Processes,
         \/ St!Start(p) \/ St!OpenEditor(p) \/ St!Capture(p) \/ St!Cancel(p) \/ St!Save(p) \/ St!Crash(p)
         \/ St!Loads(p)
  PROVE  CheckedResolves'
<1> DEFINE x == process[p]
<1>f. Fields \subseteq DOMAIN x
  BY DEF CheckedResolves
<1>o. Fields \subseteq DOMAIN St!Off /\ St!Off.at = "off"
  BY DEF St!Off, Fields
<1>1. ASSUME NEW y, Fields \subseteq DOMAIN y, y.at # "checked", St!Becomes(p, y) PROVE CheckedResolves'
  BY <1>1, BecomesKeeps
<1>2. ASSUME NEW y, Fields \subseteq DOMAIN y, NEW purpose, purpose # "checked", St!Locates(p, y, purpose)
      PROVE  CheckedResolves'
  BY <1>1, <1>2 DEF St!Locates, Fields
<1>3. CASE St!Start(p)
  BY <1>2, <1>3, <1>o DEF St!Start
<1>4. CASE St!OpenEditor(p)
  BY <1>2, <1>4, <1>f DEF St!OpenEditor
<1>5. CASE St!Capture(p)
  <2>1. PICK action \in Actions, key \in Keys : St!Becomes(p, [x EXCEPT !.reviewed = <<action, key>>])
    BY <1>5 DEF St!Capture
  <2> QED
    BY <1>1, <1>5, <1>f, <2>1 DEF St!Capture, Fields
<1>6. CASE St!Cancel(p)
  BY <1>1, <1>6, <1>f DEF St!Cancel, Fields
<1>7. CASE St!Save(p)
  BY <1>2, <1>7, <1>f DEF St!Save
<1>8. CASE St!Crash(p)
  BY <1>1, <1>8, <1>o DEF St!Crash
<1>9. CASE St!StartLoaded(p)
  BY <1>1, <1>9, <1>f, <1>o, RestKeeps DEF St!StartLoaded, Fields
<1>10. CASE St!FirstStamp(p)
  BY <1>1, <1>10, <1>f, RestKeeps DEF St!FirstStamp, Fields
<1>11. CASE St!Tick(p)
  BY <1>1, <1>11, <1>f DEF St!Tick, Fields
<1>12. CASE St!ReloadLocated(p)
  BY <1>1, <1>2, <1>12, <1>f, RestKeeps DEF St!ReloadLocated, Fields
<1>13. CASE St!Reloaded(p)
  BY <1>1, <1>13, <1>f, RestKeeps DEF St!Reloaded, Fields
<1>14. CASE St!EditorOpened(p)
  BY <1>1, <1>14, <1>f, RestKeeps DEF St!EditorOpened, Fields
<1> QED
  BY <1>3, <1>4, <1>5, <1>6, <1>7, <1>8, <1>9, <1>10, <1>11, <1>12, <1>13, <1>14 DEF St!Loads

(* The steps of a process that saves. *)
LEMMA SavingKeeps ==
  ASSUME CheckedResolves, NEW p \in St!Processes, St!Saves(p)
  PROVE  CheckedResolves'
<1> DEFINE x == process[p]
<1>f. Fields \subseteq DOMAIN x
  BY DEF CheckedResolves
<1>1. CASE St!Checked(p)
  <2> DEFINE text == St!Updated(St!TextOf(x.format), x.reviewed)
             y == [x EXCEPT !.at = "checked", !.text = text]
  <2>1. CASE St!Resolves(text)
    <3>1. Fields \subseteq DOMAIN y /\ y.text = text
      BY <1>f DEF Fields
    <3>2. St!Becomes(p, y)
      BY <1>1, <2>1 DEF St!Checked
    <3> HIDE DEF y, text
    <3> QED
      BY <2>1, <3>1, <3>2, BecomesKeeps
  <2>2. CASE ~St!Resolves(text)
    BY <1>1, <1>f, <2>2, BecomesKeeps, RestKeeps DEF St!Checked
  <2> QED
    BY <2>1, <2>2
<1>2. CASE St!Renamed(p)
  <2>1. LET y == [x EXCEPT !.at = "renamed"] IN Fields \subseteq DOMAIN y /\ y.at = "renamed"
    BY <1>f DEF Fields
  <2> QED
    BY <1>2, <2>1, BecomesKeeps DEF St!Renamed
<1>3. CASE St!Truncated(p)
  <2>1. LET y == [x EXCEPT !.at = "truncated"] IN Fields \subseteq DOMAIN y /\ y.at = "truncated"
    BY <1>f DEF Fields
  <2>2. St!Becomes(p, [x EXCEPT !.at = "truncated"])
    BY <1>3, Zenon DEF St!Truncated
  <2> QED
    BY <2>1, <2>2, BecomesKeeps
<1>4. CASE St!Selected(p)
  <2>1. Fields \subseteq DOMAIN St!Saved(x) /\ St!Saved(x).at = "idle"
    BY <1>f, RestKeeps DEF St!Saved, Fields
  <2> QED
    BY <1>4, <2>1, BecomesKeeps DEF St!Selected
<1> QED
  BY <1>1, <1>2, <1>3, <1>4 DEF St!Saves

(* A file is written whole: by the user, or with a text that resolves. *)
LEMMA WrittenKeeps ==
  ASSUME files = [format \in St!Formats |-> files[format]], St!SavedResolves,
         NEW format, NEW text, NEW by, St!Written(format, text, by),
         by = "program" => St!Resolves(text)
  PROVE  files' = [f \in St!Formats |-> files'[f]] /\ St!SavedResolves'
<1>1. files' = [f \in St!Formats |-> files'[f]]
  BY DEF St!Written
<1>2. ASSUME NEW f \in St!Formats, files'[f].by = "program", files'[f].text # None
      PROVE  St!Resolves(files'[f].text)
  <2>1. CASE f = format
    BY <1>2, <2>1 DEF St!Written
  <2>2. CASE f # format
    BY <1>2, <2>2 DEF St!Written, St!SavedResolves, St!Exists
  <2> QED
    BY <2>1, <2>2
<1> QED
  BY <1>1, <1>2 DEF St!SavedResolves, St!Exists

(***************************************************************************)
(* What save_binding and config init write resolves, for any number of     *)
(* editors and dashboards that read and write the same files, and whatever *)
(* crashes and edits of the user come between the check and the rename.    *)
(***************************************************************************)
THEOREM WritesResolve ==
  ASSUME St!SettingsAssumption
  PROVE  St!Spec => []St!SavedResolves
<1>1. St!Init => SettingsInv
  <2> SUFFICES ASSUME St!Init PROVE SettingsInv
    OBVIOUS
  <2>1. files = [format \in St!Formats |-> files[format]]
    BY DEF St!Init
  <2>2. \A format \in St!Formats : files[format].text \in {None, Default}
    BY DEF St!Init
  <2>3. St!SavedResolves
    BY <2>2, DefaultResolves DEF St!SavedResolves, St!Exists
  <2>4. CheckedResolves
    BY DEF St!Init, CheckedResolves, St!Off, Fields
  <2> QED
    BY <2>1, <2>3, <2>4 DEF SettingsInv
<1>2. SettingsInv /\ [St!Next]_(St!vars) => SettingsInv'
  <2> SUFFICES ASSUME SettingsInv, [St!Next]_(St!vars) PROVE SettingsInv'
    OBVIOUS
  <2> USE DEF SettingsInv
  <2>1. ASSUME UNCHANGED files, CheckedResolves' PROVE SettingsInv'
    BY <2>1 DEF St!SavedResolves, St!Exists
  <2>2. ASSUME UNCHANGED process PROVE CheckedResolves'
    BY <2>2 DEF CheckedResolves
  <2>3. ASSUME NEW p \in St!Processes,
               \/ St!Start(p) \/ St!OpenEditor(p) \/ St!Capture(p) \/ St!Cancel(p) \/ St!Save(p) \/ St!Crash(p)
               \/ St!Loads(p)
        PROVE  SettingsInv'
    <3>1. UNCHANGED files
      BY <2>3 DEF St!Start, St!OpenEditor, St!Capture, St!Cancel, St!Save, St!Crash, St!Loads,
                  St!StartLoaded, St!FirstStamp, St!Tick, St!ReloadLocated, St!Reloaded, St!EditorOpened, St!Alone
    <3> QED
      BY <2>1, <2>3, <3>1, LoadingKeeps
  <2>4. ASSUME NEW p \in St!Processes, St!Saves(p) PROVE SettingsInv'
    <3>1. CASE St!Renamed(p)
      <4>1. St!Resolves(process[p].text)
        BY <3>1 DEF St!Renamed, CheckedResolves
      <4> QED
        BY <2>4, <3>1, <4>1, WrittenKeeps, SavingKeeps DEF St!Renamed
    <3>2. CASE ~St!Renamed(p)
      <4>1. UNCHANGED files
        BY <2>4, <3>2, Zenon DEF St!Saves, St!Checked, St!Truncated, St!Selected, St!Alone
      <4> QED
        BY <2>1, <2>4, <4>1, SavingKeeps
    <3> QED
      BY <3>1, <3>2
  <2>5. CASE St!InitConfig \/ St!InitTruncated \/ St!InitSelected \/ St!InitCrash
    <3>1. UNCHANGED <<files, process>>
      BY <2>5, Zenon DEF St!InitConfig, St!InitTruncated, St!InitSelected, St!InitCrash, St!Initialises
    <3> QED
      BY <2>1, <2>2, <3>1
  <2>6. CASE St!InitCreated
    <3>1. UNCHANGED process
      BY <2>6 DEF St!InitCreated, St!Initialises
    <3> QED
      BY <2>1, <2>2, <2>6, <3>1, WrittenKeeps, DefaultResolves DEF St!InitCreated
  <2>7. CASE St!UserEdits
    BY <2>2, <2>7, WrittenKeeps DEF St!UserEdits
  <2>8. CASE UNCHANGED St!vars
    BY <2>1, <2>2, <2>8 DEF St!vars
  <2> QED
    BY <2>3, <2>4, <2>5, <2>6, <2>7, <2>8 DEF St!Next
<1>3. SettingsInv => St!SavedResolves
  BY DEF SettingsInv
<1> QED
  BY <1>1, <1>2, <1>3, PTL DEF St!Spec

=============================================================================
