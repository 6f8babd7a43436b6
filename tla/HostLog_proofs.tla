--------------------------- MODULE HostLog_proofs ---------------------------
(***************************************************************************)
(* Proofs about the control plane and the durable host that extends it,    *)
(* for any number of connections, sessions, clients, names and requests,   *)
(* any window and any bounds.  Of the control plane (LeaderCore):          *)
(*   - its types, the agreement of its maps and that leases have no        *)
(*     orphans (CoreCorrect and the theorems after it);                    *)
(*   - the window of committed requests (WindowHoldsLast and               *)
(*     RetriesApplyOnce);                                                  *)
(*   - that the abstract driver lease fences (LeaseFences) and that the    *)
(*     core implements it (RefinesLease), from which fencing follows.      *)
(* Of the host (HostLog):                                                  *)
(*   - what a leader loads from a journal (LoadAppend, LoadCovered and     *)
(*     ReplayEmitted), for journals of any length;                         *)
(*   - that a crash loses nothing a client has seen, that retries are      *)
(*     answered alike and are not applied again across restarts, and that  *)
(*     no two directories bear one name.                                   *)
(***************************************************************************)
EXTENDS HostLog, SequenceTheorems, WellFoundedInduction, TLAPS

-----------------------------------------------------------------------------
(* Lemmas about the operators *)

LEMMA NoLeaseType == NoLease \in Lease
BY DEF NoLease, Lease

(* Trimming the window keeps a sequence of requests of at most Window. *)
LEMMA RetainedType ==
  ASSUME NEW order \in Seq(Requests)
  PROVE  /\ Retained(order) \in Seq(Requests)
         /\ Len(Retained(order)) <= Window
<1>1. CASE Len(order) > Window
  <2>1. /\ Len(order) - Window + 1 \in 1 .. Len(order)
        /\ Len(order) \in Nat
    BY <1>1, CoreAssumption
  <2>2. SubSeq(order, Len(order) - Window + 1, Len(order)) \in Seq(Requests)
    BY <2>1
  <2>3. Len(SubSeq(order, Len(order) - Window + 1, Len(order))) = Window
    BY <2>1, CoreAssumption
  <2>4. QED
    BY <1>1, <2>2, <2>3, CoreAssumption DEF Retained
<1>2. CASE ~(Len(order) > Window)
  BY <1>2, CoreAssumption DEF Retained
<1>3. QED
  BY <1>1, <1>2

-----------------------------------------------------------------------------
(* Types *)

LEMMA RememberType ==
  ASSUME TypeOK, NEW s \in Sessions, NEW r \in Requests, Remember(s, r)
  PROVE  /\ committed' \in [Sessions -> [Requests -> Nat]]
         /\ commitOrder' \in [Sessions -> Seq(Requests)]
         /\ \A t \in Sessions : Len(commitOrder'[t]) <= Window
<1> DEFINE order == Append(commitOrder[s], r)
           kept == [q \in Requests |-> IF q \in Expired(order) THEN 0
                                       ELSE IF q = r THEN sequence[s] + 1
                                       ELSE committed[s][q]]
<1>1. order \in Seq(Requests)
  BY DEF TypeOK
<1>2. Retained(order) \in Seq(Requests) /\ Len(Retained(order)) <= Window
  BY <1>1, RetainedType
<1>3. kept \in [Requests -> Nat]
  BY DEF TypeOK
<1>4. committed' = [committed EXCEPT ![s] = kept]
  BY DEF Remember
<1>5. commitOrder' = [commitOrder EXCEPT ![s] = Retained(order)]
  BY DEF Remember
<1> HIDE DEF order, kept
<1>6. committed' \in [Sessions -> [Requests -> Nat]]
  BY <1>3, <1>4 DEF TypeOK
<1>7. /\ commitOrder' \in [Sessions -> Seq(Requests)]
      /\ \A t \in Sessions : Len(commitOrder'[t]) <= Window
  BY <1>2, <1>5 DEF TypeOK
<1>8. QED
  BY <1>6, <1>7

LEMMA CommitType ==
  ASSUME TypeOK, NEW s \in Sessions, NEW r \in Requests, Commit(s, r)
  PROVE  /\ sequence' \in [Sessions -> Nat]
         /\ committed' \in [Sessions -> [Requests -> Nat]]
         /\ commitOrder' \in [Sessions -> Seq(Requests)]
         /\ \A t \in Sessions : Len(commitOrder'[t]) <= Window
<1>1. sequence' \in [Sessions -> Nat]
  BY DEF Commit, Advance, TypeOK
<1>2. Remember(s, r)
  BY DEF Commit
<1>3. QED
  BY <1>1, <1>2, RememberType

LEMMA CommandType ==
  ASSUME TypeOK, NEW c \in Connections, NEW s \in Sessions, NEW e \in Nat,
         NEW r \in Requests, Command(c, s, e, r)
  PROVE  TypeOK'
<1> DEFINE entry == [request |-> r, sequence |-> sequence[s] + 1,
                     owner |-> instance[c], epoch |-> e]
<1>1. entry \in Applied
  BY CoreAssumption DEF TypeOK, Command, IsAuthorized, Admitted, Applied
<1>2. applied' = [applied EXCEPT ![s] = Append(@, entry)]
  BY DEF Command
<1>3. Append(applied[s], entry) \in Seq(Applied)
  BY <1>1 DEF TypeOK
<1>4. applied' \in [Sessions -> Seq(Applied)]
  BY <1>2, <1>3 DEF TypeOK
<1>5. QED
  BY <1>4, CommitType DEF Command, TypeOK, clientVars, nameVars, leaseVars

LEMMA GrantType ==
  ASSUME TypeOK, NEW s \in Sessions, NEW i \in Instances, GrantLease(s, i)
  PROVE  driver' \in [Sessions -> Lease] /\ leaseEpoch' \in [Sessions -> Nat]
<1>1. leaseEpoch' \in [Sessions -> Nat]
  BY DEF GrantLease, TypeOK
<1>2. [owner |-> i, epoch |-> leaseEpoch[s] + 1] \in Lease
  BY DEF TypeOK, Lease
<1>3. driver' \in [Sessions -> Lease]
  BY <1>2 DEF GrantLease, TypeOK
<1>4. QED
  BY <1>1, <1>3

LEMMA TypeInductive == TypeOK /\ [Next]_vars => TypeOK'
<1> SUFFICES ASSUME TypeOK, [Next]_vars PROVE TypeOK'
  OBVIOUS
<1> USE CoreAssumption, NoLeaseType
    DEF TypeOK, clientVars, nameVars, leaseVars, logVars
<1>1. ASSUME NEW c \in Connections, NEW i \in Instances, Connect(c, i) PROVE TypeOK'
  BY <1>1 DEF Connect
<1>2. ASSUME NEW c \in Connections, Disconnect(c) PROVE TypeOK'
  BY <1>2 DEF Disconnect
<1>3. ASSUME NEW s \in Sessions, NEW raw \in RawNames, CreateSession(s, raw) PROVE TypeOK'
  BY <1>3 DEF CreateSession
<1>4. ASSUME NEW s \in Sessions, NEW raw \in RawNames, RenameSession(s, raw) PROVE TypeOK'
  BY <1>4 DEF RenameSession, NamesAfterRename
<1>5. ASSUME NEW s \in Sessions, RemoveSession(s) PROVE TypeOK'
  BY <1>5 DEF RemoveSession
<1>6. ASSUME NEW c \in Connections, NEW s \in Sessions, AttachViewer(c, s) PROVE TypeOK'
  BY <1>6 DEF AttachViewer, Subscribe
<1>7. ASSUME NEW c \in Connections, NEW s \in Sessions, NEW force \in BOOLEAN,
             AttachDriver(c, s, force)
      PROVE  TypeOK'
  <2>1. driver' \in [Sessions -> Lease] /\ leaseEpoch' \in [Sessions -> Nat]
    BY <1>7, GrantType DEF AttachDriver
  <2>2. QED
    BY <1>7, <2>1 DEF AttachDriver, Subscribe
<1>8. ASSUME NEW c \in Connections, NEW s \in Sessions, Detach(c, s) PROVE TypeOK'
  BY <1>8 DEF Detach, Unsubscribe
<1>9. ASSUME NEW c \in Connections, NEW s \in Sessions, ReleaseDriver(c, s) PROVE TypeOK'
  BY <1>9 DEF ReleaseDriver
<1>10. ASSUME NEW c \in Connections, NEW s \in Sessions, NEW r \in Requests,
              NEW e \in 1 .. MaxEpoch[s], Command(c, s, e, r)
       PROVE  TypeOK'
  <2>1. e \in Nat
    OBVIOUS
  <2>2. QED
    BY <1>10, <2>1, CommandType
<1>11. ASSUME NEW s \in Sessions, Publish(s) PROVE TypeOK'
  BY <1>11 DEF Publish, Advance
<1>12. CASE UNCHANGED vars
  BY <1>12 DEF vars
<1> HIDE DEF TypeOK
<1>13. QED
  BY <1>1, <1>2, <1>3, <1>4, <1>5, <1>6, <1>7, <1>8, <1>9, <1>10, <1>11, <1>12 DEF Next

LEMMA InitType == Init => TypeOK
<1>1. <<>> \in Seq(Requests) /\ <<>> \in Seq(Applied) /\ Len(<<>>) = 0
  OBVIOUS
<1>2. QED
  BY <1>1, CoreAssumption, NoLeaseType DEF Init, TypeOK

(***************************************************************************)
(* Every state of the core has the types TypeOK gives its variables; in    *)
(* particular commit never keeps more than Window requests.                *)
(***************************************************************************)
THEOREM TypeCorrect == Spec => []TypeOK
BY InitType, TypeInductive, PTL DEF Spec

-----------------------------------------------------------------------------
(* Agreement of the maps, names, and the driver's attachment *)

(***************************************************************************)
(* A lease that is held is the last one granted, and no lease is NoLease.  *)
(***************************************************************************)
LeaseIsCurrent ==
  \A s \in Sessions : IF driver[s].owner = NoInstance
                        THEN driver[s] = NoLease
                        ELSE driver[s].epoch = leaseEpoch[s]

(***************************************************************************)
(* The inductive invariant.  SubscriptionsAgree is needed for the other    *)
(* two: it makes Disconnect, which walks the connection's own list of      *)
(* sessions, reach every session it subscribes to, and it shows a session  *)
(* identity that was never issued to be free of subscribers.               *)
(***************************************************************************)
CoreInv ==
  /\ TypeOK
  /\ SubscriptionsAgree
  /\ NamesAgree
  /\ DriverIsAttached
  /\ LeaseIsCurrent

(* The parts of CoreInv that read only names, or only connections and leases. *)
LEMMA NamesFrame ==
  ASSUME NamesAgree, UNCHANGED nameVars
  PROVE  NamesAgree'
BY DEF NamesAgree, nameVars

LEMMA SubscriptionsFrame ==
  ASSUME SubscriptionsAgree, UNCHANGED <<clientVars, live, subscribers>>
  PROVE  SubscriptionsAgree'
BY DEF SubscriptionsAgree, clientVars

LEMMA DriverFrame ==
  ASSUME DriverIsAttached, LeaseIsCurrent,
         UNCHANGED <<clientVars, subscribers, leaseVars>>
  PROVE  DriverIsAttached' /\ LeaseIsCurrent'
<1>1. DriverIsAttached'
  BY DEF DriverIsAttached, clientVars, leaseVars
<1>2. LeaseIsCurrent'
  BY DEF LeaseIsCurrent, leaseVars
<1>3. QED
  BY <1>1, <1>2

LEMMA ConnectKeeps ==
  ASSUME CoreInv, NEW c \in Connections, NEW i \in Instances, Connect(c, i)
  PROVE  SubscriptionsAgree' /\ NamesAgree' /\ DriverIsAttached' /\ LeaseIsCurrent'
<1> USE CoreAssumption DEF CoreInv, Connect
<1>1. attached' = attached
  BY DEF TypeOK, SubscriptionsAgree
<1>2. SubscriptionsAgree'
  BY <1>1 DEF SubscriptionsAgree, TypeOK, nameVars
<1>3. DriverIsAttached'
  <2>1. \A s \in Sessions : c \notin subscribers[s]
    BY DEF SubscriptionsAgree
  <2>2. QED
    BY <2>1 DEF DriverIsAttached, TypeOK, leaseVars
<1>4. LeaseIsCurrent'
  BY DEF LeaseIsCurrent, leaseVars
<1>5. QED
  BY <1>2, <1>3, <1>4, NamesFrame

LEMMA DisconnectKeeps ==
  ASSUME CoreInv, NEW c \in Connections, Disconnect(c)
  PROVE  SubscriptionsAgree' /\ NamesAgree' /\ DriverIsAttached' /\ LeaseIsCurrent'
<1> USE CoreAssumption DEF CoreInv, Disconnect
<1>1. SubscriptionsAgree'
  BY DEF SubscriptionsAgree, TypeOK, nameVars
<1>2. DriverIsAttached'
  <2>1. SUFFICES ASSUME NEW s \in Sessions, driver'[s].owner # NoInstance
                 PROVE  \E d \in subscribers'[s] : instance'[d] = driver'[s].owner
    BY DEF DriverIsAttached
  <2>2. s \notin ReleasedBy(c) /\ driver'[s] = driver[s]
    BY <2>1 DEF TypeOK, NoLease
  <2>3. PICK d \in subscribers[s] : instance[d] = driver[s].owner
    BY <2>1, <2>2 DEF DriverIsAttached
  <2>4. d \in Connections
    BY DEF TypeOK
  <2>5. CASE d # c
    BY <2>2, <2>3, <2>4, <2>5 DEF TypeOK
  <2>6. CASE d = c
    <3>1. SameClientRemains(c, s)
      BY <2>2, <2>3, <2>4, <2>6 DEF ReleasedBy, SubscriptionsAgree
    <3>2. PICK other \in Connections \ {c} :
            instance[other] = instance[c] /\ s \in attached[other]
      BY <3>1 DEF SameClientRemains
    <3>3. other \in subscribers'[s]
      BY <3>2 DEF SubscriptionsAgree
    <3>4. instance'[other] = driver'[s].owner
      BY <2>2, <2>3, <2>6, <3>2 DEF TypeOK
    <3>5. QED
      BY <3>3, <3>4
  <2>7. QED
    BY <2>5, <2>6
<1>3. LeaseIsCurrent'
  BY DEF LeaseIsCurrent, TypeOK, NoLease
<1>4. QED
  BY <1>1, <1>2, <1>3, NamesFrame

LEMMA CreateKeeps ==
  ASSUME CoreInv, NEW s \in Sessions, NEW raw \in RawNames, CreateSession(s, raw)
  PROVE  SubscriptionsAgree' /\ NamesAgree' /\ DriverIsAttached' /\ LeaseIsCurrent'
<1> USE CoreAssumption DEF CoreInv, CreateSession
<1>1. SubscriptionsAgree'
  BY DEF SubscriptionsAgree, TypeOK, clientVars
<1>2. NamesAgree'
  BY DEF NamesAgree, TypeOK
<1>3. QED
  BY <1>1, <1>2, DriverFrame

LEMMA RenameKeeps ==
  ASSUME CoreInv, NEW s \in Sessions, NEW raw \in RawNames, RenameSession(s, raw)
  PROVE  SubscriptionsAgree' /\ NamesAgree' /\ DriverIsAttached' /\ LeaseIsCurrent'
<1> USE CoreAssumption DEF CoreInv, RenameSession
<1>1. NamesAgree'
  BY DEF NamesAgree, TypeOK, NamesAfterRename
<1>2. QED
  BY <1>1, SubscriptionsFrame, DriverFrame

LEMMA RemoveKeeps ==
  ASSUME CoreInv, NEW s \in Sessions, RemoveSession(s)
  PROVE  SubscriptionsAgree' /\ NamesAgree' /\ DriverIsAttached' /\ LeaseIsCurrent'
<1> USE CoreAssumption DEF CoreInv, RemoveSession
<1>1. SubscriptionsAgree'
  BY DEF SubscriptionsAgree, TypeOK
<1>2. NamesAgree'
  BY DEF NamesAgree, TypeOK
<1>3. DriverIsAttached'
  BY DEF DriverIsAttached, TypeOK, NoLease
<1>4. LeaseIsCurrent'
  BY DEF LeaseIsCurrent, TypeOK, NoLease
<1>5. QED
  BY <1>1, <1>2, <1>3, <1>4

LEMMA SubscribeKeeps ==
  ASSUME CoreInv, NEW c \in Connections, NEW s \in live, instance[c] # NoInstance,
         Subscribe(c, s), UNCHANGED <<instance, live>>
  PROVE  SubscriptionsAgree'
BY DEF CoreInv, SubscriptionsAgree, TypeOK, Subscribe

LEMMA AttachViewerKeeps ==
  ASSUME CoreInv, NEW c \in Connections, NEW s \in Sessions, AttachViewer(c, s)
  PROVE  SubscriptionsAgree' /\ NamesAgree' /\ DriverIsAttached' /\ LeaseIsCurrent'
<1> USE CoreAssumption DEF CoreInv, AttachViewer
<1>1. SubscriptionsAgree'
  BY SubscribeKeeps DEF nameVars
<1>2. DriverIsAttached'
  BY DEF DriverIsAttached, Subscribe, TypeOK, leaseVars
<1>3. LeaseIsCurrent'
  BY DEF LeaseIsCurrent, leaseVars
<1>4. QED
  BY <1>1, <1>2, <1>3, NamesFrame

LEMMA AttachDriverKeeps ==
  ASSUME CoreInv, NEW c \in Connections, NEW s \in Sessions, NEW force \in BOOLEAN,
         AttachDriver(c, s, force)
  PROVE  SubscriptionsAgree' /\ NamesAgree' /\ DriverIsAttached' /\ LeaseIsCurrent'
<1> USE CoreAssumption DEF CoreInv, AttachDriver
<1>1. SubscriptionsAgree'
  BY SubscribeKeeps DEF nameVars
<1>2. \A t \in Sessions : subscribers[t] \subseteq subscribers'[t]
  BY DEF Subscribe, TypeOK
<1>3. c \in subscribers'[s]
  BY DEF Subscribe, TypeOK
<1>4. CASE driver[s].owner = instance[c]
  <2>1. driver' = driver /\ leaseEpoch' = leaseEpoch
    BY <1>4 DEF leaseVars
  <2>2. DriverIsAttached' /\ LeaseIsCurrent'
    BY <1>2, <2>1 DEF DriverIsAttached, LeaseIsCurrent
  <2>3. QED
    BY <1>1, <2>2, NamesFrame
<1>5. CASE driver[s].owner # instance[c]
  <2>1. /\ driver' = [driver EXCEPT ![s] = [owner |-> instance[c],
                                            epoch |-> leaseEpoch[s] + 1]]
        /\ leaseEpoch' = [leaseEpoch EXCEPT ![s] = @ + 1]
    BY <1>5 DEF GrantLease
  <2>2. /\ driver'[s].owner = instance[c]
        /\ driver'[s].epoch = leaseEpoch'[s]
        /\ \A t \in Sessions \ {s} : /\ driver'[t] = driver[t]
                                     /\ leaseEpoch'[t] = leaseEpoch[t]
    BY <2>1 DEF TypeOK
  <2>3. DriverIsAttached'
    BY <1>2, <1>3, <2>2 DEF DriverIsAttached
  <2>4. LeaseIsCurrent'
    BY <2>2 DEF LeaseIsCurrent
  <2>5. QED
    BY <1>1, <2>3, <2>4, NamesFrame
<1>6. QED
  BY <1>4, <1>5

LEMMA DetachKeeps ==
  ASSUME CoreInv, NEW c \in Connections, NEW s \in Sessions, Detach(c, s)
  PROVE  SubscriptionsAgree' /\ NamesAgree' /\ DriverIsAttached' /\ LeaseIsCurrent'
<1> USE CoreAssumption DEF CoreInv, Detach
<1>1. SubscriptionsAgree'
  BY DEF SubscriptionsAgree, TypeOK, Unsubscribe, nameVars
<1>2. DriverIsAttached'
  BY DEF DriverIsAttached, Unsubscribe, TypeOK, NoLease
<1>3. LeaseIsCurrent'
  BY DEF LeaseIsCurrent, TypeOK, NoLease
<1>4. QED
  BY <1>1, <1>2, <1>3, NamesFrame

LEMMA ReleaseDriverKeeps ==
  ASSUME CoreInv, NEW c \in Connections, NEW s \in Sessions, ReleaseDriver(c, s)
  PROVE  SubscriptionsAgree' /\ NamesAgree' /\ DriverIsAttached' /\ LeaseIsCurrent'
<1> USE CoreAssumption DEF CoreInv, ReleaseDriver
<1>1. SubscriptionsAgree'
  BY SubscriptionsFrame DEF nameVars
<1>2. DriverIsAttached'
  BY DEF DriverIsAttached, TypeOK, NoLease, clientVars
<1>3. LeaseIsCurrent'
  BY DEF LeaseIsCurrent, TypeOK, NoLease
<1>4. QED
  BY <1>1, <1>2, <1>3, NamesFrame

(* Events and requests leave connections, names and leases alone. *)
LEMMA QuietKeeps ==
  ASSUME CoreInv, UNCHANGED <<clientVars, nameVars, subscribers, leaseVars>>
  PROVE  SubscriptionsAgree' /\ NamesAgree' /\ DriverIsAttached' /\ LeaseIsCurrent'
BY NamesFrame, SubscriptionsFrame, DriverFrame DEF CoreInv, nameVars

LEMMA CoreInductive == CoreInv /\ [Next]_vars => CoreInv'
<1> SUFFICES ASSUME CoreInv, [Next]_vars PROVE CoreInv'
  OBVIOUS
<1>1. TypeOK'
  BY TypeInductive DEF CoreInv
<1>2. ASSUME NEW c \in Connections, NEW s \in Sessions, NEW r \in Requests,
             NEW e \in 1 .. MaxEpoch[s], Command(c, s, e, r)
      PROVE  SubscriptionsAgree' /\ NamesAgree' /\ DriverIsAttached' /\ LeaseIsCurrent'
  BY <1>2, QuietKeeps DEF Command
<1>3. ASSUME NEW s \in Sessions, Publish(s)
      PROVE  SubscriptionsAgree' /\ NamesAgree' /\ DriverIsAttached' /\ LeaseIsCurrent'
  BY <1>3, QuietKeeps DEF Publish, Advance
<1>4. CASE UNCHANGED vars
  BY <1>1, <1>4, QuietKeeps DEF vars, CoreInv
<1>5. CASE Next
  BY <1>1, <1>2, <1>3, <1>5, ConnectKeeps, DisconnectKeeps, CreateKeeps, RenameKeeps,
     RemoveKeeps, AttachViewerKeeps, AttachDriverKeeps, DetachKeeps, ReleaseDriverKeeps
     DEF Next, CoreInv
<1>6. QED
  BY <1>4, <1>5

LEMMA InitCore == Init => CoreInv
BY InitType, CoreAssumption
   DEF Init, CoreInv, SubscriptionsAgree, NamesAgree, DriverIsAttached, LeaseIsCurrent, NoLease

LEMMA CoreCorrect == Spec => []CoreInv
BY InitCore, CoreInductive, PTL DEF Spec

(* connect, disconnect, attach, detach and remove keep both sides of every  *)
(* subscription in agreement.                                               *)
THEOREM SubscriptionsCorrect == Spec => []SubscriptionsAgree
<1>1. CoreInv => SubscriptionsAgree
  BY DEF CoreInv
<1>2. QED
  BY <1>1, CoreCorrect, PTL

(* A display name selects at most one session and every live one has a name. *)
THEOREM NamesCorrect == Spec => []NamesAgree
<1>1. CoreInv => NamesAgree
  BY DEF CoreInv
<1>2. QED
  BY <1>1, CoreCorrect, PTL

(* No sequence of calls leaves a session driven by a client that has no     *)
(* open connection attached to it.                                          *)
THEOREM NoOrphanLease == Spec => []DriverIsAttached
<1>1. CoreInv => DriverIsAttached
  BY DEF CoreInv
<1>2. QED
  BY <1>1, CoreCorrect, PTL

-----------------------------------------------------------------------------
(* The window of committed requests *)

(***************************************************************************)
(* WindowIsRecent and OnceWithinWindow hold each other up: the requests of *)
(* the window are distinct because none is applied twice within Window     *)
(* commands, so expiring the oldest forgets no other; and a request that   *)
(* is not remembered is not among the last Window commands, so applying it *)
(* does not repeat one of those.                                           *)
(***************************************************************************)
WindowInv ==
  /\ TypeOK
  /\ \A s \in Sessions : \A k \in 1 .. Len(applied[s]) : applied[s][k].sequence > 0
  /\ WindowIsRecent
  /\ OnceWithinWindow

LEMMA AppendFacts ==
  ASSUME NEW S, NEW q \in Seq(S), NEW x \in S
  PROVE  /\ Append(q, x) \in Seq(S)
         /\ Len(Append(q, x)) = Len(q) + 1
         /\ Append(q, x)[Len(q) + 1] = x
         /\ \A k \in 1 .. Len(q) : Append(q, x)[k] = q[k]
OBVIOUS

(* What commit expires and retains when the window is full by one. *)
LEMMA FullWindow ==
  ASSUME NEW order \in Seq(Requests), Len(order) = Window + 1
  PROVE  /\ Expired(order) = {order[1]}
         /\ Len(Retained(order)) = Window
         /\ \A k \in 1 .. Window : Retained(order)[k] = order[k + 1]
<1>1. Window \in Nat \ {0}
  BY CoreAssumption
<1>2. Expired(order) = {order[1]}
  BY <1>1 DEF Expired
<1>3. Retained(order) = SubSeq(order, 2, Window + 1)
  BY <1>1 DEF Retained
<1>4. QED
  BY <1>1, <1>2, <1>3

LEMMA RoomInWindow ==
  ASSUME NEW order \in Seq(Requests), Len(order) <= Window
  PROVE  Expired(order) = {} /\ Retained(order) = order
<1>1. Window \in Nat \ {0} /\ Len(order) \in Nat
  BY CoreAssumption
<1>2. QED
  BY <1>1 DEF Expired, Retained

\* OnceIn and WindowOf, of any history, order and memory.
Once(log) ==
  \A j, k \in 1 .. Len(log) : j < k /\ log[j].request = log[k].request => k - j > Window

Remembers(order, memory, log) ==
  /\ Len(order) = Recent(log)
  /\ \A k \in 1 .. Recent(log) :
       /\ order[k] = log[Len(log) - Recent(log) + k].request
       /\ memory[log[Len(log) - Recent(log) + k].request]
            = log[Len(log) - Recent(log) + k].sequence
  /\ \A q \in Requests : memory[q] # 0 => \E k \in 1 .. Recent(log) : order[k] = q

\* A commit as Remember makes it, of a request numbered q.
Memorised(memory, longer, r, q) ==
  [x \in Requests |-> IF x \in Expired(longer) THEN 0 ELSE IF x = r THEN q ELSE memory[x]]

(***************************************************************************)
(* The heart of the window: a request that is not remembered is not among  *)
(* the last Window commands, so its commit repeats none of them and the    *)
(* request that expires is remembered under no other command.              *)
(***************************************************************************)
LEMMA WindowAdvances ==
  ASSUME NEW log \in Seq(Applied), NEW order \in Seq(Requests), NEW memory \in [Requests -> Nat],
         NEW entry \in Applied, entry.sequence > 0, memory[entry.request] = 0,
         \A k \in 1 .. Len(log) : log[k].sequence > 0,
         Once(log), Remembers(order, memory, log)
  PROVE  /\ Once(Append(log, entry))
         /\ Remembers(Retained(Append(order, entry.request)),
                      Memorised(memory, Append(order, entry.request), entry.request, entry.sequence),
                      Append(log, entry))
<1> DEFINE r == entry.request
           n == Len(log)
           m == IF n < Window THEN n ELSE Window
           m2 == IF n + 1 < Window THEN n + 1 ELSE Window
           longer == Append(order, r)
           log2 == Append(log, entry)
           order2 == Retained(longer)
           memory2 == Memorised(memory, longer, r, entry.sequence)
<1>1. r \in Requests /\ entry.sequence \in Nat
  BY DEF Applied
<1>2. Window \in Nat \ {0} /\ n \in Nat
  BY CoreAssumption
<1>4. /\ order2 = Retained(longer)
      /\ memory2 = [q \in Requests |-> IF q \in Expired(longer) THEN 0
                                       ELSE IF q = r THEN entry.sequence ELSE memory[q]]
      /\ memory[r] = 0
      /\ entry.request = r
  BY DEF Memorised
<1>5. /\ Len(log2) = n + 1
      /\ log2[n + 1] = entry
      /\ \A k \in 1 .. n : log2[k] = log[k]
  BY AppendFacts
<1>6. \A k \in 1 .. n : /\ log[k] \in Applied
                        /\ log[k].sequence > 0
  OBVIOUS
<1>7. order \in Seq(Requests)
  OBVIOUS
<1>m. /\ m \in Nat /\ m <= n /\ (n < Window => m = n) /\ (~(n < Window) => m = Window)
      /\ m2 = (IF n + 1 < Window THEN n + 1 ELSE Window)
      /\ m = Recent(log)
  BY <1>2 DEF Recent
<1>n. n = Len(log)
  OBVIOUS
<1> HIDE DEF log2, order2, memory2, r
<1> HIDE DEF m, m2
<1>8. /\ Len(order) = m
      /\ \A k \in 1 .. m : /\ order[k] = log[n - m + k].request
                           /\ memory[order[k]] = log[n - m + k].sequence
      /\ \A q \in Requests : memory[q] # 0 => \E k \in 1 .. m : order[k] = q
  <2>1. /\ Len(order) = m
        /\ \A k \in 1 .. m : /\ order[k] = log[n - m + k].request
                             /\ memory[log[n - m + k].request]
                                  = log[n - m + k].sequence
        /\ \A q \in Requests : memory[q] # 0 =>
             \E k \in 1 .. m : order[k] = q
    BY <1>m DEF Remembers
  <2>2. QED
    BY <2>1
<1> HIDE DEF n
<1>9. \A k \in 1 .. m : n - m + k \in 1 .. n
  BY <1>2, <1>m
<1>10. \A k \in 1 .. m : order[k] # r /\ order[k] \in Requests
  <2>1. \A k \in 1 .. m : memory[order[k]] > 0
    BY <1>6, <1>8, <1>9
  <2>2. \A k \in 1 .. m : order[k] \in Requests
    BY <1>7, <1>8
  <2>3. QED
    BY <1>4, <2>1, <2>2
<1>11. /\ longer \in Seq(Requests) /\ Len(longer) = m + 1
       /\ longer[m + 1] = r
       /\ \A k \in 1 .. m : longer[k] = order[k]
  <2>1. /\ Append(order, r) \in Seq(Requests)
        /\ Len(Append(order, r)) = Len(order) + 1
        /\ Append(order, r)[Len(order) + 1] = r
        /\ \A k \in 1 .. Len(order) : Append(order, r)[k] = order[k]
    BY <1>1, <1>7, AppendFacts
  <2>2. QED
    BY <1>8, <2>1
<1> HIDE DEF longer
<1>12. ASSUME NEW k \in 1 .. n, log[k].request = r
       PROVE  n + 1 - k > Window
  <2>1. SUFFICES ASSUME n + 1 - k <= Window PROVE FALSE
    BY <1>2
  <2>2. k - (n - m) \in 1 .. m
    BY <1>2, <1>m, <2>1
  <2>3. order[k - (n - m)] = log[n - m + (k - (n - m))].request
    BY <1>8, <2>2
  <2>4. n - m + (k - (n - m)) = k
    BY <1>2, <1>m
  <2>5. QED
    BY <1>10, <1>12, <2>2, <2>3, <2>4
<1>13. Once(log2)
  <2>1. SUFFICES ASSUME NEW j \in 1 .. Len(log2), NEW k \in 1 .. Len(log2),
                        j < k, log2[j].request = log2[k].request
                 PROVE  k - j > Window
    BY DEF Once
  <2>3. CASE k = n + 1
    <3>1. j \in 1 .. n
      BY <1>2, <1>5, <2>1, <2>3
    <3>2. log[j].request = r
      BY <1>4, <1>5, <2>1, <2>3, <3>1
    <3>3. n + 1 - j > Window
      BY <1>12, <3>1, <3>2
    <3>4. QED
      BY <1>2, <2>3, <3>1, <3>3
  <2>4. CASE k # n + 1
    <3>1. j \in 1 .. n /\ k \in 1 .. n
      BY <1>2, <1>5, <2>1, <2>4
    <3>2. log[j].request = log[k].request
      BY <1>5, <2>1, <2>4, <3>1
    <3>3. QED
      BY <1>n, <2>1, <3>1, <3>2 DEF Once
  <2>5. QED
    BY <2>3, <2>4
<1>14. /\ Len(order2) = m2
       /\ \A k \in 1 .. m2 :
            /\ order2[k] = log2[n + 1 - m2 + k].request
            /\ memory2[log2[n + 1 - m2 + k].request]
                 = log2[n + 1 - m2 + k].sequence
       /\ \A q \in Requests : memory2[q] # 0 =>
            \E k \in 1 .. m2 : order2[k] = q
  <2>1. CASE n < Window
    <3>0. m = n /\ m2 = n + 1 /\ m + 1 <= Window
      BY ONLY <1>2, <1>m, <2>1
    <3>1. m = n /\ m2 = n + 1 /\ Expired(longer) = {} /\ order2 = longer
      <4>1. Len(longer) <= Window
        BY <1>11, <3>0
      <4>2. Expired(longer) = {} /\ Retained(longer) = longer
        BY <1>11, <4>1, RoomInWindow
      <4>3. QED
        BY <1>4, <3>0, <4>2
    <3>2. /\ memory2[r] = entry.sequence
          /\ \A q \in Requests \ {r} : memory2[q] = memory[q]
      BY <1>1, <1>4, <3>1
    <3>3. Len(order2) = m2
      BY <1>11, <3>1
    <3>4. ASSUME NEW k \in 1 .. n
          PROVE  /\ order2[k] = log2[k].request
                 /\ memory2[log2[k].request] = log2[k].sequence
      <4>1. order2[k] = order[k] /\ log2[k] = log[k]
        BY <1>5, <1>11, <3>1, <3>4
      <4>2. /\ order[k] = log[k].request
            /\ memory[order[k]] = log[k].sequence
        BY <1>2, <1>8, <3>1, <3>4
      <4>3. QED
        BY <1>10, <3>1, <3>2, <3>4, <4>1, <4>2
    <3>5. /\ order2[n + 1] = log2[n + 1].request
          /\ memory2[log2[n + 1].request] = log2[n + 1].sequence
      BY <1>4, <1>5, <1>11, <3>1, <3>2
    <3>6. ASSUME NEW k \in 1 .. m2
          PROVE  /\ order2[k] = log2[n + 1 - m2 + k].request
                 /\ memory2[log2[n + 1 - m2 + k].request]
                      = log2[n + 1 - m2 + k].sequence
      <4>1. n + 1 - m2 + k = k /\ (k \in 1 .. n \/ k = n + 1)
        BY <1>2, <3>1, <3>6
      <4>2. QED
        BY <3>4, <3>5, <4>1
    <3>7. ASSUME NEW q \in Requests, memory2[q] # 0
          PROVE  \E k \in 1 .. m2 : order2[k] = q
      <4>1. CASE q = r
        BY <1>2, <1>11, <3>1, <4>1
      <4>2. CASE q # r
        <5>1. PICK k \in 1 .. m : order[k] = q
          BY <1>8, <3>2, <3>7, <4>2
        <5>2. k \in 1 .. m2 /\ order2[k] = q
          BY <1>2, <1>11, <3>1, <5>1
        <5>3. QED
          BY <5>2
      <4>3. QED
        BY <4>1, <4>2
    <3>8. QED
      BY <3>3, <3>6, <3>7
  <2>2. CASE ~(n < Window)
    <3>0. m = Window /\ m2 = Window
      BY ONLY <1>2, <1>m, <2>2
    <3>1. m = Window /\ m2 = Window /\ Len(longer) = Window + 1
      BY <1>11, <3>0
    <3>2. /\ Expired(longer) = {longer[1]}
          /\ Len(order2) = Window
          /\ \A k \in 1 .. Window : order2[k] = longer[k + 1]
      BY <1>4, <1>11, <3>1, FullWindow
    <3>3. longer[1] = order[1] /\ longer[1] # r
      <4>1. 1 \in 1 .. m
        BY ONLY <3>1, CoreAssumption
      <4>2. QED
        BY <1>10, <1>11, <4>1
    <3>4. /\ memory2[r] = entry.sequence
          /\ \A q \in Requests \ {r} : memory2[q] =
                IF q = longer[1] THEN 0 ELSE memory[q]
      BY <1>1, <1>4, <3>2, <3>3
    <3>5. ASSUME NEW k \in 2 .. Window PROVE order[k] # longer[1]
      <4>1. /\ n - m + 1 \in 1 .. n /\ n - m + k \in 1 .. n
            /\ n - m + 1 < n - m + k
            /\ ~((n - m + k) - (n - m + 1) > Window)
        BY ONLY <1>2, <2>2, <3>1, <3>5
      <4>2. log[n - m + 1].request # log[n - m + k].request
        BY <1>n, <4>1 DEF Once
      <4>3. /\ order[1] = log[n - m + 1].request
            /\ order[k] = log[n - m + k].request
        BY <1>2, <1>8, <3>1, <3>5
      <4>4. QED
        BY <3>3, <4>2, <4>3
    <3>6. ASSUME NEW k \in 1 .. Window, k < Window
          PROVE  /\ order2[k] = log2[n + 1 - Window + k].request
                 /\ memory2[log2[n + 1 - Window + k].request]
                      = log2[n + 1 - Window + k].sequence
      <4>1. /\ k + 1 \in 1 .. m /\ k + 1 \in 2 .. Window
            /\ n + 1 - Window + k \in 1 .. n
            /\ n - m + (k + 1) = n + 1 - Window + k
        BY ONLY <1>2, <2>2, <3>1, <3>6
      <4>2. /\ order[k + 1] = log[n + 1 - Window + k].request
            /\ memory[order[k + 1]] = log[n + 1 - Window + k].sequence
        BY <1>8, <4>1
      <4>3. order2[k] = order[k + 1]
        BY <1>11, <3>2, <3>6, <4>1
      <4>4. log2[n + 1 - Window + k] = log[n + 1 - Window + k]
        BY <1>5, <4>1
      <4>5. memory2[order[k + 1]] = memory[order[k + 1]]
        BY <1>10, <3>4, <3>5, <4>1
      <4>6. QED
        BY <4>2, <4>3, <4>4, <4>5
    <3>7. /\ order2[Window] = log2[n + 1].request
          /\ memory2[log2[n + 1].request] = log2[n + 1].sequence
      BY <1>2, <1>4, <1>5, <1>11, <3>1, <3>2, <3>4
    <3>8. ASSUME NEW k \in 1 .. m2
          PROVE  /\ order2[k] = log2[n + 1 - m2 + k].request
                 /\ memory2[log2[n + 1 - m2 + k].request]
                      = log2[n + 1 - m2 + k].sequence
      <4>1. CASE k < Window
        BY <3>1, <3>6, <3>8, <4>1
      <4>2. CASE k = Window
        <5>1. n + 1 - m2 + k = n + 1
          BY <1>2, <3>1, <4>2
        <5>2. QED
          BY <3>7, <4>2, <5>1
      <4>3. QED
        BY <1>2, <3>1, <3>8, <4>1, <4>2
    <3>9. ASSUME NEW q \in Requests, memory2[q] # 0
          PROVE  \E k \in 1 .. m2 : order2[k] = q
      <4>1. CASE q = r
        BY <1>2, <1>11, <3>1, <3>2, <4>1
      <4>2. CASE q # r
        <5>1. q # longer[1] /\ memory[q] # 0
          BY <3>4, <3>9, <4>2
        <5>2. PICK k \in 1 .. m : order[k] = q
          BY <1>8, <5>1
        <5>3. k # 1
          BY <3>3, <5>1, <5>2
        <5>4. k - 1 \in 1 .. m2 /\ order2[k - 1] = longer[(k - 1) + 1]
          BY <1>2, <3>1, <3>2, <5>2, <5>3
        <5>5. longer[(k - 1) + 1] = q
          BY <1>2, <1>11, <3>1, <5>2
        <5>6. QED
          BY <5>4, <5>5
      <4>3. QED
        BY <4>1, <4>2
    <3>10. QED
      BY <3>1, <3>2, <3>8, <3>9
  <2>3. QED
    BY <2>1, <2>2
<1>15. Len(log2) = n + 1 /\ Recent(log2) = m2 /\ n \in Nat /\ m2 \in Nat
  <2>1. m2 = IF n + 1 < Window THEN n + 1 ELSE Window
    BY <1>m
  <2>2. QED
    BY ONLY <1>2, <1>5, <2>1 DEF Recent
<1>16. Remembers(order2, memory2, log2)
  <2>1. ASSUME NEW k \in 1 .. Recent(log2)
        PROVE  /\ order2[k] = log2[Len(log2) - Recent(log2) + k].request
               /\ memory2[log2[Len(log2) - Recent(log2) + k].request]
                    = log2[Len(log2) - Recent(log2) + k].sequence
    <3>1. k \in 1 .. m2 /\ Len(log2) - Recent(log2) + k = n + 1 - m2 + k
      BY <1>15
    <3>2. /\ order2[k] = log2[n + 1 - m2 + k].request
          /\ memory2[log2[n + 1 - m2 + k].request] = log2[n + 1 - m2 + k].sequence
      BY <1>14, <3>1
    <3>3. QED
      BY ONLY <3>1, <3>2
  <2>2. Len(order2) = Recent(log2)
    BY <1>14, <1>15
  <2>3. \A q \in Requests : memory2[q] # 0 => \E k \in 1 .. Recent(log2) : order2[k] = q
    BY <1>14, <1>15
  <2>4. QED
    BY <2>1, <2>2, <2>3 DEF Remembers
<1>17. QED
  BY <1>13, <1>16 DEF log2, order2, memory2, longer, r

LEMMA CommandKeepsWindow ==
  ASSUME WindowInv, NEW c \in Connections, NEW s \in Sessions, NEW e \in Nat,
         NEW r \in Requests, Command(c, s, e, r)
  PROVE  WindowInv'
<1> DEFINE entry == [request |-> r, sequence |-> sequence[s] + 1,
                     owner |-> instance[c], epoch |-> e]
<1>1. TypeOK /\ TypeOK'
  BY CommandType DEF WindowInv
<1>2. /\ applied[s] \in Seq(Applied) /\ commitOrder[s] \in Seq(Requests)
      /\ committed[s] \in [Requests -> Nat] /\ sequence[s] \in Nat
  BY <1>1 DEF TypeOK
<1>3. /\ entry \in Applied /\ entry.sequence > 0
      /\ entry.request = r /\ entry.sequence = sequence[s] + 1
  BY <1>1, CoreAssumption DEF TypeOK, Command, IsAuthorized, Admitted, Applied
<1>4. /\ applied'[s] = Append(applied[s], entry)
      /\ commitOrder'[s] = Retained(Append(commitOrder[s], r))
      /\ committed'[s] = Memorised(committed[s], Append(commitOrder[s], r), r, entry.sequence)
      /\ committed[s][r] = 0
      /\ \A t \in Sessions \ {s} : /\ applied'[t] = applied[t]
                                   /\ commitOrder'[t] = commitOrder[t]
                                   /\ committed'[t] = committed[t]
  BY <1>1 DEF Command, Commit, Advance, Remember, IsAuthorized, TypeOK, Memorised
<1> HIDE DEF entry
<1>5. Once(applied[s]) /\ Remembers(commitOrder[s], committed[s], applied[s])
  BY DEF WindowInv, OnceWithinWindow, OnceIn, WindowIsRecent, WindowOf, Once, Remembers
<1>6. \A k \in 1 .. Len(applied[s]) : applied[s][k].sequence > 0
  BY DEF WindowInv
<1>7. Once(applied'[s]) /\ Remembers(commitOrder'[s], committed'[s], applied'[s])
  BY <1>2, <1>3, <1>4, <1>5, <1>6, WindowAdvances
<1>8. OnceWithinWindow'
  <2>1. ASSUME NEW t \in Sessions PROVE Once(applied'[t])
    <3>1. CASE t # s
      BY <1>4, <3>1 DEF WindowInv, OnceWithinWindow, OnceIn, Once
    <3>2. QED
      BY <1>7, <3>1
  <2>2. QED
    BY <2>1 DEF OnceWithinWindow, OnceIn, Once
<1>9. WindowIsRecent'
  <2>1. ASSUME NEW t \in Sessions PROVE Remembers(commitOrder'[t], committed'[t], applied'[t])
    <3>1. CASE t # s
      <4>1. Remembers(commitOrder[t], committed[t], applied[t])
        BY DEF WindowInv, WindowIsRecent, WindowOf, Remembers
      <4>2. QED
        BY <1>4, <3>1, <4>1
    <3>2. QED
      BY <1>7, <3>1
  <2>2. QED
    BY <2>1 DEF WindowIsRecent, WindowOf, Remembers
<1>10. \A t \in Sessions : \A k \in 1 .. Len(applied'[t]) : applied'[t][k].sequence > 0
  <2>1. ASSUME NEW t \in Sessions, NEW k \in 1 .. Len(applied'[t])
        PROVE  applied'[t][k].sequence > 0
    <3>1. CASE t # s
      BY <1>4, <2>1, <3>1 DEF WindowInv
    <3>2. CASE t = s
      <4>1. /\ Len(applied'[s]) = Len(applied[s]) + 1
            /\ applied'[s][Len(applied[s]) + 1] = entry
            /\ \A j \in 1 .. Len(applied[s]) : applied'[s][j] = applied[s][j]
        BY <1>2, <1>3, <1>4, AppendFacts
      <4>2. k \in 1 .. Len(applied[s]) \/ k = Len(applied[s]) + 1
        BY <1>2, <2>1, <3>2, <4>1
      <4>3. QED
        BY <1>3, <1>6, <3>2, <4>1, <4>2
    <3>3. QED
      BY <3>1, <3>2
  <2>2. QED
    BY <2>1
<1>11. QED
  BY <1>1, <1>8, <1>9, <1>10 DEF WindowInv

LEMMA WindowFrame ==
  ASSUME WindowInv, TypeOK', UNCHANGED <<committed, commitOrder, applied>>
  PROVE  WindowInv'
BY DEF WindowInv, WindowIsRecent, WindowOf, OnceWithinWindow, OnceIn

LEMMA WindowInductive == WindowInv /\ [Next]_vars => WindowInv'
<1> SUFFICES ASSUME WindowInv, [Next]_vars PROVE WindowInv'
  OBVIOUS
<1>1. TypeOK'
  BY TypeInductive DEF WindowInv
<1>2. ASSUME NEW c \in Connections, NEW s \in Sessions, NEW r \in Requests,
             NEW e \in 1 .. MaxEpoch[s], Command(c, s, e, r)
      PROVE  WindowInv'
  BY <1>2, CommandKeepsWindow
<1>3. ASSUME ~ \E c \in Connections, s \in Sessions, r \in Requests :
                 \E e \in 1 .. MaxEpoch[s] : Command(c, s, e, r)
      PROVE  UNCHANGED <<committed, commitOrder, applied>>
  BY <1>3 DEF Next, vars, logVars, Connect, Disconnect, CreateSession, RenameSession,
     RemoveSession, AttachViewer, AttachDriver, Detach, ReleaseDriver, Publish
<1>4. QED
  BY <1>1, <1>2, <1>3, WindowFrame

LEMMA InitWindow == Init => WindowInv
<1> SUFFICES ASSUME Init PROVE WindowInv
  OBVIOUS
<1>1. TypeOK
  BY InitType
<1>2. \A s \in Sessions : /\ Len(applied[s]) = 0 /\ Len(commitOrder[s]) = 0
                          /\ \A r \in Requests : committed[s][r] = 0
  BY DEF Init
<1>3. QED
  <2>1. \A s \in Sessions : Recent(applied[s]) = 0
    BY <1>2, CoreAssumption DEF Recent
  <2>2. WindowIsRecent
    BY <1>2, <2>1 DEF WindowIsRecent, WindowOf
  <2>3. QED
    BY <1>1, <1>2, <2>2 DEF WindowInv, OnceWithinWindow, OnceIn

LEMMA WindowCorrect == Spec => []WindowInv
BY InitWindow, WindowInductive, PTL DEF Spec

(***************************************************************************)
(* The deduplication window holds the last Window commands and the         *)
(* sequences they were given, for every window size.                       *)
(***************************************************************************)
THEOREM WindowHoldsLast == Spec => []WindowIsRecent
<1>1. WindowInv => WindowIsRecent
  BY DEF WindowInv
<1>2. QED
  BY <1>1, WindowCorrect, PTL

(***************************************************************************)
(* A request is never applied twice within Window commands of a session,   *)
(* however connections drop, reattach and retry in between.                *)
(***************************************************************************)
THEOREM RetriesApplyOnce == Spec => []OnceWithinWindow
<1>1. WindowInv => OnceWithinWindow
  BY DEF WindowInv
<1>2. QED
  BY <1>1, WindowCorrect, PTL

-----------------------------------------------------------------------------
(* The abstract driver lease *)

(***************************************************************************)
(* The inductive invariant behind Fenced: every write bears an epoch that  *)
(* was granted, and a write under the current epoch is the holder's own    *)
(* as long as there is one.                                                *)
(***************************************************************************)
WritesAreGranted ==
  \A s \in Sessions : \A k \in 1 .. Len(writesMap[s]) :
    /\ writesMap[s][k].epoch <= leaseEpoch[s]
    /\ writesMap[s][k].epoch = leaseEpoch[s] /\ holderMap[s] # NoInstance
         => writesMap[s][k].owner = holderMap[s]

LeaseInv == DL!TypeOK /\ DL!Fenced /\ WritesAreGranted

(* The abstract lease preserves the types of its variables. *)
LEMMA LeaseTypeCorrect == DL!TypeOK /\ [DL!Next]_(DL!vars) => DL!TypeOK'
<1> SUFFICES ASSUME DL!TypeOK, [DL!Next]_(DL!vars) PROVE DL!TypeOK'
  OBVIOUS
<1> USE DEF DL!TypeOK
<1>1. ASSUME NEW s \in Sessions, NEW i \in Instances, DL!Grant(s, i) PROVE DL!TypeOK'
  BY <1>1 DEF DL!Grant
<1>2. ASSUME NEW released \in SUBSET Sessions, DL!Release(released) PROVE DL!TypeOK'
  BY <1>2 DEF DL!Release
<1>3. ASSUME NEW s \in Sessions, DL!Write(s) PROVE DL!TypeOK'
  <2>1. [owner |-> holderMap[s], epoch |-> leaseEpoch[s]] \in DL!Lease
    BY <1>3 DEF DL!Write, DL!Lease
  <2>2. Append(writesMap[s], [owner |-> holderMap[s], epoch |-> leaseEpoch[s]]) \in Seq(DL!Lease)
    BY <2>1
  <2>3. writesMap' \in [Sessions -> Seq(DL!Lease)]
    BY <1>3, <2>2 DEF DL!Write
  <2>4. QED
    BY <1>3, <2>3 DEF DL!Write
<1>4. CASE UNCHANGED DL!vars
  BY <1>4 DEF DL!vars
<1>5. QED
  BY <1>1, <1>2, <1>3, <1>4 DEF DL!Next

(* A grant opens an epoch above that of every write. *)
LEMMA LeaseGrantKeeps ==
  ASSUME LeaseInv, NEW s \in Sessions, NEW i \in Instances, DL!Grant(s, i)
  PROVE  DL!Fenced' /\ WritesAreGranted'
<1>1. writesMap' = writesMap
  BY DEF DL!Grant
<1>2. DL!Fenced'
  BY <1>1 DEF LeaseInv, DL!Fenced
<1>3. ASSUME NEW t \in Sessions, NEW k \in 1 .. Len(writesMap'[t])
      PROVE  /\ writesMap'[t][k].epoch <= leaseEpoch'[t]
             /\ writesMap'[t][k].epoch = leaseEpoch'[t] /\ holderMap'[t] # NoInstance
                  => writesMap'[t][k].owner = holderMap'[t]
  <2>1. writesMap[t][k] \in DL!Lease /\ writesMap[t][k].epoch <= leaseEpoch[t]
    BY <1>1, <1>3 DEF LeaseInv, DL!TypeOK, WritesAreGranted
  <2>2. CASE t = s
    BY <1>1, <2>1, <2>2 DEF DL!Grant, LeaseInv, DL!TypeOK, DL!Lease
  <2>3. CASE t # s
    BY <1>1, <1>3, <2>3 DEF DL!Grant, LeaseInv, DL!TypeOK, WritesAreGranted
  <2>4. QED
    BY <2>2, <2>3
<1>4. QED
  BY <1>2, <1>3 DEF WritesAreGranted

(* A write goes to the end, under the current holder and epoch. *)
LEMMA LeaseWriteKeeps ==
  ASSUME LeaseInv, NEW s \in Sessions, DL!Write(s)
  PROVE  DL!Fenced' /\ WritesAreGranted'
<1> DEFINE new == [owner |-> holderMap[s], epoch |-> leaseEpoch[s]]
           n == Len(writesMap[s])
<1>1. writesMap[s] \in Seq(DL!Lease) /\ n \in Nat /\ new \in DL!Lease
  <2>1. new \in DL!Lease
    BY DEF LeaseInv, DL!TypeOK, DL!Lease, DL!Write
  <2>2. writesMap[s] \in Seq(DL!Lease)
    BY DEF LeaseInv, DL!TypeOK
  <2>3. n \in Nat
    BY <2>2
  <2>4. QED
    BY <2>1, <2>2, <2>3
<1>2. /\ holderMap' = holderMap /\ leaseEpoch' = leaseEpoch
      /\ writesMap'[s] = Append(writesMap[s], new)
      /\ \A t \in Sessions \ {s} : writesMap'[t] = writesMap[t]
  BY DEF DL!Write, LeaseInv, DL!TypeOK
<1>3. /\ Len(writesMap'[s]) = n + 1
      /\ writesMap'[s][n + 1] = new
      /\ \A k \in 1 .. n : writesMap'[s][k] = writesMap[s][k]
  BY <1>1, <1>2
<1>4. DL!Fenced'
  <2>1. SUFFICES ASSUME NEW t \in Sessions,
                        NEW i \in 1 .. Len(writesMap'[t]), NEW j \in 1 .. Len(writesMap'[t]), i < j
                 PROVE  \/ writesMap'[t][i].epoch < writesMap'[t][j].epoch
                        \/ writesMap'[t][i] = writesMap'[t][j]
    BY DEF DL!Fenced
  <2>2. CASE t = s /\ j = n + 1
    <3>1. i \in 1 .. n /\ writesMap'[t][i] = writesMap[s][i] /\ writesMap'[t][j] = new
      BY <1>1, <1>3, <2>1, <2>2
    <3>2. writesMap[s][i] \in DL!Lease
      BY <1>1, <3>1
    <3>3. /\ writesMap[s][i].epoch <= leaseEpoch[s]
          /\ writesMap[s][i].epoch = leaseEpoch[s] => writesMap[s][i].owner = holderMap[s]
      BY <3>1 DEF LeaseInv, WritesAreGranted, DL!Write
    <3>4. writesMap[s][i].epoch = leaseEpoch[s] => writesMap[s][i] = new
      BY <3>2, <3>3 DEF DL!Lease
    <3>5. QED
      BY <3>1, <3>2, <3>3, <3>4 DEF LeaseInv, DL!TypeOK, DL!Lease
  <2>3. CASE t = s /\ j # n + 1
    <3>1. j \in 1 .. n /\ i \in 1 .. n
      BY <1>1, <1>3, <2>1, <2>3
    <3>2. writesMap'[t][i] = writesMap[s][i] /\ writesMap'[t][j] = writesMap[s][j]
      BY <1>3, <2>3, <3>1
    <3>3. QED
      BY <2>1, <3>1, <3>2 DEF LeaseInv, DL!Fenced
  <2>4. CASE t # s
    BY <1>2, <2>1, <2>4 DEF LeaseInv, DL!Fenced
  <2>5. QED
    BY <2>2, <2>3, <2>4
<1>5. WritesAreGranted'
  <2>1. SUFFICES ASSUME NEW t \in Sessions, NEW k \in 1 .. Len(writesMap'[t])
                 PROVE  /\ writesMap'[t][k].epoch <= leaseEpoch[t]
                        /\ writesMap'[t][k].epoch = leaseEpoch[t] /\ holderMap[t] # NoInstance
                             => writesMap'[t][k].owner = holderMap[t]
    BY <1>2 DEF WritesAreGranted
  <2>2. CASE t = s /\ k = n + 1
    BY <1>3, <2>2 DEF LeaseInv, DL!TypeOK
  <2>3. CASE t = s /\ k # n + 1
    BY <1>1, <1>3, <2>1, <2>3 DEF LeaseInv, WritesAreGranted
  <2>4. CASE t # s
    BY <1>2, <2>1, <2>4 DEF LeaseInv, WritesAreGranted
  <2>5. QED
    BY <2>2, <2>3, <2>4
<1>6. QED
  BY <1>4, <1>5

(* LeaseInv is inductive. *)
LEMMA LeaseInvInductive == LeaseInv /\ [DL!Next]_(DL!vars) => LeaseInv'
<1> SUFFICES ASSUME LeaseInv, [DL!Next]_(DL!vars) PROVE LeaseInv'
  OBVIOUS
<1>1. DL!TypeOK'
  BY LeaseTypeCorrect DEF LeaseInv
<1>2. ASSUME NEW released \in SUBSET Sessions, DL!Release(released)
      PROVE  DL!Fenced' /\ WritesAreGranted'
  BY <1>2 DEF DL!Release, LeaseInv, DL!TypeOK, DL!Fenced, WritesAreGranted
<1>3. CASE UNCHANGED DL!vars
  BY <1>3, <1>1 DEF DL!vars, LeaseInv, DL!Fenced, WritesAreGranted
<1>4. QED
  BY <1>1, <1>2, <1>3, LeaseGrantKeeps, LeaseWriteKeeps DEF DL!Next, LeaseInv

(***************************************************************************)
(* A lease fences: every behaviour of the abstract lease satisfies Fenced. *)
(***************************************************************************)
THEOREM LeaseFences == DL!Spec => []DL!Fenced
<1>1. DL!Init => LeaseInv
  BY DEF DL!Init, LeaseInv, DL!TypeOK, DL!Fenced, WritesAreGranted
<1>2. LeaseInv => DL!Fenced
  BY DEF LeaseInv
<1>3. QED
  BY <1>1, <1>2, LeaseInvInductive, PTL DEF DL!Spec
-----------------------------------------------------------------------------
(* The core implements the driver lease *)

(* Appending a command appends its lease. *)
LEMMA LeasesOfAppend ==
  ASSUME NEW log \in Seq(Applied), NEW entry \in Applied
  PROVE  LeasesOf(Append(log, entry))
           = Append(LeasesOf(log), [owner |-> entry.owner, epoch |-> entry.epoch])
<1> DEFINE n == Len(log)
           lease == [owner |-> entry.owner, epoch |-> entry.epoch]
           longer == Append(log, entry)
<1>1. /\ n \in Nat /\ Len(longer) = n + 1 /\ longer[n + 1] = entry
      /\ \A k \in 1 .. n : longer[k] = log[k]
  OBVIOUS
<1>2. LeasesOf(log) \in Seq([owner : Instances, epoch : Nat]) /\ lease \in [owner : Instances, epoch : Nat]
  <2>1. \A k \in 1 .. n : log[k] \in Applied
    OBVIOUS
  <2>2. \A k \in 1 .. n : [owner |-> log[k].owner, epoch |-> log[k].epoch] \in [owner : Instances, epoch : Nat]
    BY <2>1 DEF Applied
  <2>3. lease \in [owner : Instances, epoch : Nat]
    BY DEF Applied
  <2>4. QED
    BY <1>1, <2>2, <2>3 DEF LeasesOf
<1>3. Len(LeasesOf(log)) = n
  BY <1>1 DEF LeasesOf
<1> DEFINE left == LeasesOf(longer)
           right == Append(LeasesOf(log), lease)
<1>4. /\ left \in Seq([owner : Instances, epoch : Nat])
      /\ Len(left) = n + 1
      /\ left[n + 1] = lease
  <2>1. longer \in Seq(Applied)
    OBVIOUS
  <2>2. \A k \in 1 .. n + 1 : longer[k] \in Applied
    BY <1>1, <2>1
  <2>3. \A k \in 1 .. n + 1 : [owner |-> longer[k].owner, epoch |-> longer[k].epoch] \in [owner : Instances, epoch : Nat]
    BY <2>2 DEF Applied
  <2>4. left = [k \in 1 .. n + 1 |-> [owner |-> longer[k].owner, epoch |-> longer[k].epoch]]
    BY <1>1 DEF LeasesOf
  <2>5. QED
    BY <1>1, <2>3, <2>4
<1>5. \A k \in 1 .. n : left[k] = [owner |-> log[k].owner, epoch |-> log[k].epoch]
  BY <1>1 DEF LeasesOf
<1>6. \A k \in 1 .. n : LeasesOf(log)[k] = [owner |-> log[k].owner, epoch |-> log[k].epoch]
  BY <1>1 DEF LeasesOf
<1> HIDE DEF left, lease
<1>7. /\ right \in Seq([owner : Instances, epoch : Nat])
      /\ Len(right) = n + 1
      /\ right[n + 1] = lease
      /\ \A k \in 1 .. n : right[k] = LeasesOf(log)[k]
  BY <1>1, <1>2, <1>3
<1> HIDE DEF right, longer, n
<1>8. \A k \in 1 .. Len(left) : left[k] = right[k]
  <2>1. \A k \in 1 .. n : left[k] = right[k]
    BY <1>5, <1>6, <1>7
  <2>2. n \in Nat
    BY <1>1
  <2>3. \A k \in 1 .. n + 1 : k \in 1 .. n \/ k = n + 1
    BY <2>2
  <2>4. QED
    BY <1>4, <1>7, <2>1, <2>3
<1>9. left = right
  <2> DEFINE T == [owner : Instances, epoch : Nat]
  <2>1. left \in Seq(T) /\ right \in Seq(T) /\ Len(left) = Len(right)
    BY <1>4, <1>7
  <2> HIDE DEF T
  <2>2. QED
    BY <2>1, <1>8, SeqEqual
<1>10. QED
  BY <1>9 DEF left, right, longer, lease

LEMMA LeaseInit == Init => DL!Init
<1> SUFFICES ASSUME Init PROVE DL!Init
  OBVIOUS
<1>1. holderMap = [s \in Sessions |-> NoInstance]
  BY DEF Init, holderMap, NoLease
<1>2. writesMap = [s \in Sessions |-> <<>>]
  <2>1. \A s \in Sessions : applied[s] = <<>>
    BY DEF Init
  <2>2. \A s \in Sessions : LeasesOf(applied[s]) = <<>>
    BY <2>1 DEF LeasesOf
  <2>3. QED
    BY <2>2 DEF writesMap
<1>3. QED
  BY <1>1, <1>2 DEF DL!Init, Init

(* A step that leaves leases and commands alone is a stutter. *)
LEMMA LeaseStutter ==
  ASSUME UNCHANGED <<leaseVars, applied>>
  PROVE  UNCHANGED DL!vars
BY DEF leaseVars, DL!vars, holderMap, writesMap

(* A step that only takes leases away is a release. *)
LEMMA LeaseRelease ==
  ASSUME TypeOK, NEW released \in SUBSET Sessions,
         driver' = [s \in Sessions |-> IF s \in released THEN NoLease ELSE driver[s]],
         UNCHANGED <<leaseEpoch, applied>>
  PROVE  DL!Next
<1>1. DL!Release(released)
  BY DEF DL!Release, holderMap, writesMap, NoLease, TypeOK
<1>2. QED
  BY <1>1 DEF DL!Next

LEMMA LeaseGrant ==
  ASSUME TypeOK, NEW s \in Sessions, NEW i \in Instances, driver[s].owner # i,
         GrantLease(s, i), UNCHANGED applied
  PROVE  DL!Next
<1>1. DL!Grant(s, i)
  BY DEF DL!Grant, GrantLease, holderMap, writesMap, TypeOK
<1>2. QED
  BY <1>1 DEF DL!Next

LEMMA LeaseWrite ==
  ASSUME CoreInv, NEW c \in Connections, NEW s \in Sessions, NEW e \in Nat,
         NEW r \in Requests, Command(c, s, e, r)
  PROVE  DL!Next
<1> DEFINE entry == [request |-> r, sequence |-> sequence[s] + 1,
                     owner |-> instance[c], epoch |-> e]
           new == [owner |-> holderMap[s], epoch |-> leaseEpoch[s]]
<1>1. driver[s] = [owner |-> instance[c], epoch |-> e] /\ instance[c] \in Instances
  BY CoreAssumption DEF Command, IsAuthorized, Admitted
<1>2. /\ holderMap[s] # NoInstance
      /\ new = [owner |-> instance[c], epoch |-> e]
  BY <1>1, CoreAssumption DEF CoreInv, LeaseIsCurrent, holderMap
<1>3. entry \in Applied
  <2>1. sequence[s] + 1 \in Nat
    BY DEF CoreInv, TypeOK
  <2>2. QED
    BY <1>1, <2>1 DEF Applied
<1>4. applied[s] \in Seq(Applied)
  BY DEF CoreInv, TypeOK
<1>5. applied' = [applied EXCEPT ![s] = Append(applied[s], entry)]
  BY DEF Command
<1>6. LeasesOf(Append(applied[s], entry)) = Append(LeasesOf(applied[s]), new)
  BY <1>2, <1>3, <1>4, LeasesOfAppend
<1>7. writesMap' = [writesMap EXCEPT ![s] = Append(@, new)]
  <2> HIDE DEF entry, new
  <2>1. applied'[s] = Append(applied[s], entry) /\ \A t \in Sessions \ {s} : applied'[t] = applied[t]
    BY <1>5 DEF CoreInv, TypeOK
  <2>2. LeasesOf(applied'[s]) = Append(LeasesOf(applied[s]), new)
    BY <1>6, <2>1
  <2>3. writesMap' = [t \in Sessions |-> LeasesOf(applied'[t])]
    BY DEF writesMap, LeasesOf
  <2>4. QED
    BY <2>1, <2>2, <2>3 DEF writesMap
<1>8. holderMap' = holderMap /\ leaseEpoch' = leaseEpoch
  BY DEF Command, leaseVars, holderMap
<1>9. DL!Write(s)
  BY <1>2, <1>7, <1>8 DEF DL!Write
<1>10. QED
  BY <1>9 DEF DL!Next

LEMMA LeaseStep == CoreInv /\ [Next]_vars => [DL!Next]_(DL!vars)
<1> SUFFICES ASSUME CoreInv, [Next]_vars PROVE DL!Next \/ UNCHANGED DL!vars
  OBVIOUS
<1>1. TypeOK
  BY DEF CoreInv
<1>2. ASSUME NEW c \in Connections, Disconnect(c) PROVE DL!Next
  <2>1. ReleasedBy(c) \in SUBSET Sessions
    BY <1>1 DEF ReleasedBy, TypeOK
  <2>2. QED
    BY <1>1, <1>2, <2>1, LeaseRelease DEF Disconnect, logVars
<1>3. ASSUME NEW s \in Sessions, driver' = [driver EXCEPT ![s] = NoLease],
             UNCHANGED <<leaseEpoch, applied>>
      PROVE  DL!Next
  <2>1. driver' = [t \in Sessions |-> IF t \in {s} THEN NoLease ELSE driver[t]]
    BY <1>1, <1>3 DEF TypeOK
  <2>2. QED
    BY <1>1, <1>3, <2>1, LeaseRelease
<1>4. ASSUME NEW s \in Sessions, RemoveSession(s) PROVE DL!Next
  BY <1>3, <1>4 DEF RemoveSession, logVars
<1>5. ASSUME NEW c \in Connections, NEW s \in Sessions, NEW force \in BOOLEAN,
             AttachDriver(c, s, force)
      PROVE  DL!Next \/ UNCHANGED DL!vars
  <2>1. CASE driver[s].owner = instance[c]
    BY <1>5, <2>1, LeaseStutter DEF AttachDriver, logVars
  <2>2. CASE driver[s].owner # instance[c]
    <3>1. instance[c] \in Instances
      BY <1>1, <1>5 DEF AttachDriver, TypeOK
    <3>2. QED
      BY <1>1, <1>5, <2>2, <3>1, LeaseGrant DEF AttachDriver, logVars
  <2>3. QED
    BY <2>1, <2>2
<1>6. ASSUME NEW c \in Connections, NEW s \in Sessions, Detach(c, s)
      PROVE  DL!Next \/ UNCHANGED DL!vars
  BY <1>3, <1>6, LeaseStutter DEF Detach, logVars, leaseVars
<1>7. ASSUME NEW c \in Connections, NEW s \in Sessions, ReleaseDriver(c, s) PROVE DL!Next
  BY <1>3, <1>7 DEF ReleaseDriver, logVars
<1>8. ASSUME NEW c \in Connections, NEW s \in Sessions, NEW r \in Requests,
             NEW e \in 1 .. MaxEpoch[s], Command(c, s, e, r)
      PROVE  DL!Next
  BY <1>8, LeaseWrite
<1>9. ASSUME NEW c \in Connections, NEW i \in Instances, Connect(c, i)
      PROVE  UNCHANGED DL!vars
  BY <1>9, LeaseStutter DEF Connect, logVars
<1>10. ASSUME NEW s \in Sessions, NEW raw \in RawNames,
              CreateSession(s, raw) \/ RenameSession(s, raw)
       PROVE  UNCHANGED DL!vars
  BY <1>10, LeaseStutter DEF CreateSession, RenameSession, logVars
<1>11. ASSUME NEW c \in Connections, NEW s \in Sessions, AttachViewer(c, s)
       PROVE  UNCHANGED DL!vars
  BY <1>11, LeaseStutter DEF AttachViewer, logVars
<1>12. ASSUME NEW s \in Sessions, Publish(s) PROVE UNCHANGED DL!vars
  BY <1>12, LeaseStutter DEF Publish, Advance
<1>13. CASE UNCHANGED vars
  BY <1>13, LeaseStutter DEF vars, logVars
<1>14. QED
  BY <1>2, <1>4, <1>5, <1>6, <1>7, <1>8, <1>9, <1>10, <1>11, <1>12, <1>13 DEF Next

(***************************************************************************)
(* The core implements the abstract driver lease: every grant opens a new  *)
(* epoch and every command is applied under the lease that is current.     *)
(***************************************************************************)
THEOREM RefinesLease == Spec => ImplementsDriverLease
BY LeaseInit, LeaseStep, CoreCorrect, PTL DEF Spec, ImplementsDriverLease, DL!Spec

(***************************************************************************)
(* A command that carries an older lease is never applied after one that   *)
(* carries a newer lease: fencing, inherited from the abstract lease.      *)
(***************************************************************************)
THEOREM CommandsAreFenced == Spec => []WritesFenced
<1>1. Init => LeaseInv
  <2>1. Init => DL!Init
    BY LeaseInit
  <2>2. DL!Init => LeaseInv
    BY DEF DL!Init, LeaseInv, DL!TypeOK, DL!Fenced, WritesAreGranted
  <2>3. QED
    BY <2>1, <2>2
<1>2. NoInstance \notin Instances
  BY CoreAssumption
<1>3. LeaseInv /\ [DL!Next]_(DL!vars) => LeaseInv'
  BY <1>2, LeaseInvInductive
<1>4. TypeOK /\ LeaseInv => WritesFenced
  <2>1. SUFFICES ASSUME TypeOK, LeaseInv, NEW s \in Sessions,
                        NEW j \in 1 .. Len(applied[s]), NEW k \in 1 .. Len(applied[s]), j < k
                 PROVE  \/ applied[s][j].epoch < applied[s][k].epoch
                        \/ /\ applied[s][j].epoch = applied[s][k].epoch
                           /\ applied[s][j].owner = applied[s][k].owner
    BY DEF WritesFenced
  <2>2. Len(applied[s]) \in Nat
    BY <2>1 DEF TypeOK
  <2>3. writesMap[s] = LeasesOf(applied[s]) /\ Len(writesMap[s]) = Len(applied[s])
    BY <2>2 DEF writesMap, LeasesOf
  <2>4. \A m \in 1 .. Len(applied[s]) :
          writesMap[s][m] = [owner |-> applied[s][m].owner, epoch |-> applied[s][m].epoch]
    BY <2>2, <2>3 DEF LeasesOf
  <2>5. \/ writesMap[s][j].epoch < writesMap[s][k].epoch
        \/ writesMap[s][j] = writesMap[s][k]
    BY <2>1, <2>3 DEF LeaseInv, DL!Fenced
  <2>6. /\ writesMap[s][j] = [owner |-> applied[s][j].owner, epoch |-> applied[s][j].epoch]
        /\ writesMap[s][k] = [owner |-> applied[s][k].owner, epoch |-> applied[s][k].epoch]
    BY <2>1, <2>4
  <2>7. /\ writesMap[s][j].epoch = applied[s][j].epoch /\ writesMap[s][j].owner = applied[s][j].owner
        /\ writesMap[s][k].epoch = applied[s][k].epoch /\ writesMap[s][k].owner = applied[s][k].owner
    BY <2>6
  <2>8. QED
    BY <2>5, <2>7
<1>5. CoreInv => TypeOK
  BY DEF CoreInv
<1>6. QED
  BY <1>1, <1>3, <1>4, <1>5, LeaseStep, CoreCorrect, PTL DEF Spec

-----------------------------------------------------------------------------
(* Counting.  A recursive function is reasoned about through its run, the  *)
(* function from each step to its value; that a run exists and what it     *)
(* keeps is shown by its least counterexample.                             *)

Below == {pair \in Nat \X Nat : pair[1] < pair[2]}

LEMMA BelowIsWellFounded == IsWellFoundedOn(Below, Nat)
BY ONLY NatLessThanWellFounded DEF OpToRel, Below

LEMMA LeastNumber ==
  ASSUME NEW T, T \subseteq Nat, T # {}
  PROVE  \E x \in T : \A y \in T : x <= y
<1>1. PICK x \in T : \A y \in T : ~ (<<y, x>> \in Below)
  BY BelowIsWellFounded, WFMin
<1>2. ASSUME NEW y \in T PROVE x <= y
  <2>1. ~(y < x)
    BY <1>1 DEF Below
  <2>2. QED
    BY <2>1
<1>3. QED
  BY <1>2

(* What holds at 0 and from each step to the next holds up to n. *)
LEMMA CountUp ==
  ASSUME NEW n \in Nat, NEW T, 0 \in T, \A k \in 1 .. n : k - 1 \in T => k \in T
  PROVE  \A k \in 0 .. n : k \in T
<1> SUFFICES ASSUME ~ \A k \in 0 .. n : k \in T PROVE FALSE
  OBVIOUS
<1> DEFINE Missing == {k \in 0 .. n : k \notin T}
<1>1. PICK m \in Missing : \A j \in Missing : m <= j
  <2>1. Missing \subseteq Nat /\ Missing # {}
    OBVIOUS
  <2> HIDE DEF Missing
  <2>2. QED
    BY <2>1, LeastNumber
<1>2. m \in 1 .. n /\ m \notin T
  BY <1>1
<1>3. m - 1 \in 0 .. n /\ ~(m <= m - 1)
  BY <1>2
<1>4. m - 1 \in T
  BY <1>1, <1>3
<1>5. QED
  BY <1>2, <1>4

-----------------------------------------------------------------------------
(* The runs of ReplayRecord and LoadJournal *)

Reduced(memory, record) == [memory EXCEPT !.domain = @ \o record.events]

EventStep(memory, record, k) ==
  CoreReplay(memory, record.events[k].sequence, IF k = 1 THEN record.request ELSE NoRequest)

\* f is the run of ReplayRecord over the first n events of record.
IsReplay(f, memory, record, n) ==
  f = [k \in 0 .. n |-> IF k = 0 THEN Reduced(memory, record)
                        ELSE EventStep(f[k - 1], record, k)]

\* f is the run of LoadJournal over the first n of records.
IsLoad(f, base, records, n) ==
  f = [k \in 0 .. n |-> IF k = 0 THEN base ELSE LoadRecord(base.log, f[k - 1], records[k])]

LEMMA ReplayExists ==
  ASSUME NEW memory, NEW record, NEW n \in Nat
  PROVE  \E f : IsReplay(f, memory, record, n)
<1> DEFINE T == {k \in Nat : \E f : IsReplay(f, memory, record, k)}
<1>1. 0 \in T
  <2>1. IsReplay([k \in 0 .. 0 |-> Reduced(memory, record)], memory, record, 0)
    BY DEF IsReplay
  <2>2. QED
    BY <2>1
<1>2. ASSUME NEW m \in 1 .. n, m - 1 \in T PROVE m \in T
  <2>1. PICK f : IsReplay(f, memory, record, m - 1)
    BY <1>2
  <2> DEFINE g == [k \in 0 .. m |-> IF k = m THEN EventStep(f[m - 1], record, m) ELSE f[k]]
  <2>2. /\ g = [k \in 0 .. m |-> g[k]]
        /\ g[m] = EventStep(f[m - 1], record, m)
        /\ \A k \in 0 .. m - 1 : g[k] = f[k]
    OBVIOUS
  <2>3. \A k \in 0 .. m - 1 : f[k] = IF k = 0 THEN Reduced(memory, record)
                                     ELSE EventStep(f[k - 1], record, k)
    BY <2>1 DEF IsReplay
  <2> HIDE DEF g
  <2>4. ASSUME NEW k \in 0 .. m
        PROVE  g[k] = IF k = 0 THEN Reduced(memory, record)
                      ELSE EventStep(g[k - 1], record, k)
    <3>1. CASE k = m
      <4>1. m - 1 \in 0 .. m - 1 /\ m # 0
        OBVIOUS
      <4>2. QED
        BY <2>2, <3>1, <4>1
    <3>2. CASE k # m
      <4>1. k \in 0 .. m - 1 /\ (k # 0 => k - 1 \in 0 .. m - 1)
        BY <3>2
      <4>2. QED
        BY <2>2, <2>3, <4>1
    <3>3. QED
      BY <3>1, <3>2
  <2>5. IsReplay(g, memory, record, m)
    BY <2>2, <2>4 DEF IsReplay
  <2>6. QED
    BY <2>5
<1> HIDE DEF T
<1>3. \A k \in 0 .. n : k \in T
  BY <1>1, <1>2, CountUp
<1>4. n \in T
  BY <1>3
<1>5. QED
  BY <1>4 DEF T

LEMMA LoadExists ==
  ASSUME NEW base, NEW records, NEW n \in Nat
  PROVE  \E f : IsLoad(f, base, records, n)
<1> DEFINE T == {k \in Nat : \E f : IsLoad(f, base, records, k)}
<1>1. 0 \in T
  <2>1. IsLoad([k \in 0 .. 0 |-> base], base, records, 0)
    BY DEF IsLoad
  <2>2. QED
    BY <2>1
<1>2. ASSUME NEW m \in 1 .. n, m - 1 \in T PROVE m \in T
  <2>1. PICK f : IsLoad(f, base, records, m - 1)
    BY <1>2
  <2> DEFINE g == [k \in 0 .. m |-> IF k = m THEN LoadRecord(base.log, f[m - 1], records[m])
                                    ELSE f[k]]
  <2>2. /\ g = [k \in 0 .. m |-> g[k]]
        /\ g[m] = LoadRecord(base.log, f[m - 1], records[m])
        /\ \A k \in 0 .. m - 1 : g[k] = f[k]
    OBVIOUS
  <2>3. \A k \in 0 .. m - 1 : f[k] = IF k = 0 THEN base
                                     ELSE LoadRecord(base.log, f[k - 1], records[k])
    BY <2>1 DEF IsLoad
  <2> HIDE DEF g
  <2>4. ASSUME NEW k \in 0 .. m
        PROVE  g[k] = IF k = 0 THEN base ELSE LoadRecord(base.log, g[k - 1], records[k])
    <3>1. CASE k = m
      <4>1. m - 1 \in 0 .. m - 1 /\ m # 0
        OBVIOUS
      <4>2. QED
        BY <2>2, <3>1, <4>1
    <3>2. CASE k # m
      <4>1. k \in 0 .. m - 1 /\ (k # 0 => k - 1 \in 0 .. m - 1)
        BY <3>2
      <4>2. QED
        BY <2>2, <2>3, <4>1
    <3>3. QED
      BY <3>1, <3>2
  <2>5. IsLoad(g, base, records, m)
    BY <2>2, <2>4 DEF IsLoad
  <2>6. QED
    BY <2>5
<1> HIDE DEF T
<1>3. \A k \in 0 .. n : k \in T
  BY <1>1, <1>2, CountUp
<1>4. n \in T
  BY <1>3
<1>5. QED
  BY <1>4 DEF T

(* The value of ReplayRecord and of LoadJournal is the end of a run. *)
LEMMA ReplayRun ==
  ASSUME NEW memory, NEW record, Len(record.events) \in Nat, record.events # <<>>
  PROVE  \E f : /\ IsReplay(f, memory, record, Len(record.events))
                /\ ReplayRecord(memory, record) = f[Len(record.events)]
<1> DEFINE chosen == CHOOSE f : IsReplay(f, memory, record, Len(record.events))
<1>1. IsReplay(chosen, memory, record, Len(record.events))
  BY ReplayExists
<1>2. ReplayRecord(memory, record) = chosen[Len(record.events)]
  BY DEF ReplayRecord, IsReplay, Reduced, EventStep
<1>3. QED
  BY <1>1, <1>2

LEMMA LoadRun ==
  ASSUME NEW base, NEW records, Len(records) \in Nat
  PROVE  \E f : /\ IsLoad(f, base, records, Len(records))
                /\ LoadJournal(base, records) = f[Len(records)]
<1> DEFINE chosen == CHOOSE f : IsLoad(f, base, records, Len(records))
<1>1. IsLoad(chosen, base, records, Len(records))
  BY LoadExists
<1>2. LoadJournal(base, records) = chosen[Len(records)]
  BY DEF LoadJournal, IsLoad
<1>3. QED
  BY <1>1, <1>2

-----------------------------------------------------------------------------
(* Types of what is replayed *)

Entries == [request : Requests, sequence : Nat]

\* What a leader may load: a memory whose window is not too long, of a
\* directory that may still lack a name.
Loadables ==
  {m \in [name : Names \cup {NoName}, sequence : Nat, leaseEpoch : Nat,
          order : Seq(Entries), domain : Seq(Events), log : Nat] :
     Len(m.order) <= Window}

LEMMA RetainedEntries ==
  ASSUME NEW S, NEW order \in Seq(S)
  PROVE  /\ Retained(order) \in Seq(S)
         /\ Len(Retained(order)) <= Window
         /\ Len(order) <= Window => Retained(order) = order
         /\ Len(order) = Window + 1 =>
              /\ Len(Retained(order)) = Window
              /\ \A k \in 1 .. Window : Retained(order)[k] = order[k + 1]
<1>1. Window \in Nat \ {0} /\ Len(order) \in Nat
  BY CoreAssumption
<1>2. CASE Len(order) > Window
  <2> DEFINE first == Len(order) - Window + 1
  <2>1. first \in 1 .. Len(order) /\ Len(order) - first + 1 = Window
    BY <1>1, <1>2
  <2>2. Retained(order) = SubSeq(order, first, Len(order))
    BY <1>2 DEF Retained
  <2> HIDE DEF first
  <2>3. /\ SubSeq(order, first, Len(order)) \in Seq(S)
        /\ Len(SubSeq(order, first, Len(order))) = Window
        /\ \A k \in 1 .. Window : SubSeq(order, first, Len(order))[k] = order[first + k - 1]
    <3>1. \A i \in first .. Len(order) : order[i] \in S
      BY <2>1
    <3>2. first \in Int /\ Len(order) \in Int /\ first <= Len(order)
      BY <1>1, <2>1
    <3>3. /\ SubSeq(order, first, Len(order)) \in Seq(S)
          /\ Len(SubSeq(order, first, Len(order)))
               = IF first <= Len(order) THEN Len(order) - first + 1 ELSE 0
          /\ \A i \in 1 .. Len(order) - first + 1 :
               SubSeq(order, first, Len(order))[i] = order[first + i - 1]
      BY <3>1, <3>2, SubSeqProperties
    <3>4. QED
      BY <2>1, <3>2, <3>3
  <2>4. ASSUME Len(order) = Window + 1, NEW k \in 1 .. Window
        PROVE  first + k - 1 = k + 1
    BY <1>1, <2>4 DEF first
  <2>5. ~(Len(order) <= Window)
    BY <1>1, <1>2
  <2>6. QED
    BY <1>1, <2>2, <2>3, <2>4, <2>5
<1>3. CASE ~(Len(order) > Window)
  BY <1>1, <1>3 DEF Retained
<1>4. QED
  BY <1>2, <1>3

LEMMA CoreReplayType ==
  ASSUME NEW m \in Loadables, NEW q \in Nat, NEW r \in Requests \cup {NoRequest}
  PROVE  /\ CoreReplay(m, q, r) \in Loadables
         /\ CoreReplay(m, q, r).name = m.name
         /\ CoreReplay(m, q, r).log = m.log
<1>1. CASE q <= m.sequence
  BY <1>1 DEF CoreReplay
<1>2. CASE ~(q <= m.sequence) /\ r = NoRequest
  BY <1>2 DEF CoreReplay, Loadables
<1>3. CASE ~(q <= m.sequence) /\ r # NoRequest
  <2> DEFINE entry == [request |-> r, sequence |-> q]
             order == Retained(Append(m.order, entry))
  <2>1. entry \in Entries
    BY <1>3 DEF Entries
  <2>2. m.order \in Seq(Entries)
    BY DEF Loadables
  <2>3. Append(m.order, entry) \in Seq(Entries)
    BY <2>1, <2>2
  <2>4. order \in Seq(Entries) /\ Len(order) <= Window
    BY <2>3, RetainedEntries
  <2>5. CoreReplay(m, q, r) = [m EXCEPT !.sequence = q, !.order = order]
    BY <1>3 DEF CoreReplay
  <2> HIDE DEF entry, order
  <2>6. QED
    BY <2>4, <2>5 DEF Loadables
<1>4. QED
  BY <1>1, <1>2, <1>3

LEMMA ReducedType ==
  ASSUME NEW m \in Loadables, NEW record \in Records
  PROVE  /\ Reduced(m, record) \in Loadables
         /\ Reduced(m, record).name = m.name
         /\ Reduced(m, record).log = m.log
<1>1. m.domain \in Seq(Events) /\ record.events \in Seq(Events)
  BY DEF Loadables, Records
<1>2. m.domain \o record.events \in Seq(Events)
  BY <1>1
<1>3. QED
  BY <1>2 DEF Reduced, Loadables

LEMMA ReplayType ==
  ASSUME NEW m \in Loadables, NEW record \in Records
  PROVE  /\ ReplayRecord(m, record) \in Loadables
         /\ ReplayRecord(m, record).name = m.name
         /\ ReplayRecord(m, record).log = m.log
<1>1. /\ record.events \in Seq(Events)
      /\ record.request \in Requests \cup {NoRequest}
      /\ record.control \in Nat
  BY DEF Records
<1>2. CASE record.events = <<>>
  <2>1. Reduced(m, record) = [m EXCEPT !.domain = @ \o record.events]
    BY DEF Reduced
  <2>2. ReplayRecord(m, record) =
          IF record.request = NoRequest THEN Reduced(m, record)
          ELSE CoreReplay(Reduced(m, record), record.control, record.request)
    BY <1>2, <2>1 DEF ReplayRecord
  <2>3. QED
    BY <1>1, <2>2, ReducedType, CoreReplayType
<1>3. CASE record.events # <<>>
  <2> DEFINE n == Len(record.events)
  <2>1. n \in Nat
    BY <1>1
  <2>2. PICK f : IsReplay(f, m, record, n) /\ ReplayRecord(m, record) = f[n]
    BY <1>3, <2>1, ReplayRun
  <2> HIDE DEF n
  <2> DEFINE T == {k \in 0 .. n : f[k] \in Loadables /\ f[k].name = m.name /\ f[k].log = m.log}
  <2>3. \A k \in 0 .. n : f[k] = IF k = 0 THEN Reduced(m, record)
                                 ELSE EventStep(f[k - 1], record, k)
    BY <2>2 DEF IsReplay
  <2>4. 0 \in T
    BY <2>1, <2>3, ReducedType
  <2>5. ASSUME NEW k \in 1 .. n, k - 1 \in T PROVE k \in T
    <3>1. record.events[k] \in Events
      BY <1>1 DEF n
    <3>2. record.events[k].sequence \in Nat
      BY <3>1 DEF Events
    <3>3. (IF k = 1 THEN record.request ELSE NoRequest) \in Requests \cup {NoRequest}
      BY <1>1
    <3>4. f[k] = EventStep(f[k - 1], record, k)
      BY <2>3
    <3>5. f[k - 1] \in Loadables /\ f[k - 1].name = m.name /\ f[k - 1].log = m.log
      BY <2>5
    <3>6. /\ EventStep(f[k - 1], record, k) \in Loadables
          /\ EventStep(f[k - 1], record, k).name = m.name
          /\ EventStep(f[k - 1], record, k).log = m.log
      BY <3>2, <3>3, <3>5, CoreReplayType DEF EventStep
    <3>7. QED
      BY <2>1, <3>4, <3>6
  <2> HIDE DEF T
  <2>6. \A k \in 0 .. n : k \in T
    BY <2>1, <2>4, <2>5, CountUp
  <2>7. n \in T
    BY <2>1, <2>6
  <2>8. QED
    BY <2>2, <2>7 DEF T
<1>4. QED
  BY <1>2, <1>3

LEMMA LoadRecordType ==
  ASSUME NEW m \in Loadables, NEW record \in Records, NEW covered \in Nat
  PROVE  /\ LoadRecord(covered, m, record) \in Loadables
         /\ LoadRecord(covered, m, record).name = m.name
         /\ LoadRecord(covered, m, record).log >= m.log
         /\ LoadRecord(covered, m, record).log >= record.log
<1> DEFINE replayed == IF IsNewer(covered, record) THEN ReplayRecord(m, record) ELSE m
           log == IF record.log > replayed.log THEN record.log ELSE replayed.log
<1>1. replayed \in Loadables /\ replayed.name = m.name /\ replayed.log = m.log
  BY ReplayType
<1>2. LoadRecord(covered, m, record) = [replayed EXCEPT !.log = log]
  BY DEF LoadRecord
<1>3. record.log \in Nat /\ m.log \in Nat
  BY DEF Records, Loadables
<1> HIDE DEF replayed
<1>4. log \in Nat /\ log >= m.log /\ log >= record.log
  BY <1>1, <1>3
<1> HIDE DEF log
<1>5. QED
  BY <1>1, <1>2, <1>4 DEF Loadables

-----------------------------------------------------------------------------
(* What a journal adds to what is loaded *)

LEMMA LoadType ==
  ASSUME NEW base \in Loadables, NEW records \in Seq(Records)
  PROVE  /\ LoadJournal(base, records) \in Loadables
         /\ LoadJournal(base, records).name = base.name
         /\ LoadJournal(base, records).log >= base.log
         /\ \A j \in 1 .. Len(records) : records[j].log <= LoadJournal(base, records).log
<1> DEFINE n == Len(records)
<1>1. n \in Nat /\ \A j \in 1 .. n : records[j] \in Records
  OBVIOUS
<1>2. PICK f : IsLoad(f, base, records, n) /\ LoadJournal(base, records) = f[n]
  BY <1>1, LoadRun
<1>3. base.log \in Nat
  BY DEF Loadables
<1>4. \A j \in 1 .. n : records[j].log \in Nat
  BY <1>1 DEF Records
<1> HIDE DEF n
<1> DEFINE T == {k \in 0 .. n : /\ f[k] \in Loadables
                                /\ f[k].name = base.name
                                /\ f[k].log >= base.log
                                /\ \A j \in 1 .. k : records[j].log <= f[k].log}
<1>5. \A k \in 0 .. n : f[k] = IF k = 0 THEN base ELSE LoadRecord(base.log, f[k - 1], records[k])
  BY <1>2 DEF IsLoad
<1>6. 0 \in T
  BY <1>1, <1>3, <1>5
<1>7. ASSUME NEW k \in 1 .. n, k - 1 \in T PROVE k \in T
  <2>1. /\ f[k - 1] \in Loadables /\ f[k - 1].name = base.name /\ f[k - 1].log >= base.log
        /\ \A j \in 1 .. k - 1 : records[j].log <= f[k - 1].log
    BY <1>7
  <2>2. f[k] = LoadRecord(base.log, f[k - 1], records[k])
    BY <1>1, <1>5
  <2>3. /\ LoadRecord(base.log, f[k - 1], records[k]) \in Loadables
        /\ LoadRecord(base.log, f[k - 1], records[k]).name = f[k - 1].name
        /\ LoadRecord(base.log, f[k - 1], records[k]).log >= f[k - 1].log
        /\ LoadRecord(base.log, f[k - 1], records[k]).log >= records[k].log
    BY <1>1, <1>3, <2>1, LoadRecordType
  <2>4. f[k] \in Loadables /\ f[k].name = base.name /\ f[k].log >= f[k - 1].log /\ f[k].log >= records[k].log
    BY <2>1, <2>2, <2>3
  <2>5. f[k].log \in Nat /\ f[k - 1].log \in Nat
    BY <2>1, <2>4 DEF Loadables
  <2>6. ASSUME NEW j \in 1 .. k PROVE records[j].log <= f[k].log
    <3>1. j \in 1 .. k - 1 \/ j = k
      BY <1>1
    <3>2. j \in 1 .. n
      BY <1>1
    <3>3. records[j].log \in Nat
      BY <1>4, <3>2
    <3>4. CASE j = k
      BY <2>4, <2>5, <3>3, <3>4
    <3>5. CASE j \in 1 .. k - 1
      <4>1. records[j].log <= f[k - 1].log /\ f[k - 1].log <= f[k].log
        BY <2>1, <2>4, <2>5, <3>5
      <4>2. QED
        BY ONLY <2>5, <3>3, <4>1
    <3>6. QED
      BY <3>1, <3>4, <3>5
  <2>7. f[k].log >= base.log
    <3>1. f[k].log >= f[k - 1].log /\ f[k - 1].log >= base.log
      BY <2>1, <2>4
    <3>2. QED
      BY ONLY <1>3, <2>5, <3>1
  <2>8. k \in 0 .. n
    BY <1>1
  <2>9. QED
    BY <2>4, <2>6, <2>7, <2>8
<1> HIDE DEF T
<1>8. \A k \in 0 .. n : k \in T
  BY <1>1, <1>6, <1>7, CountUp
<1>9. n \in T
  BY <1>1, <1>8
<1>10. QED
  BY <1>2, <1>9 DEF T, n

(* Nothing is replayed of a journal that the checkpoint covers. *)
LEMMA LoadCovered ==
  ASSUME NEW base \in Loadables, NEW records \in Seq(Records),
         \A j \in 1 .. Len(records) : records[j].log <= base.log
  PROVE  LoadJournal(base, records) = base
<1> DEFINE n == Len(records)
<1>1. /\ n \in Nat
      /\ \A j \in 1 .. n : records[j] \in Records /\ records[j].log <= base.log
  OBVIOUS
<1>2. PICK f : IsLoad(f, base, records, n) /\ LoadJournal(base, records) = f[n]
  BY <1>1, LoadRun
<1> HIDE DEF n
<1> DEFINE T == {k \in 0 .. n : f[k] = base}
<1>3. \A k \in 0 .. n : f[k] = IF k = 0 THEN base ELSE LoadRecord(base.log, f[k - 1], records[k])
  BY <1>2 DEF IsLoad
<1>4. 0 \in T
  BY <1>1, <1>3
<1>5. ASSUME NEW k \in 1 .. n, k - 1 \in T PROVE k \in T
  <2>1. f[k] = LoadRecord(base.log, base, records[k])
    BY <1>1, <1>3, <1>5
  <2>2. records[k].log \in Nat /\ base.log \in Nat /\ records[k].log <= base.log
    BY <1>1 DEF Records, Loadables
  <2>3. ~IsNewer(base.log, records[k]) /\ ~(records[k].log > base.log)
    BY <2>2 DEF IsNewer
  <2>4. LoadRecord(base.log, base, records[k]) = [base EXCEPT !.log = base.log]
    BY <2>3 DEF LoadRecord
  <2>5. [base EXCEPT !.log = base.log] = base
    BY DEF Loadables
  <2>6. QED
    BY <1>1, <2>1, <2>4, <2>5
<1> HIDE DEF T
<1>6. \A k \in 0 .. n : k \in T
  BY <1>1, <1>4, <1>5, CountUp
<1>7. n \in T
  BY <1>1, <1>6
<1>8. QED
  BY <1>2, <1>7 DEF T

(* A record that is appended is the last that is replayed. *)
LEMMA LoadAppend ==
  ASSUME NEW base \in Loadables, NEW records \in Seq(Records), NEW record \in Records
  PROVE  LoadJournal(base, Append(records, record))
           = LoadRecord(base.log, LoadJournal(base, records), record)
<1> DEFINE n == Len(records)
           longer == Append(records, record)
<1>1. /\ n \in Nat /\ longer \in Seq(Records)
      /\ Len(longer) = n + 1 /\ longer[n + 1] = record
      /\ \A j \in 1 .. n : longer[j] = records[j]
  BY AppendFacts
<1>2. PICK f : IsLoad(f, base, records, n) /\ LoadJournal(base, records) = f[n]
  BY <1>1, LoadRun
<1>3. PICK g : IsLoad(g, base, longer, n + 1) /\ LoadJournal(base, longer) = g[n + 1]
  <2>1. Len(longer) \in Nat
    BY <1>1
  <2>2. \E g : IsLoad(g, base, longer, Len(longer)) /\ LoadJournal(base, longer) = g[Len(longer)]
    BY ONLY <2>1, LoadRun
  <2>3. QED
    BY <1>1, <2>2
<1> HIDE DEF n, longer
<1> DEFINE T == {k \in 0 .. n : f[k] = g[k]}
<1>4. \A k \in 0 .. n : f[k] = IF k = 0 THEN base ELSE LoadRecord(base.log, f[k - 1], records[k])
  BY <1>2 DEF IsLoad
<1>5. \A k \in 0 .. n + 1 : g[k] = IF k = 0 THEN base ELSE LoadRecord(base.log, g[k - 1], longer[k])
  BY <1>3 DEF IsLoad
<1>6. 0 \in T
  BY <1>1, <1>4, <1>5
<1>7. ASSUME NEW k \in 1 .. n, k - 1 \in T PROVE k \in T
  <2>1. k \in 0 .. n /\ k \in 0 .. n + 1 /\ k # 0 /\ longer[k] = records[k]
    BY <1>1
  <2>2. f[k - 1] = g[k - 1]
    BY <1>7
  <2>3. QED
    BY <1>4, <1>5, <2>1, <2>2
<1> HIDE DEF T
<1>8. \A k \in 0 .. n : k \in T
  BY <1>1, <1>6, <1>7, CountUp
<1>9. f[n] = g[n]
  BY <1>1, <1>8 DEF T
<1>10. g[n + 1] = LoadRecord(base.log, g[n], record)
  <2>1. n + 1 \in 0 .. n + 1 /\ n + 1 # 0 /\ (n + 1) - 1 = n
    BY <1>1
  <2>2. QED
    BY <1>1, <1>5, <2>1
<1>11. QED
  BY <1>2, <1>3, <1>9, <1>10 DEF longer, n

(* A record beyond all that was loaded is replayed in full. *)
LEMMA LoadNext ==
  ASSUME NEW m \in Loadables, NEW record \in Records, NEW covered \in Nat,
         m.log >= covered, record.log = m.log + 1
  PROVE  LoadRecord(covered, m, record) = [ReplayRecord(m, record) EXCEPT !.log = record.log]
<1>1. m.log \in Nat /\ record.log > covered
  BY DEF Loadables
<1>2. IsNewer(covered, record)
  BY <1>1 DEF IsNewer
<1>3. ReplayRecord(m, record).log = m.log
  BY ReplayType
<1>4. record.log > ReplayRecord(m, record).log
  BY <1>1, <1>3
<1>5. QED
  BY <1>2, <1>4 DEF LoadRecord

-----------------------------------------------------------------------------
(* What the record of one transition does when it is replayed *)

\* The memory m after a transition of r with the given n events.
Moved(m, r, n, events) ==
  [m EXCEPT !.domain = m.domain \o events,
            !.sequence = m.sequence + Span(n),
            !.order = IF r = NoRequest THEN m.order
                      ELSE Retained(Append(m.order, [request |-> r,
                                                     sequence |-> m.sequence + 1]))]

\* record is that of such a transition.
Follows(record, m, r, n, events) ==
  /\ n # 0 \/ r # NoRequest
  /\ Len(events) = n
  /\ \A k \in 1 .. n : events[k].sequence = m.sequence + k
  /\ record.request = r /\ record.events = events /\ record.control = m.sequence + Span(n)

LEMMA ReplayEmitted ==
  ASSUME NEW m \in Loadables, NEW r \in Requests \cup {NoRequest}, NEW n \in Nat,
         NEW events \in Seq(Events), NEW record \in Records, Follows(record, m, r, n, events)
  PROVE  ReplayRecord(m, record) = Moved(m, r, n, events)
<1> USE DEF Follows
<1> DEFINE reduced == Reduced(m, record)
           order == IF r = NoRequest THEN m.order
                    ELSE Retained(Append(m.order, [request |-> r, sequence |-> m.sequence + 1]))
           upTo(k) == [m EXCEPT !.domain = m.domain \o events, !.sequence = m.sequence + k,
                                !.order = order]
<1>1. m.sequence \in Nat
  BY DEF Loadables
<1>2. reduced = [m EXCEPT !.domain = m.domain \o events]
  BY DEF Reduced
<1>3. /\ reduced \in Loadables
      /\ reduced.sequence = m.sequence /\ reduced.order = m.order
  BY <1>2, ReducedType DEF Loadables
<1>4. CoreReplay(reduced, m.sequence + 1, r) = upTo(1)
  <2>1. ~(m.sequence + 1 <= m.sequence)
    BY <1>1
  <2>2. CoreReplay(reduced, m.sequence + 1, r) =
          [reduced EXCEPT !.sequence = m.sequence + 1, !.order = order]
    BY <1>3, <2>1 DEF CoreReplay
  <2> HIDE DEF order
  <2>3. QED
    BY <1>2, <2>2 DEF Loadables
<1>5. ASSUME n = 0 PROVE ReplayRecord(m, record) = upTo(Span(n))
  <2>1. events = <<>> /\ Span(n) = 1 /\ r # NoRequest
    BY <1>5 DEF Span
  <2>2. ReplayRecord(m, record) = CoreReplay(reduced, m.sequence + 1, r)
    BY <2>1 DEF ReplayRecord, Reduced
  <2>3. QED
    BY <1>4, <2>1, <2>2
<1>6. ASSUME n # 0 PROVE ReplayRecord(m, record) = upTo(Span(n))
  <2>1. /\ record.events # <<>> /\ Len(record.events) = n /\ Span(n) = n
        /\ n \in Nat /\ n >= 1
    BY <1>6 DEF Span
  <2>2. PICK f : IsReplay(f, m, record, n) /\ ReplayRecord(m, record) = f[n]
    BY <2>1, ReplayRun
  <2>3. \A k \in 0 .. n : f[k] = IF k = 0 THEN reduced ELSE EventStep(f[k - 1], record, k)
    BY <2>2 DEF IsReplay
  <2>4. \A k \in 1 .. n : record.events[k].sequence = m.sequence + k
    OBVIOUS
  <2> HIDE DEF order, reduced
  <2> DEFINE T == {k \in 0 .. n - 1 : f[k + 1] = upTo(k + 1)}
  <2>5. f[1] = upTo(1)
    <3>1. 0 \in 0 .. n /\ 1 \in 0 .. n /\ 1 \in 1 .. n /\ 1 - 1 = 0 /\ 1 # 0
      BY <2>1
    <3>2. f[1] = EventStep(f[0], record, 1) /\ f[0] = reduced
      BY <2>3, <3>1
    <3>3. EventStep(reduced, record, 1) = CoreReplay(reduced, m.sequence + 1, r)
      BY <2>4, <3>1 DEF EventStep
    <3>4. QED
      BY <1>4, <3>2, <3>3
  <2>6. 0 \in T
    BY <2>1, <2>5
  <2>7. ASSUME NEW k \in 1 .. n - 1, k - 1 \in T PROVE k \in T
    <3>1. /\ k + 1 \in 0 .. n /\ k + 1 \in 1 .. n /\ k + 1 # 0 /\ k + 1 # 1
          /\ (k + 1) - 1 = k /\ (k - 1) + 1 = k /\ k \in 0 .. n - 1
      BY <2>1
    <3>2. f[k] = upTo(k)
      BY <2>7, <3>1
    <3>3. f[k + 1] = EventStep(f[k], record, k + 1)
      BY <2>3, <3>1
    <3>4. EventStep(f[k], record, k + 1) = CoreReplay(upTo(k), m.sequence + (k + 1), NoRequest)
      BY <2>4, <3>1, <3>2 DEF EventStep
    <3>5. upTo(k).sequence = m.sequence + k
      BY DEF Loadables
    <3>6. ~(m.sequence + (k + 1) <= m.sequence + k)
      BY <1>1, <2>1
    <3> HIDE DEF upTo
    <3>7. CoreReplay(upTo(k), m.sequence + (k + 1), NoRequest)
            = [upTo(k) EXCEPT !.sequence = m.sequence + (k + 1), !.order = upTo(k).order]
      BY <3>5, <3>6 DEF CoreReplay
    <3>8. [upTo(k) EXCEPT !.sequence = m.sequence + (k + 1), !.order = upTo(k).order] = upTo(k + 1)
      BY DEF upTo, Loadables
    <3>9. f[k + 1] = upTo(k + 1)
      BY <3>3, <3>4, <3>7, <3>8
    <3>10. QED
      BY <3>1, <3>9
  <2> HIDE DEF T
  <2>8. n - 1 \in Nat
    BY <2>1
  <2>9. \A k \in 0 .. n - 1 : k \in T
    BY <2>6, <2>7, <2>8, CountUp
  <2>10. n - 1 \in T
    BY <2>8, <2>9
  <2>11. f[n] = upTo(n)
    <3>1. (n - 1) + 1 = n
      BY <2>1
    <3> HIDE DEF upTo
    <3>2. f[(n - 1) + 1] = upTo((n - 1) + 1)
      BY <2>10 DEF T
    <3>3. QED
      BY <3>1, <3>2
  <2>12. QED
    BY <2>1, <2>2, <2>11 DEF order
<1>7. QED
  BY <1>5, <1>6 DEF Moved

-----------------------------------------------------------------------------
(* The window as the disk has it *)

EntryOf(x) == [request |-> x.request, sequence |-> x.sequence]

\* The last commands of log, as many as the window holds.
RecentOf(log) == [k \in 1 .. Recent(log) |-> EntryOf(log[Len(log) - Recent(log) + k])]

LEMMA RecentFacts ==
  ASSUME NEW log \in Seq(Applied)
  PROVE  /\ Recent(log) \in Nat /\ Recent(log) <= Window /\ Recent(log) <= Len(log)
         /\ Len(log) < Window => Recent(log) = Len(log)
         /\ Len(log) >= Window => Recent(log) = Window
         /\ \A k \in 1 .. Recent(log) : Len(log) - Recent(log) + k \in 1 .. Len(log)
         /\ RecentOf(log) \in Seq(Entries)
         /\ Len(RecentOf(log)) = Recent(log)
         /\ \A k \in 1 .. Recent(log) : RecentOf(log)[k] = EntryOf(log[Len(log) - Recent(log) + k])
<1> DEFINE n == Len(log)
           m == Recent(log)
<1>1. Window \in Nat \ {0} /\ n \in Nat
  BY CoreAssumption
<1>2. m = IF n < Window THEN n ELSE Window
  BY DEF Recent
<1>3. \A k \in 1 .. n : log[k] \in Applied
  OBVIOUS
<1> HIDE DEF n, m
<1>4. /\ m \in Nat /\ m <= Window /\ m <= n
      /\ n < Window => m = n
      /\ n >= Window => m = Window
      /\ \A k \in 1 .. m : n - m + k \in 1 .. n
  BY <1>1, <1>2
<1>5. \A k \in 1 .. m : EntryOf(log[n - m + k]) \in Entries
  BY <1>3, <1>4 DEF Applied, Entries, EntryOf
<1>6. RecentOf(log) = [k \in 1 .. m |-> EntryOf(log[n - m + k])]
  BY DEF RecentOf, n, m
<1>7. RecentOf(log) \in Seq(Entries) /\ Len(RecentOf(log)) = m
  BY <1>4, <1>5, <1>6
<1>8. QED
  BY <1>4, <1>6, <1>7 DEF n, m

LEMMA RecentAdvances ==
  ASSUME NEW log \in Seq(Applied), NEW entry \in Applied
  PROVE  Retained(Append(RecentOf(log), EntryOf(entry))) = RecentOf(Append(log, entry))
<1> DEFINE n == Len(log)
           m == Recent(log)
           log2 == Append(log, entry)
           m2 == Recent(log2)
           longer == Append(RecentOf(log), EntryOf(entry))
           left == Retained(longer)
           right == RecentOf(log2)
<1>1. Window \in Nat \ {0} /\ n \in Nat
  BY CoreAssumption
<1>2. log2 \in Seq(Applied) /\ Len(log2) = n + 1 /\ log2[n + 1] = entry
      /\ \A k \in 1 .. n : log2[k] = log[k]
  BY AppendFacts
<1>3. EntryOf(entry) \in Entries
  BY DEF EntryOf, Applied, Entries
<1>4. /\ m \in Nat /\ m <= Window /\ m <= n
      /\ n < Window => m = n
      /\ n >= Window => m = Window
      /\ RecentOf(log) \in Seq(Entries)
      /\ Len(RecentOf(log)) = m
      /\ \A k \in 1 .. m : n - m + k \in 1 .. n
      /\ \A k \in 1 .. m : RecentOf(log)[k] = EntryOf(log[n - m + k])
  BY RecentFacts
<1>5. /\ m2 \in Nat
      /\ n + 1 < Window => m2 = n + 1
      /\ n + 1 >= Window => m2 = Window
      /\ right \in Seq(Entries)
      /\ Len(right) = m2
      /\ \A k \in 1 .. m2 : right[k] = EntryOf(log2[n + 1 - m2 + k])
  <2>1. /\ m2 \in Nat
        /\ Len(log2) < Window => m2 = Len(log2)
        /\ Len(log2) >= Window => m2 = Window
        /\ right \in Seq(Entries)
        /\ Len(right) = m2
        /\ \A k \in 1 .. m2 : right[k] = EntryOf(log2[Len(log2) - m2 + k])
    BY <1>2, RecentFacts
  <2> HIDE DEF m2, right, log2, n
  <2>2. QED
    BY <1>1, <1>2, <2>1
<1>6. /\ longer \in Seq(Entries) /\ Len(longer) = m + 1
      /\ longer[m + 1] = EntryOf(entry)
      /\ \A k \in 1 .. m : longer[k] = RecentOf(log)[k]
  <2>1. /\ longer \in Seq(Entries)
        /\ Len(longer) = Len(RecentOf(log)) + 1
        /\ longer[Len(RecentOf(log)) + 1] = EntryOf(entry)
        /\ \A k \in 1 .. Len(RecentOf(log)) : longer[k] = RecentOf(log)[k]
    BY <1>3, <1>4, AppendFacts
  <2>2. QED
    BY <1>4, <2>1
<1>7. /\ left \in Seq(Entries)
      /\ Len(longer) <= Window => left = longer
      /\ Len(longer) = Window + 1 =>
           Len(left) = Window /\ \A k \in 1 .. Window : left[k] = longer[k + 1]
  BY <1>6, RetainedEntries
<1> HIDE DEF n, m, m2, log2, longer, left, right
<1>8. CASE n < Window
  <2>1. m = n /\ m2 = n + 1 /\ m + 1 <= Window
    BY ONLY <1>1, <1>4, <1>5, <1>8
  <2>2. left = longer
    BY <1>6, <1>7, <2>1
  <2>3. ASSUME NEW k \in 1 .. n + 1 PROVE left[k] = right[k]
    <3>1. n + 1 - m2 + k = k
      BY <1>1, <2>1
    <3>2. right[k] = EntryOf(log2[k])
      BY <1>5, <2>1, <3>1
    <3>3. CASE k = n + 1
      BY <1>2, <1>6, <2>1, <2>2, <3>2, <3>3
    <3>4. CASE k # n + 1
      <4>1. k \in 1 .. n /\ n - m + k = k
        BY <1>1, <2>1, <3>4
      <4>2. left[k] = EntryOf(log[k])
        BY <1>4, <1>6, <2>1, <2>2, <4>1
      <4>3. QED
        BY <1>2, <3>2, <4>1, <4>2
    <3>5. QED
      BY <3>3, <3>4
  <2>4. Len(left) = n + 1 /\ Len(right) = n + 1
    BY <1>5, <1>6, <2>1, <2>2
  <2>5. left = right
    BY <1>5, <1>7, <2>3, <2>4, SeqEqual
  <2>6. QED
    BY <2>5 DEF left, right, longer, log2
<1>9. CASE ~(n < Window)
  <2>1. m = Window /\ m2 = Window
    BY ONLY <1>1, <1>4, <1>5, <1>9
  <2>2. Len(left) = Window /\ \A k \in 1 .. Window : left[k] = longer[k + 1]
    BY <1>6, <1>7, <2>1
  <2>3. ASSUME NEW k \in 1 .. Window PROVE left[k] = right[k]
    <3>1. right[k] = EntryOf(log2[n + 1 - Window + k])
      BY <1>5, <2>1
    <3>2. CASE k = Window
      <4>1. n + 1 - Window + k = n + 1
        BY <1>1, <3>2
      <4>2. QED
        BY <1>2, <1>6, <2>1, <2>2, <3>1, <3>2, <4>1
    <3>3. CASE k # Window
      <4>1. k + 1 \in 1 .. m /\ n - m + (k + 1) = n + 1 - Window + k
        BY <1>1, <2>1, <3>3
      <4>2. left[k] = EntryOf(log[n + 1 - Window + k])
        BY <1>4, <1>6, <2>2, <4>1
      <4>3. n + 1 - Window + k \in 1 .. n
        BY <1>4, <4>1
      <4>4. QED
        BY <1>2, <3>1, <4>2, <4>3
    <3>4. QED
      BY <3>2, <3>3
  <2>4. Len(right) = Window
    BY <1>5, <2>1
  <2>5. left = right
    BY <1>5, <1>7, <2>2, <2>3, <2>4, SeqEqual
  <2>6. QED
    BY <2>5 DEF left, right, longer, log2
<1>10. QED
  BY <1>8, <1>9

-----------------------------------------------------------------------------
(* The inductive invariant *)

\* The memory a leader loads has all commands of log, told to clients as acc.
Faithful(memory, log, acc) ==
  /\ memory.order = RecentOf(log)
  /\ Once(log)
  /\ \A k \in 1 .. Len(log) : 0 < log[k].sequence /\ log[k].sequence <= memory.sequence
  /\ \A k \in 1 .. Len(log) : k + Window > Len(log) => acc[log[k].request] = log[k].sequence
  /\ \A r \in Requests : acc[r] <= memory.sequence

\* The name that the directory of s bears.
DiskName(s) == IF checkpoint[s] # NoCheckpoint THEN checkpoint[s].name ELSE manifest[s]

\* The leader has in memory what the next one would load of s.
Mirrors(s) ==
  /\ Recovered(s).sequence = sequence[s]
  /\ Recovered(s).domain = domain[s]
  /\ Recovered(s).log = logSequence[s]
  /\ Remembers(commitOrder[s], committed[s], applied[s])

WindowsFit == \A s \in Sessions : checkpoint[s] # NoCheckpoint => Len(checkpoint[s].order) <= Window

NeverIssued ==
  \A s \in Sessions \ issued :
    /\ sequence[s] = 0 /\ logSequence[s] = 0 /\ domain[s] = <<>> /\ journal[s] = <<>>
    /\ applied[s] = <<>> /\ commitOrder[s] = <<>>
    /\ \A r \in Requests : accepted[s][r] = 0 /\ committed[s][r] = 0
    /\ manifest[s] = NoName /\ checkpoint[s] = NoCheckpoint

OnDisk == \A s \in directory \ stopped : Faithful(Recovered(s), applied[s], accepted[s])
InMemory == \A s \in live \ stopped : Mirrors(s)
Serving == IF up THEN live = directory ELSE live = {}
Identified ==
  \A s \in live : checkpoint[s] # NoCheckpoint /\ checkpoint[s].name = name[s] /\ manifest[s] = name[s]
DiskNames ==
  \A s, t \in directory : HasSource(s) /\ HasSource(t) /\ DiskName(s) = DiskName(t) => s = t

(***************************************************************************)
(* OnDisk is about every session whose removal has not begun, also while   *)
(* no leader runs: it carries the window and the answers from one leader   *)
(* to the next.  InMemory is only about the sessions of a running leader.  *)
(* Identified keeps the manifest in step with the checkpoint, so that a    *)
(* removal cut short, which may leave only the manifest, leaves the name.  *)
(***************************************************************************)
HostInv ==
  /\ CoreInv
  /\ HostTypeOK
  /\ WindowsFit
  /\ NeverIssued
  /\ OnDisk
  /\ InMemory
  /\ Serving
  /\ Identified
  /\ DiskNames

LEMMA FreshType ==
  ASSUME NEW n \in Names \cup {NoName}
  PROVE  /\ Fresh(n) \in Loadables
         /\ n \in Names => Fresh(n) \in Memories
<1>1. <<>> \in Seq(Entries) /\ <<>> \in Seq(Events) /\ Len(<<>>) = 0 /\ 0 <= Window
  BY CoreAssumption
<1>2. QED
  BY <1>1 DEF Fresh, Loadables, Memories, Entries

LEMMA RestoredType ==
  ASSUME NEW m \in Memories, Len(m.order) <= Window
  PROVE  /\ m \in Loadables
         /\ Restored(m) \in Loadables
         /\ Restored(m) \in Memories
         /\ Restored(m).name = m.name /\ Restored(m).log = m.log
         /\ Restored(m).sequence = m.sequence /\ Restored(m).order = m.order
         /\ Restored(m).domain = m.domain
BY DEF Restored, Memories, Loadables, Entries

LEMMA RecoveredType ==
  ASSUME HostTypeOK, WindowsFit, NEW s \in Sessions
  PROVE  /\ BaseOf(s) \in Loadables
         /\ Recovered(s) \in Loadables
         /\ Recovered(s).name = DiskName(s)
         /\ Recovered(s).log >= BaseOf(s).log
         /\ \A j \in 1 .. Len(journal[s]) : journal[s][j].log <= Recovered(s).log
         /\ HasSource(s) => Recovered(s) \in Memories /\ DiskName(s) \in Names
<1>1. journal[s] \in Seq(Records) /\ manifest[s] \in Names \cup {NoName}
      /\ checkpoint[s] \in Memories \cup {NoCheckpoint}
  BY DEF HostTypeOK
<1>2. BaseOf(s) \in Loadables /\ BaseOf(s).name = DiskName(s)
  <2>1. CASE checkpoint[s] = NoCheckpoint
    <3>1. Fresh(manifest[s]) \in Loadables
      BY <1>1, FreshType
    <3>2. QED
      BY <2>1, <3>1 DEF BaseOf, DiskName, Fresh
  <2>2. CASE checkpoint[s] # NoCheckpoint
    <3>1. checkpoint[s] \in Memories /\ Len(checkpoint[s].order) <= Window
      BY <1>1, <2>2 DEF WindowsFit
    <3>2. Restored(checkpoint[s]) \in Loadables /\ Restored(checkpoint[s]).name = checkpoint[s].name
      BY <3>1, RestoredType
    <3>3. QED
      BY <2>2, <3>2 DEF BaseOf, DiskName
  <2>3. QED
    BY <2>1, <2>2
<1>3. /\ Recovered(s) \in Loadables
      /\ Recovered(s).name = BaseOf(s).name
      /\ Recovered(s).log >= BaseOf(s).log
      /\ \A j \in 1 .. Len(journal[s]) : journal[s][j].log <= Recovered(s).log
  BY <1>1, <1>2, LoadType DEF Recovered
<1>4. ASSUME HasSource(s) PROVE DiskName(s) \in Names
  BY <1>1, <1>4 DEF HasSource, DiskName, Memories
<1>5. ASSUME HasSource(s) PROVE Recovered(s) \in Memories
  <2>1. Recovered(s).name \in Names
    BY <1>2, <1>3, <1>4, <1>5
  <2>2. QED
    BY <1>3, <2>1 DEF Loadables, Memories, Entries
<1>6. QED
  BY <1>2, <1>3, <1>4, <1>5

(* What is loaded of a session depends on its three files only. *)
LEMMA RecoveredSame ==
  ASSUME NEW t \in Sessions,
         checkpoint'[t] = checkpoint[t], journal'[t] = journal[t],
         checkpoint[t] = NoCheckpoint => manifest'[t] = manifest[t]
  PROVE  /\ Recovered(t)' = Recovered(t)
         /\ DiskName(t)' = DiskName(t)
         /\ HasSource(t)' <=> HasSource(t)
<1>1. BaseOf(t)' = BaseOf(t)
  BY DEF BaseOf, Fresh, Restored
<1>2. Recovered(t)' = LoadJournal(BaseOf(t)', journal'[t])
  BY DEF Recovered, LoadJournal, LoadRecord, IsNewer, ReplayRecord, CoreReplay, Retained
<1>3. QED
  BY <1>1, <1>2 DEF Recovered, DiskName, HasSource

(* A checkpoint that covers the journal is what the next leader loads. *)
LEMMA RecoveredSaved ==
  ASSUME HostTypeOK, NEW s \in Sessions, NEW m \in Memories, Len(m.order) <= Window,
         checkpoint'[s] = m, journal'[s] = journal[s],
         \A j \in 1 .. Len(journal[s]) : journal[s][j].log <= m.log
  PROVE  Recovered(s)' = Restored(m) /\ DiskName(s)' = m.name /\ HasSource(s)'
<1>1. m # NoCheckpoint
  BY CheckpointAssumption
<1>2. BaseOf(s)' = Restored(m)
  BY <1>1 DEF BaseOf, Restored
<1>3. Recovered(s)' = LoadJournal(BaseOf(s)', journal'[s])
  BY DEF Recovered, LoadJournal, LoadRecord, IsNewer, ReplayRecord, CoreReplay, Retained
<1>4. Restored(m) \in Loadables /\ Restored(m).log = m.log
  BY RestoredType
<1>5. journal[s] \in Seq(Records)
  BY DEF HostTypeOK
<1>6. LoadJournal(Restored(m), journal[s]) = Restored(m)
  BY <1>4, <1>5, LoadCovered
<1>7. QED
  BY <1>1, <1>2, <1>3, <1>6 DEF DiskName, HasSource

-----------------------------------------------------------------------------
(* Steps that end a leader *)

LEMMA LoseMemoryKeeps ==
  ASSUME HostInv, LoseMemory, issued' \in SUBSET Sessions
  PROVE  CoreInv' /\ InMemory' /\ Identified' /\ up' = FALSE /\ live' = {}
<1> USE DEF LoseMemory, logVars
<1>1. TypeOK'
  <2>1. NoLease \in Lease
    BY NoLeaseType
  <2>2. TypeOK
    BY DEF HostInv, CoreInv
  <2>3. live' \in SUBSET issued'
    OBVIOUS
  <2>4. QED
    BY <2>1, <2>2, <2>3, CoreAssumption DEF TypeOK
<1>2. SubscriptionsAgree'
  BY CoreAssumption DEF SubscriptionsAgree
<1>3. NamesAgree'
  BY DEF NamesAgree
<1>4. DriverIsAttached' /\ LeaseIsCurrent'
  BY DEF DriverIsAttached, LeaseIsCurrent, NoLease
<1>5. QED
  BY <1>1, <1>2, <1>3, <1>4 DEF CoreInv, InMemory, Identified

LEMMA FaithfulSame ==
  ASSUME NEW t \in Sessions, Faithful(Recovered(t), applied[t], accepted[t]),
         manifest'[t] = manifest[t], checkpoint'[t] = checkpoint[t], journal'[t] = journal[t],
         applied'[t] = applied[t], accepted'[t] = accepted[t]
  PROVE  Faithful(Recovered(t)', applied'[t], accepted'[t])
BY RecoveredSame

LEMMA DownKeeps ==
  ASSUME HostInv, LoseMemory, issued' \in SUBSET Sessions, issued \subseteq issued',
         directory' \in SUBSET issued', stopped' \in SUBSET issued',
         manifest' \in [Sessions -> Names \cup {NoName}],
         checkpoint' \in [Sessions -> Memories \cup {NoCheckpoint}],
         journal' \in [Sessions -> Seq(Records)],
         \A s \in Sessions \ issued' : /\ manifest'[s] = manifest[s]
                                       /\ checkpoint'[s] = checkpoint[s]
                                       /\ journal'[s] = journal[s],
         WindowsFit', OnDisk', DiskNames'
  PROVE  HostInv'
<1>1. CoreInv' /\ InMemory' /\ Identified' /\ up' = FALSE /\ live' = {}
  BY LoseMemoryKeeps
<1>2. HostTypeOK'
  BY <1>1 DEF HostInv, HostTypeOK, LoseMemory, CoreInv
<1>3. NeverIssued'
  BY DEF NeverIssued, HostInv, LoseMemory, logVars
<1>4. Serving'
  BY <1>1 DEF Serving
<1>5. QED
  BY <1>1, <1>2, <1>3, <1>4 DEF HostInv

LEMMA CrashKeeps == ASSUME HostInv, Crash PROVE HostInv'
<1>1. /\ issued' = issued /\ directory' = directory /\ stopped' = stopped
      /\ manifest' = manifest /\ checkpoint' = checkpoint /\ journal' = journal
      /\ applied' = applied /\ accepted' = accepted /\ LoseMemory
  BY DEF Crash, diskVars, LoseMemory, logVars
<1>2. OnDisk'
  <2>1. ASSUME NEW s \in directory \ stopped
        PROVE  Faithful(Recovered(s)', applied'[s], accepted'[s])
    <3>1. s \in Sessions /\ Faithful(Recovered(s), applied[s], accepted[s])
      BY DEF HostInv, OnDisk, HostTypeOK, TypeOK
    <3>2. QED
      BY <1>1, <3>1, FaithfulSame
  <2>2. QED
    BY <1>1, <2>1 DEF OnDisk
<1>3. DiskNames'
  BY <1>1 DEF HostInv, DiskNames, HasSource, DiskName
<1>4. WindowsFit'
  BY <1>1 DEF HostInv, WindowsFit
<1>5. QED
  BY <1>1, <1>2, <1>3, <1>4, DownKeeps DEF HostInv, HostTypeOK, TypeOK

(* A memory with the order and the sequence of a faithful one is faithful. *)
LEMMA FaithfulLike ==
  ASSUME NEW m, NEW m2, NEW log, NEW acc, Faithful(m, log, acc),
         m2.order = m.order, m2.sequence = m.sequence
  PROVE  Faithful(m2, log, acc)
BY DEF Faithful

LEMMA FreshFaithful ==
  ASSUME NEW n, NEW acc, \A r \in Requests : acc[r] = 0
  PROVE  Faithful(Fresh(n), <<>>, acc) /\ Faithful(Restored(Fresh(n)), <<>>, acc)
<1>1. Len(<<>>) = 0 /\ Recent(<<>>) = 0
  BY CoreAssumption DEF Recent
<1>2. RecentOf(<<>>) = <<>>
  BY <1>1 DEF RecentOf
<1>3. Faithful(Fresh(n), <<>>, acc)
  BY <1>1, <1>2 DEF Faithful, Once, Fresh
<1>4. Restored(Fresh(n)).order = Fresh(n).order /\ Restored(Fresh(n)).sequence = Fresh(n).sequence
  BY DEF Restored, Fresh
<1>5. QED
  BY <1>3, <1>4, FaithfulLike

LEMMA DiskNamesSame ==
  ASSUME DiskNames, directory' \subseteq directory,
         \A t \in directory' : HasSource(t)' => HasSource(t) /\ DiskName(t)' = DiskName(t)
  PROVE  DiskNames'
BY DEF DiskNames

(* While a leader serves, its directories bear the names it knows. *)
LEMMA ServedNames ==
  ASSUME HostInv, up, NEW t \in directory
  PROVE  /\ t \in live /\ t \in Sessions
         /\ DiskName(t) = name[t] /\ name[t] \in Names /\ names[name[t]] = t
         /\ checkpoint[t] # NoCheckpoint /\ manifest[t] = name[t]
<1>1. t \in live /\ t \in Sessions
  BY DEF HostInv, Serving, HostTypeOK, TypeOK
<1>2. name[t] \in Names /\ names[name[t]] = t
  BY <1>1 DEF HostInv, CoreInv, NamesAgree, TypeOK
<1>3. QED
  BY <1>1, <1>2 DEF HostInv, Identified, DiskName

(* What is loaded does not depend on the manifest when there is a checkpoint. *)
LEMMA RecoveredByCheckpoint ==
  ASSUME NEW t \in Sessions, checkpoint[t] # NoCheckpoint,
         checkpoint'[t] = checkpoint[t], journal'[t] = journal[t]
  PROVE  Recovered(t)' = Recovered(t) /\ DiskName(t)' = DiskName(t)
<1>1. BaseOf(t)' = BaseOf(t)
  BY DEF BaseOf, Fresh, Restored
<1>2. Recovered(t)' = LoadJournal(BaseOf(t)', journal'[t])
  BY DEF Recovered, LoadJournal, LoadRecord, IsNewer, ReplayRecord, CoreReplay, Retained
<1>3. QED
  BY <1>1, <1>2 DEF Recovered, DiskName

(* A directory without checkpoint and journal is loaded as a fresh session. *)
LEMMA RecoveredFresh ==
  ASSUME HostTypeOK', NEW s \in Sessions, checkpoint'[s] = NoCheckpoint, journal'[s] = <<>>
  PROVE  Recovered(s)' = Fresh(manifest'[s]) /\ DiskName(s)' = manifest'[s]
<1>1. BaseOf(s)' = Fresh(manifest'[s])
  BY DEF BaseOf, Fresh
<1>2. Recovered(s)' = LoadJournal(BaseOf(s)', journal'[s])
  BY DEF Recovered, LoadJournal, LoadRecord, IsNewer, ReplayRecord, CoreReplay, Retained
<1>3. Fresh(manifest'[s]) \in Loadables
  BY FreshType DEF HostTypeOK
<1>4. journal'[s] \in Seq(Records) /\ Len(journal'[s]) = 0
  OBVIOUS
<1>5. \A j \in 1 .. Len(journal'[s]) : journal'[s][j].log <= Fresh(manifest'[s]).log
  BY <1>4
<1>6. LoadJournal(Fresh(manifest'[s]), journal'[s]) = Fresh(manifest'[s])
  BY ONLY <1>3, <1>4, <1>5, LoadCovered
<1>7. QED
  BY <1>1, <1>2, <1>6 DEF DiskName

LEMMA CutCreateKeeps ==
  ASSUME HostInv, NEW s \in Sessions, NEW raw \in RawNames, CutCreate(s, raw)
  PROVE  HostInv'
<1> DEFINE n == Normal[raw]
<1>1. /\ up /\ s \notin issued /\ n \in Names /\ names[n] = NoSession
      /\ issued' = issued \cup {s} /\ directory' = directory \cup {s} /\ stopped' = stopped
      /\ manifest' = manifest \/ manifest' = [manifest EXCEPT ![s] = n]
      /\ checkpoint' = checkpoint /\ journal' = journal
      /\ applied' = applied /\ accepted' = accepted /\ LoseMemory
  BY CoreAssumption DEF CutCreate, WriteManifest, LoseMemory, logVars
<1>2. /\ manifest' \in [Sessions -> Names \cup {NoName}]
      /\ manifest'[s] \in {NoName, n}
      /\ \A t \in Sessions \ {s} : manifest'[t] = manifest[t]
      /\ checkpoint[s] = NoCheckpoint /\ journal[s] = <<>>
      /\ applied[s] = <<>> /\ \A r \in Requests : accepted[s][r] = 0
  BY <1>1 DEF HostInv, HostTypeOK, NeverIssued
<1> HIDE DEF n
<1>3. \A t \in directory : t \in Sessions /\ t \in issued /\ t # s
  BY <1>1 DEF HostInv, HostTypeOK, TypeOK
<1>4. \A t \in Sessions \ {s} : /\ DiskName(t)' = DiskName(t)
                                /\ HasSource(t)' <=> HasSource(t)
                                /\ Recovered(t)' = Recovered(t)
  BY <1>1, <1>2, RecoveredSame
<1>5. Recovered(s)' = Fresh(manifest'[s]) /\ DiskName(s)' = manifest'[s]
  <2>1. HostTypeOK'
    <3>1. CoreInv'
      BY <1>1, LoseMemoryKeeps DEF HostInv, CoreInv, TypeOK
    <3>2. QED
      BY <1>1, <1>2, <3>1 DEF HostInv, HostTypeOK, LoseMemory, CoreInv
  <2>2. checkpoint'[s] = NoCheckpoint /\ journal'[s] = <<>>
    BY <1>1, <1>2
  <2>3. QED
    BY ONLY <2>1, <2>2, RecoveredFresh, s \in Sessions
<1>6. OnDisk'
  <2>1. ASSUME NEW t \in directory' \ stopped'
        PROVE  Faithful(Recovered(t)', applied'[t], accepted'[t])
    <3>1. CASE t = s
      BY <1>1, <1>2, <1>5, <3>1, FreshFaithful
    <3>2. CASE t # s
      <4>1. t \in Sessions /\ Faithful(Recovered(t), applied[t], accepted[t])
        BY <1>1, <1>3, <2>1, <3>2 DEF HostInv, OnDisk
      <4>2. QED
        BY <1>1, <1>4, <3>2, <4>1
    <3>3. QED
      BY <3>1, <3>2
  <2>2. QED
    BY <2>1 DEF OnDisk
<1>7. ASSUME NEW t \in directory, HasSource(s)', DiskName(s)' = DiskName(t)' PROVE FALSE
  <2>1. DiskName(s)' = n
    BY <1>1, <1>2, <1>5, <1>7, CoreAssumption DEF HasSource
  <2>2. DiskName(t)' = name[t] /\ names[name[t]] = t /\ t \in Sessions
    BY <1>1, <1>3, <1>4, ServedNames
  <2>3. QED
    BY <1>1, <1>7, <2>1, <2>2, CoreAssumption
<1>8. DiskNames'
  <2>1. SUFFICES ASSUME NEW t \in directory', NEW u \in directory',
                        HasSource(t)', HasSource(u)', DiskName(t)' = DiskName(u)'
                 PROVE  t = u
    BY DEF DiskNames
  <2>2. CASE t # s /\ u # s
    BY <1>1, <1>3, <1>4, <2>1, <2>2 DEF HostInv, DiskNames
  <2>3. QED
    BY <1>1, <1>7, <2>1, <2>2
<1>9. WindowsFit'
  BY <1>1 DEF HostInv, WindowsFit
<1>10. QED
  BY <1>1, <1>2, <1>6, <1>8, <1>9, DownKeeps DEF HostInv, HostTypeOK, TypeOK

LEMMA CutRenameKeeps ==
  ASSUME HostInv, NEW s \in Sessions, NEW raw \in RawNames, CutRename(s, raw)
  PROVE  HostInv'
<1>1. /\ up /\ s \in live /\ Normal[raw] \in Names /\ LoseMemory
      /\ issued' = issued /\ directory' = directory /\ stopped' = stopped
      /\ manifest' = [manifest EXCEPT ![s] = Normal[raw]]
      /\ checkpoint' = checkpoint /\ journal' = journal
      /\ applied' = applied /\ accepted' = accepted
  BY CoreAssumption DEF CutRename, WriteManifest, LoseMemory, logVars
<1>2. /\ manifest' \in [Sessions -> Names \cup {NoName}]
      /\ \A t \in Sessions \ {s} : manifest'[t] = manifest[t]
      /\ s \in issued /\ s \in directory
  BY <1>1 DEF HostInv, HostTypeOK, TypeOK, Serving
<1>3. checkpoint[s] # NoCheckpoint
  BY <1>1, <1>2, ServedNames
<1>4. \A t \in Sessions : /\ Recovered(t)' = Recovered(t)
                          /\ DiskName(t)' = DiskName(t)
                          /\ HasSource(t)' <=> HasSource(t)
  <2>1. ASSUME NEW t \in Sessions
        PROVE  /\ Recovered(t)' = Recovered(t)
               /\ DiskName(t)' = DiskName(t)
               /\ HasSource(t)' <=> HasSource(t)
    <3>1. CASE t = s
      <4>1. Recovered(t)' = Recovered(t) /\ DiskName(t)' = DiskName(t)
        BY <1>1, <1>3, <3>1, RecoveredByCheckpoint
      <4>2. QED
        BY <1>1, <1>3, <3>1, <4>1 DEF HasSource
    <3>2. CASE t # s
      BY <1>1, <1>2, <3>2, RecoveredSame
    <3>3. QED
      BY <3>1, <3>2
  <2>2. QED
    BY <2>1
<1>5. OnDisk'
  BY <1>1, <1>4 DEF HostInv, OnDisk, HostTypeOK, TypeOK
<1>6. DiskNames'
  BY <1>1, <1>4, DiskNamesSame DEF HostInv, HostTypeOK, TypeOK
<1>7. WindowsFit'
  BY <1>1 DEF HostInv, WindowsFit
<1>8. QED
  BY <1>1, <1>2, <1>5, <1>6, <1>7, DownKeeps DEF HostInv, HostTypeOK, TypeOK

LEMMA CutStopKeeps == ASSUME HostInv, NEW s \in Sessions, CutStop(s) PROVE HostInv'
<1>1. /\ up /\ s \in live /\ LoseMemory
      /\ issued' = issued /\ directory' = directory /\ stopped' = stopped \cup {s}
      /\ manifest' = manifest \/ manifest' = [manifest EXCEPT ![s] = NoName]
      /\ checkpoint' = checkpoint \/ checkpoint' = [checkpoint EXCEPT ![s] = NoCheckpoint]
      /\ journal' = journal \/ journal' = [journal EXCEPT ![s] = <<>>]
      /\ applied' = applied /\ accepted' = accepted
  BY DEF CutStop, WriteManifest, WriteCheckpoint, LoseMemory, logVars
<1>2. s \in issued /\ s \in directory
  BY <1>1 DEF HostInv, TypeOK, HostTypeOK, Serving
<1>3. /\ manifest' \in [Sessions -> Names \cup {NoName}] /\ manifest'[s] \in {manifest[s], NoName}
      /\ checkpoint' \in [Sessions -> Memories \cup {NoCheckpoint}]
      /\ checkpoint'[s] \in {checkpoint[s], NoCheckpoint}
      /\ journal' \in [Sessions -> Seq(Records)]
      /\ \A t \in Sessions \ {s} : /\ manifest'[t] = manifest[t]
                                   /\ checkpoint'[t] = checkpoint[t]
                                   /\ journal'[t] = journal[t]
  <2>1. /\ manifest \in [Sessions -> Names \cup {NoName}]
        /\ checkpoint \in [Sessions -> Memories \cup {NoCheckpoint}]
        /\ journal \in [Sessions -> Seq(Records)]
    BY DEF HostInv, HostTypeOK
  <2>2. <<>> \in Seq(Records)
    OBVIOUS
  <2>3. QED
    BY <1>1, <2>1, <2>2
<1>4. \A t \in Sessions \ {s} : /\ Recovered(t)' = Recovered(t)
                                /\ DiskName(t)' = DiskName(t)
                                /\ HasSource(t)' <=> HasSource(t)
  BY <1>3, RecoveredSame
<1>5. OnDisk'
  BY <1>1, <1>4 DEF HostInv, OnDisk, HostTypeOK, TypeOK
<1>6. DiskNames'
  <2>1. HasSource(s) /\ (HasSource(s)' => DiskName(s)' = DiskName(s))
    <3>1. /\ checkpoint[s] # NoCheckpoint /\ checkpoint[s].name = name[s]
          /\ manifest[s] = name[s]
      BY <1>1 DEF HostInv, Identified
    <3>2. QED
      BY <1>3, <3>1 DEF HasSource, DiskName
  <2>2. QED
    BY <1>1, <1>4, <2>1, DiskNamesSame DEF HostInv, HostTypeOK, TypeOK
<1>7. WindowsFit'
  BY <1>3 DEF HostInv, WindowsFit
<1>8. QED
  BY <1>1, <1>2, <1>3, <1>5, <1>6, <1>7, DownKeeps DEF HostInv, HostTypeOK, TypeOK

(* What persist_checkpoint writes is a checkpoint, and of a session whose    *)
(* removal has not begun it is what the next leader would load anyway.       *)
LEMMA MemoryType ==
  ASSUME HostInv, NEW s \in Sessions, NEW n \in Names
  PROVE  /\ MemoryOf(s, n) \in Memories
         /\ MemoryOf(s, n).name = n
         /\ Len(MemoryOf(s, n).order) <= Window
<1> DEFINE order == [k \in DOMAIN commitOrder[s] |->
                       [request |-> commitOrder[s][k],
                        sequence |-> committed[s][commitOrder[s][k]]]]
<1>1. /\ commitOrder[s] \in Seq(Requests) /\ Len(commitOrder[s]) <= Window
      /\ committed[s] \in [Requests -> Nat]
      /\ sequence[s] \in Nat /\ leaseEpoch[s] \in Nat
      /\ domain[s] \in Seq(Events) /\ logSequence[s] \in Nat
  BY DEF HostInv, HostTypeOK, TypeOK
<1>2. order \in Seq([request : Requests, sequence : Nat]) /\ Len(order) = Len(commitOrder[s])
  <2>1. DOMAIN commitOrder[s] = 1 .. Len(commitOrder[s]) /\ Len(commitOrder[s]) \in Nat
    BY <1>1
  <2>2. \A k \in 1 .. Len(commitOrder[s]) :
          [request |-> commitOrder[s][k], sequence |-> committed[s][commitOrder[s][k]]]
            \in [request : Requests, sequence : Nat]
    BY <1>1
  <2>3. QED
    BY <2>1, <2>2
<1>3. MemoryOf(s, n) = [name |-> n, sequence |-> sequence[s], leaseEpoch |-> leaseEpoch[s],
                        order |-> order, domain |-> domain[s], log |-> logSequence[s]]
  BY DEF MemoryOf
<1> HIDE DEF order
<1>4. QED
  BY <1>1, <1>2, <1>3 DEF Memories

LEMMA MemoryIsLoaded ==
  ASSUME HostInv, up, NEW s \in live \ stopped, NEW n
  PROVE  /\ MemoryOf(s, n).order = Recovered(s).order
         /\ MemoryOf(s, n).sequence = Recovered(s).sequence
         /\ MemoryOf(s, n).domain = Recovered(s).domain
         /\ MemoryOf(s, n).log = Recovered(s).log
         /\ Faithful(Recovered(s), applied[s], accepted[s])
<1>1. s \in Sessions /\ s \in directory \ stopped
  BY DEF HostInv, TypeOK, HostTypeOK, Serving
<1>2. /\ Recovered(s).sequence = sequence[s] /\ Recovered(s).domain = domain[s]
      /\ Recovered(s).log = logSequence[s]
      /\ Remembers(commitOrder[s], committed[s], applied[s])
  BY DEF HostInv, InMemory, Mirrors
<1>3. Faithful(Recovered(s), applied[s], accepted[s])
  BY <1>1 DEF HostInv, OnDisk
<1>4. MemoryOf(s, n).order = RecentOf(applied[s])
  <2>1. commitOrder[s] \in Seq(Requests) /\ Len(commitOrder[s]) = Recent(applied[s])
    BY <1>1, <1>2 DEF HostInv, HostTypeOK, TypeOK, Remembers
  <2>2. DOMAIN commitOrder[s] = 1 .. Recent(applied[s])
    BY <2>1
  <2>3. \A k \in 1 .. Recent(applied[s]) :
          [request |-> commitOrder[s][k], sequence |-> committed[s][commitOrder[s][k]]]
            = EntryOf(applied[s][Len(applied[s]) - Recent(applied[s]) + k])
    BY <1>2 DEF Remembers, EntryOf
  <2>4. MemoryOf(s, n).order
          = [k \in 1 .. Recent(applied[s]) |->
               [request |-> commitOrder[s][k], sequence |-> committed[s][commitOrder[s][k]]]]
    BY <2>2 DEF MemoryOf
  <2>5. QED
    BY <2>3, <2>4 DEF RecentOf
<1>5. Recovered(s).order = RecentOf(applied[s])
  BY <1>3 DEF Faithful
<1>6. QED
  BY <1>2, <1>3, <1>4, <1>5 DEF MemoryOf

(* A session whose checkpoint is refreshed from memory, or under a new name. *)
LEMMA SavedKeeps ==
  ASSUME HostInv, up, NEW s \in live, NEW n \in Names,
         checkpoint'[s] = MemoryOf(s, n), journal'[s] = journal[s]
  PROVE  /\ DiskName(s)' = n /\ HasSource(s)'
         /\ s \notin stopped => /\ Recovered(s)' = Restored(MemoryOf(s, n))
                                /\ Faithful(Recovered(s)', applied[s], accepted[s])
<1>1. s \in Sessions
  BY DEF HostInv, HostTypeOK, TypeOK
<1>2. /\ MemoryOf(s, n) \in Memories /\ MemoryOf(s, n).name = n
      /\ Len(MemoryOf(s, n).order) <= Window
  BY <1>1, MemoryType
<1>3. DiskName(s)' = n /\ HasSource(s)'
  BY <1>2, CheckpointAssumption DEF DiskName, HasSource
<1>4. ASSUME s \notin stopped
      PROVE  /\ Recovered(s)' = Restored(MemoryOf(s, n))
             /\ Faithful(Recovered(s)', applied[s], accepted[s])
  <2>1. /\ MemoryOf(s, n).order = Recovered(s).order
        /\ MemoryOf(s, n).sequence = Recovered(s).sequence
        /\ MemoryOf(s, n).log = Recovered(s).log
        /\ Faithful(Recovered(s), applied[s], accepted[s])
    BY <1>4, MemoryIsLoaded
  <2>2. \A j \in 1 .. Len(journal[s]) : journal[s][j].log <= Recovered(s).log
    BY <1>1, RecoveredType DEF HostInv
  <2>3. HostTypeOK
    BY DEF HostInv
  <2>4. \A j \in 1 .. Len(journal[s]) : journal[s][j].log <= MemoryOf(s, n).log
    BY <2>1, <2>2
  <2>5. Recovered(s)' = Restored(MemoryOf(s, n))
    BY <1>1, <1>2, <2>3, <2>4, RecoveredSaved
  <2>6. /\ Recovered(s)'.order = Recovered(s).order
        /\ Recovered(s)'.sequence = Recovered(s).sequence
    BY <1>2, <2>1, <2>5, RestoredType
  <2>7. QED
    BY <2>1, <2>5, <2>6, FaithfulLike
<1>5. QED
  BY <1>3, <1>4

LEMMA ShutdownKeeps ==
  ASSUME HostInv, NEW saved \in SUBSET Sessions, Shutdown(saved)
  PROVE  HostInv'
<1>1. /\ up /\ saved \subseteq live /\ LoseMemory
      /\ issued' = issued /\ directory' = directory /\ stopped' = stopped
      /\ manifest' = manifest /\ journal' = journal
      /\ checkpoint' = [s \in Sessions |-> IF s \in saved THEN MemoryOf(s, name[s])
                                           ELSE checkpoint[s]]
      /\ applied' = applied /\ accepted' = accepted
  BY DEF Shutdown, LoseMemory, logVars
<1>2. live = directory /\ live \subseteq Sessions /\ live \subseteq issued
  BY <1>1 DEF HostInv, HostTypeOK, Serving, TypeOK
<1>3. ASSUME NEW t \in saved
      PROVE  /\ name[t] \in Names /\ DiskName(t) = name[t]
             /\ checkpoint'[t] = MemoryOf(t, name[t]) /\ HasSource(t)
  <2>1. t \in Sessions
    BY <1>1, <1>2
  <2>2. name[t] \in Names /\ DiskName(t) = name[t] /\ checkpoint[t] # NoCheckpoint
    BY <1>1, <1>2, <1>3, ServedNames
  <2>3. QED
    BY <1>1, <1>3, <2>1, <2>2 DEF HasSource
<1>4. ASSUME NEW t \in Sessions \ saved
      PROVE  /\ checkpoint'[t] = checkpoint[t]
             /\ Recovered(t)' = Recovered(t) /\ DiskName(t)' = DiskName(t)
             /\ HasSource(t)' <=> HasSource(t)
  BY <1>1, RecoveredSame
<1>5. ASSUME NEW t \in saved
      PROVE  /\ DiskName(t)' = name[t] /\ HasSource(t)'
             /\ t \notin stopped => Faithful(Recovered(t)', applied[t], accepted[t])
  BY <1>1, <1>3, SavedKeeps
<1>6. OnDisk'
  BY <1>1, <1>2, <1>4, <1>5 DEF HostInv, OnDisk, HostTypeOK, TypeOK
<1>7. DiskNames'
  <2>1. \A t \in directory : HasSource(t)' => HasSource(t) /\ DiskName(t)' = DiskName(t)
    BY <1>2, <1>3, <1>4, <1>5
  <2>2. QED
    BY <1>1, <2>1, DiskNamesSame DEF HostInv
<1>8. WindowsFit' /\ checkpoint' \in [Sessions -> Memories \cup {NoCheckpoint}]
  <2>1. ASSUME NEW t \in Sessions
        PROVE  /\ checkpoint'[t] \in Memories \cup {NoCheckpoint}
               /\ checkpoint'[t] # NoCheckpoint => Len(checkpoint'[t].order) <= Window
    <3>1. CASE t \in saved
      BY <1>3, <3>1, MemoryType
    <3>2. CASE t \notin saved
      BY <1>4, <3>2 DEF HostInv, HostTypeOK, WindowsFit
    <3>3. QED
      BY <3>1, <3>2
  <2>2. checkpoint' = [t \in Sessions |-> checkpoint'[t]]
    BY <1>1
  <2>3. QED
    BY <2>1, <2>2 DEF WindowsFit
<1>9. QED
  BY <1>1, <1>2, <1>4, <1>6, <1>7, <1>8, DownKeeps DEF HostInv, HostTypeOK, TypeOK

-----------------------------------------------------------------------------
(* Steps of a running leader.  Each touches the files and the record of one  *)
(* session, or of none.                                                      *)

SameSession(t) ==
  /\ manifest'[t] = manifest[t] /\ checkpoint'[t] = checkpoint[t] /\ journal'[t] = journal[t]
  /\ sequence'[t] = sequence[t] /\ domain'[t] = domain[t] /\ logSequence'[t] = logSequence[t]
  /\ commitOrder'[t] = commitOrder[t] /\ committed'[t] = committed[t]
  /\ applied'[t] = applied[t] /\ accepted'[t] = accepted[t]

LEMMA SameSessionKeeps ==
  ASSUME NEW t \in Sessions, SameSession(t)
  PROVE  /\ Recovered(t)' = Recovered(t)
         /\ DiskName(t)' = DiskName(t)
         /\ HasSource(t)' <=> HasSource(t)
         /\ Mirrors(t) => Mirrors(t)'
<1>1. /\ Recovered(t)' = Recovered(t)
      /\ DiskName(t)' = DiskName(t)
      /\ HasSource(t)' <=> HasSource(t)
  BY RecoveredSame DEF SameSession
<1>2. ASSUME Mirrors(t) PROVE Mirrors(t)'
  BY <1>1, <1>2 DEF SameSession, Mirrors
<1>3. QED
  BY <1>1, <1>2

LEMMA OneSessionKeeps ==
  ASSUME HostInv, NEW s \in Sessions, \A t \in Sessions \ {s} : SameSession(t),
         CoreInv', HostTypeOK', issued \subseteq issued', s \in issued',
         directory' \subseteq directory \cup {s}, live' \subseteq live \cup {s},
         stopped \subseteq stopped', \A t \in live' \ {s} : name'[t] = name[t],
         s \in directory' \ stopped' => Faithful(Recovered(s)', applied'[s], accepted'[s]),
         s \in live' \ stopped' => Mirrors(s)',
         s \in live' => /\ checkpoint'[s] # NoCheckpoint /\ checkpoint'[s].name = name'[s]
                        /\ manifest'[s] = name'[s],
         checkpoint'[s] # NoCheckpoint => Len(checkpoint'[s].order) <= Window,
         Serving', DiskNames'
  PROVE  HostInv'
<1>1. WindowsFit'
  BY DEF WindowsFit, HostInv, SameSession
<1>2. NeverIssued'
  BY DEF NeverIssued, HostInv, SameSession
<1>3. OnDisk'
  <2>1. ASSUME NEW t \in directory' \ stopped', t # s
        PROVE  Faithful(Recovered(t)', applied'[t], accepted'[t])
    <3>1. t \in Sessions /\ t \in directory \ stopped /\ SameSession(t)
      BY <2>1 DEF HostInv, HostTypeOK, TypeOK
    <3>2. Faithful(Recovered(t), applied[t], accepted[t])
      BY <3>1 DEF HostInv, OnDisk
    <3>3. Recovered(t)' = Recovered(t) /\ applied'[t] = applied[t] /\ accepted'[t] = accepted[t]
      BY <3>1, SameSessionKeeps DEF SameSession
    <3>4. QED
      BY <3>2, <3>3
  <2>2. QED
    BY <2>1 DEF OnDisk
<1>4. InMemory'
  <2>1. ASSUME NEW t \in live' \ stopped', t # s PROVE Mirrors(t)'
    <3>1. t \in Sessions /\ t \in live \ stopped /\ SameSession(t)
      BY <2>1 DEF HostInv, HostTypeOK, TypeOK
    <3>2. Mirrors(t)
      BY <3>1 DEF HostInv, InMemory
    <3>3. QED
      BY <3>1, <3>2, SameSessionKeeps
  <2>2. QED
    BY <2>1 DEF InMemory
<1>5. Identified'
  <2>1. ASSUME NEW t \in live', t # s
        PROVE  /\ checkpoint'[t] # NoCheckpoint /\ checkpoint'[t].name = name'[t]
               /\ manifest'[t] = name'[t]
    <3>1. t \in Sessions /\ t \in live /\ SameSession(t) /\ name'[t] = name[t]
      BY <2>1 DEF HostInv, HostTypeOK, TypeOK
    <3>2. QED
      BY <3>1 DEF HostInv, Identified, SameSession
  <2>2. QED
    BY <2>1 DEF Identified
<1>6. QED
  BY <1>1, <1>2, <1>3, <1>4, <1>5 DEF HostInv

LEMMA ControlKeeps == ASSUME HostInv, Control PROVE HostInv'
<1>1. UNCHANGED <<nameVars, logVars, hostVars>>
  BY DEF Control, Connect, Disconnect, AttachViewer, AttachDriver, Detach, ReleaseDriver
<1>2. CoreInv'
  <2>1. Next
    BY DEF Control, Next
  <2>2. QED
    BY <2>1, CoreInductive DEF HostInv
<1>3. /\ issued' = issued /\ live' = live /\ name' = name /\ directory' = directory
      /\ stopped' = stopped /\ up' = up /\ checkpoint' = checkpoint
      /\ manifest' = manifest /\ journal' = journal
  BY <1>1 DEF nameVars, hostVars, diskVars
<1>4. ASSUME NEW t \in Sessions PROVE SameSession(t)
  BY <1>1 DEF SameSession, logVars, hostVars, diskVars
<1>5. HostTypeOK'
  BY <1>1, <1>2, <1>3 DEF HostInv, HostTypeOK, CoreInv, hostVars, diskVars
<1>6. DiskNames' /\ WindowsFit' /\ Serving' /\ Identified'
  BY <1>3 DEF HostInv, DiskNames, HasSource, DiskName, WindowsFit, Serving, Identified
<1>7. OnDisk' /\ InMemory'
  <2>1. ASSUME NEW t \in directory \ stopped
        PROVE  Faithful(Recovered(t)', applied'[t], accepted'[t])
    <3>1. t \in Sessions /\ Faithful(Recovered(t), applied[t], accepted[t])
      BY DEF HostInv, OnDisk, HostTypeOK, TypeOK
    <3>2. Recovered(t)' = Recovered(t) /\ applied'[t] = applied[t] /\ accepted'[t] = accepted[t]
      BY <1>4, <3>1, SameSessionKeeps DEF SameSession
    <3>3. QED
      BY <3>1, <3>2
  <2>2. ASSUME NEW t \in live \ stopped PROVE Mirrors(t)'
    <3>1. t \in Sessions /\ Mirrors(t)
      BY DEF HostInv, InMemory, HostTypeOK, TypeOK
    <3>2. QED
      BY <1>4, <3>1, SameSessionKeeps
  <2>3. QED
    BY <1>3, <2>1, <2>2 DEF OnDisk, InMemory
<1>8. NeverIssued'
  BY <1>3, <1>4 DEF HostInv, NeverIssued, SameSession
<1>9. QED
  BY <1>2, <1>5, <1>6, <1>7, <1>8 DEF HostInv

LEMMA EmptyRemembers ==
  ASSUME NEW order, NEW memory, Len(order) = 0, \A r \in Requests : memory[r] = 0
  PROVE  Remembers(order, memory, <<>>)
<1>1. Len(<<>>) = 0 /\ Recent(<<>>) = 0
  BY CoreAssumption DEF Recent
<1>2. QED
  BY <1>1 DEF Remembers

(* A session is created by a running leader, or by one that loaded none. *)
LEMMA CreatedKeeps ==
  ASSUME HostInv, NEW s \in Sessions, NEW raw \in RawNames, CreateSession(s, raw),
         up \/ directory = {}, up' = TRUE,
         directory' = directory \cup {s},
         WriteManifest(s, Normal[raw]), WriteCheckpoint(s, Fresh(Normal[raw])),
         UNCHANGED <<domain, logSequence, journal, accepted, stopped>>
  PROVE  HostInv'
<1> DEFINE n == Normal[raw]
<1>1. /\ s \notin issued /\ n \in Names /\ names[n] = NoSession
      /\ issued' = issued \cup {s} /\ live' = live \cup {s}
      /\ name' = [name EXCEPT ![s] = n]
      /\ manifest' = [manifest EXCEPT ![s] = n]
      /\ checkpoint' = [checkpoint EXCEPT ![s] = Fresh(n)]
      /\ UNCHANGED <<sequence, committed, commitOrder, applied>>
      /\ UNCHANGED <<domain, logSequence, journal, accepted, stopped>>
  BY CoreAssumption DEF CreateSession, WriteManifest, WriteCheckpoint, logVars
<1>2. CoreInv'
  <2>1. Next
    BY DEF Next
  <2>2. QED
    BY <2>1, CoreInductive DEF HostInv
<1> HIDE DEF n
<1>3. Fresh(n) \in Memories /\ Fresh(n).order = <<>> /\ Fresh(n).name = n
  BY <1>1, FreshType DEF Fresh
<1>4. HostTypeOK'
  <2>1. TypeOK' /\ HostTypeOK
    BY <1>2 DEF CoreInv, HostInv
  <2>2. QED
    BY <1>1, <1>3, <2>1 DEF HostTypeOK
<1>5. \A t \in Sessions \ {s} : SameSession(t)
  BY <1>1 DEF SameSession, HostInv, HostTypeOK
<1>6. /\ sequence[s] = 0 /\ logSequence[s] = 0 /\ domain[s] = <<>> /\ journal[s] = <<>>
      /\ applied[s] = <<>> /\ commitOrder[s] = <<>>
      /\ \A r \in Requests : accepted[s][r] = 0 /\ committed[s][r] = 0
  BY <1>1 DEF HostInv, NeverIssued
<1>7. manifest'[s] = n /\ checkpoint'[s] = Fresh(n) /\ name'[s] = n
  BY <1>1 DEF HostInv, HostTypeOK, TypeOK
<1>8. Recovered(s)' = Restored(Fresh(n)) /\ DiskName(s)' = n /\ HasSource(s)'
  <2>1. HostTypeOK /\ Len(Fresh(n).order) <= Window /\ journal'[s] = journal[s]
    BY <1>1, <1>3, CoreAssumption DEF HostInv
  <2>2. \A j \in 1 .. Len(journal[s]) : journal[s][j].log <= Fresh(n).log
    BY <1>6
  <2>3. QED
    BY <1>3, <1>7, <2>1, <2>2, RecoveredSaved
<1>9. Faithful(Recovered(s)', applied'[s], accepted'[s])
  <2>1. Faithful(Restored(Fresh(n)), <<>>, accepted[s])
    BY <1>6, FreshFaithful
  <2>2. QED
    BY <1>1, <1>6, <1>8, <2>1
<1>10. Mirrors(s)'
  <2>1. /\ Restored(Fresh(n)).sequence = 0 /\ Restored(Fresh(n)).domain = <<>>
        /\ Restored(Fresh(n)).log = 0
    BY DEF Restored, Fresh
  <2>2. Remembers(commitOrder[s], committed[s], <<>>)
    BY <1>6, EmptyRemembers
  <2>3. QED
    BY <1>1, <1>6, <1>8, <2>1, <2>2 DEF Mirrors
<1>11. live = directory
  BY DEF HostInv, Serving, HostTypeOK
<1>12. Serving'
  BY <1>1, <1>11 DEF Serving
<1>13. DiskNames'
  <2>1. SUFFICES ASSUME NEW t \in directory', NEW u \in directory',
                        HasSource(t)', HasSource(u)', DiskName(t)' = DiskName(u)'
                 PROVE  t = u
    BY DEF DiskNames
  <2>2. ASSUME NEW v \in directory
        PROVE  /\ v # s /\ DiskName(v)' # n
               /\ DiskName(v)' = DiskName(v) /\ (HasSource(v)' <=> HasSource(v))
    <3>1. up /\ v \in Sessions /\ v # s
      BY <1>1, <2>2 DEF HostInv, HostTypeOK, TypeOK
    <3>2. DiskName(v) = name[v] /\ names[name[v]] = v
      BY <2>2, <3>1, ServedNames
    <3>3. DiskName(v)' = DiskName(v) /\ (HasSource(v)' <=> HasSource(v))
      BY <1>5, <3>1, SameSessionKeeps
    <3>4. QED
      BY <1>1, <3>1, <3>2, <3>3, CoreAssumption
  <2>3. QED
    BY <1>8, <2>1, <2>2 DEF HostInv, DiskNames
<1>14. \A t \in live' \ {s} : name'[t] = name[t]
  BY <1>1 DEF HostInv, HostTypeOK, TypeOK
<1>15. Len(checkpoint'[s].order) <= Window
  BY <1>3, <1>7, CoreAssumption
<1>16. checkpoint'[s] # NoCheckpoint /\ checkpoint'[s].name = name'[s] /\ manifest'[s] = name'[s]
  BY <1>3, <1>7, CheckpointAssumption
<1>17. QED
  BY <1>1, <1>2, <1>4, <1>5, <1>9, <1>10, <1>12, <1>13, <1>14, <1>15, <1>16, OneSessionKeeps

LEMMA HostRenameKeeps ==
  ASSUME HostInv, NEW s \in Sessions, NEW raw \in RawNames, HostRename(s, raw)
  PROVE  HostInv'
<1> DEFINE n == Normal[raw]
<1>1. /\ up /\ s \in live /\ n \in Names /\ names[n] \in {NoSession, s}
      /\ issued' = issued /\ live' = live /\ name' = [name EXCEPT ![s] = n]
      /\ manifest' = [manifest EXCEPT ![s] = n]
      /\ checkpoint' = [checkpoint EXCEPT ![s] = MemoryOf(s, n)]
      /\ UNCHANGED <<sequence, committed, commitOrder, applied>>
      /\ UNCHANGED <<up, domain, logSequence, directory, journal, accepted, stopped>>
  BY CoreAssumption
     DEF HostRename, RenameSession, PersistIdentity, WriteManifest, WriteCheckpoint, logVars
<1>2. CoreInv'
  <2>1. Next
    BY DEF Next, HostRename
  <2>2. QED
    BY <2>1, CoreInductive DEF HostInv
<1> HIDE DEF n
<1>3. /\ MemoryOf(s, n) \in Memories /\ MemoryOf(s, n).name = n
      /\ Len(MemoryOf(s, n).order) <= Window
  BY <1>1, MemoryType
<1>4. HostTypeOK'
  <2>1. TypeOK' /\ HostTypeOK
    BY <1>2 DEF CoreInv, HostInv
  <2>2. QED
    BY <1>1, <1>3, <2>1 DEF HostTypeOK
<1>5. \A t \in Sessions \ {s} : SameSession(t)
  BY <1>1 DEF SameSession, HostInv, HostTypeOK
<1>6. manifest'[s] = n /\ checkpoint'[s] = MemoryOf(s, n) /\ name'[s] = n /\ journal'[s] = journal[s]
  BY <1>1 DEF HostInv, HostTypeOK, TypeOK
<1>7. /\ DiskName(s)' = n /\ HasSource(s)'
      /\ s \notin stopped => /\ Recovered(s)' = Restored(MemoryOf(s, n))
                             /\ Faithful(Recovered(s)', applied[s], accepted[s])
  BY <1>1, <1>6, SavedKeeps
<1>8. ASSUME s \notin stopped PROVE Mirrors(s)'
  <2>1. /\ Restored(MemoryOf(s, n)).sequence = sequence[s]
        /\ Restored(MemoryOf(s, n)).domain = domain[s]
        /\ Restored(MemoryOf(s, n)).log = logSequence[s]
    BY DEF Restored, MemoryOf
  <2>2. Remembers(commitOrder[s], committed[s], applied[s])
    BY <1>1, <1>8 DEF HostInv, InMemory, Mirrors
  <2>3. QED
    BY <1>1, <1>7, <1>8, <2>1, <2>2 DEF Mirrors
<1>9. Serving' /\ live = directory /\ s \in directory /\ s \in issued
  BY <1>1 DEF HostInv, Serving, HostTypeOK, TypeOK
<1>10. DiskNames'
  <2>1. SUFFICES ASSUME NEW t \in directory', NEW u \in directory',
                        HasSource(t)', HasSource(u)', DiskName(t)' = DiskName(u)'
                 PROVE  t = u
    BY DEF DiskNames
  <2>2. ASSUME NEW v \in directory, v # s
        PROVE  /\ DiskName(v)' # n
               /\ DiskName(v)' = DiskName(v) /\ (HasSource(v)' <=> HasSource(v))
    <3>1. DiskName(v) = name[v] /\ names[name[v]] = v /\ v \in Sessions
      BY <1>1, ServedNames
    <3>2. DiskName(v)' = DiskName(v) /\ (HasSource(v)' <=> HasSource(v))
      BY <1>5, <2>2, <3>1, SameSessionKeeps
    <3>3. QED
      BY <1>1, <2>2, <3>1, <3>2, CoreAssumption
  <2>3. QED
    BY <1>1, <1>7, <2>1, <2>2 DEF HostInv, DiskNames
<1>11. \A t \in live' \ {s} : name'[t] = name[t]
  BY <1>1 DEF HostInv, HostTypeOK, TypeOK
<1>12. checkpoint'[s] # NoCheckpoint /\ checkpoint'[s].name = name'[s] /\ manifest'[s] = name'[s]
  BY <1>3, <1>6, CheckpointAssumption
<1>13. s \in directory' \ stopped' => Faithful(Recovered(s)', applied'[s], accepted'[s])
  BY <1>1, <1>7
<1>14. Len(checkpoint'[s].order) <= Window
  BY <1>3, <1>6
<1>15. QED
  BY <1>1, <1>2, <1>4, <1>5, <1>8, <1>9, <1>10, <1>11, <1>12, <1>13, <1>14, OneSessionKeeps

LEMMA HostStopKeeps == ASSUME HostInv, NEW s \in Sessions, HostStop(s) PROVE HostInv'
<1>1. /\ up /\ s \in live /\ live' = live \ {s} /\ issued' = issued
      /\ name' = [name EXCEPT ![s] = NoName]
      /\ directory' = directory \ {s} /\ stopped' = stopped \cup {s} /\ up' = up
      /\ manifest' = [manifest EXCEPT ![s] = NoName]
      /\ checkpoint' = [checkpoint EXCEPT ![s] = NoCheckpoint]
      /\ journal' = [journal EXCEPT ![s] = <<>>]
      /\ domain' = [domain EXCEPT ![s] = <<>>]
      /\ logSequence' = [logSequence EXCEPT ![s] = 0]
      /\ accepted' = [accepted EXCEPT ![s] = [r \in Requests |-> 0]]
      /\ UNCHANGED <<sequence, committed, commitOrder, applied>>
  BY DEF HostStop, RemoveSession, WriteManifest, WriteCheckpoint, logVars
<1>2. CoreInv'
  <2>1. Next
    BY DEF Next, HostStop
  <2>2. QED
    BY <2>1, CoreInductive DEF HostInv
<1>3. s \in issued /\ live = directory
  BY <1>1 DEF HostInv, HostTypeOK, TypeOK, Serving
<1>4. HostTypeOK'
  <2>1. TypeOK' /\ HostTypeOK
    BY <1>2 DEF CoreInv, HostInv
  <2>2. <<>> \in Seq(Records) /\ <<>> \in Seq(Events) /\ [r \in Requests |-> 0] \in [Requests -> Nat]
    OBVIOUS
  <2>3. manifest' \in [Sessions -> Names \cup {NoName}]
        /\ checkpoint' \in [Sessions -> Memories \cup {NoCheckpoint}]
    BY <1>1, <2>1 DEF HostTypeOK
  <2>4. journal' \in [Sessions -> Seq(Records)] /\ domain' \in [Sessions -> Seq(Events)]
    BY <1>1, <2>1, <2>2 DEF HostTypeOK
  <2>5. logSequence' \in [Sessions -> Nat] /\ accepted' \in [Sessions -> [Requests -> Nat]]
    BY <1>1, <2>1, <2>2 DEF HostTypeOK
  <2>6. QED
    BY <1>1, <1>3, <2>1, <2>3, <2>4, <2>5 DEF HostTypeOK
<1>5. \A t \in Sessions \ {s} : SameSession(t)
  BY <1>1 DEF SameSession, HostInv, HostTypeOK
<1>6. Serving'
  BY <1>1, <1>3 DEF Serving
<1>7. DiskNames'
  <2>1. ASSUME NEW t \in directory'
        PROVE  HasSource(t)' => HasSource(t) /\ DiskName(t)' = DiskName(t)
    <3>1. t \in Sessions /\ t # s
      BY <1>1, <2>1 DEF HostInv, HostTypeOK, TypeOK
    <3>2. QED
      BY <1>5, <3>1, SameSessionKeeps
  <2>2. QED
    BY <1>1, <2>1, DiskNamesSame DEF HostInv
<1>8. \A t \in live' \ {s} : name'[t] = name[t]
  BY <1>1 DEF HostInv, HostTypeOK, TypeOK
<1>9. checkpoint'[s] = NoCheckpoint /\ s \notin directory' /\ s \notin live'
  BY <1>1 DEF HostInv, HostTypeOK
<1>10. QED
  BY <1>1, <1>2, <1>3, <1>4, <1>5, <1>6, <1>7, <1>8, <1>9, OneSessionKeeps

(* What is remembered is what the client of the request was told. *)
LEMMA RememberedIsAccepted ==
  ASSUME NEW memory, NEW log \in Seq(Applied), NEW acc, NEW order, NEW known,
         Faithful(memory, log, acc), Remembers(order, known, log),
         NEW r \in Requests, known[r] # 0
  PROVE  known[r] = acc[r]
<1>1. PICK k \in 1 .. Recent(log) : order[k] = r
  BY DEF Remembers
<1> DEFINE j == Len(log) - Recent(log) + k
<1>2. /\ Recent(log) \in Nat /\ Len(log) \in Nat /\ Window \in Nat \ {0}
      /\ Recent(log) <= Window /\ j \in 1 .. Len(log)
  BY RecentFacts, CoreAssumption
<1>3. log[j].request = r /\ known[r] = log[j].sequence
  BY <1>1 DEF Remembers
<1>4. j + Window > Len(log)
  BY <1>2
<1>5. acc[log[j].request] = log[j].sequence
  BY <1>2, <1>4 DEF Faithful
<1>6. QED
  BY <1>3, <1>5

LEMMA HostDuplicateKeeps ==
  ASSUME HostInv, NEW c \in Connections, NEW s \in Sessions, NEW r \in Requests,
         HostDuplicate(c, s, r)
  PROVE  HostInv'
<1>1. /\ up /\ s \in live /\ committed[s][r] # 0
      /\ accepted' = [accepted EXCEPT ![s][r] = committed[s][r]]
      /\ UNCHANGED <<vars, up, domain, logSequence, diskVars, stopped>>
  BY DEF HostDuplicate, IsDuplicate, Admitted
<1>2. CoreInv'
  BY <1>1, CoreInductive DEF HostInv
<1>3. /\ UNCHANGED <<issued, live, name, sequence, committed, commitOrder, applied>>
      /\ UNCHANGED <<up, domain, logSequence, directory, manifest, checkpoint, journal, stopped>>
  BY <1>1 DEF vars, nameVars, logVars, diskVars
<1>4. s \in issued /\ s \in directory /\ committed[s][r] \in Nat
  BY <1>1 DEF HostInv, HostTypeOK, TypeOK, Serving
<1>5. HostTypeOK'
  <2>1. TypeOK' /\ HostTypeOK
    BY <1>2 DEF CoreInv, HostInv
  <2>2. accepted' \in [Sessions -> [Requests -> Nat]]
    BY <1>1, <1>4, <2>1 DEF HostTypeOK
  <2>3. QED
    BY <1>3, <2>1, <2>2 DEF HostTypeOK
<1>6. \A t \in Sessions \ {s} : SameSession(t)
  BY <1>1, <1>3 DEF SameSession, HostInv, HostTypeOK
<1>7. /\ Recovered(s)' = Recovered(s)
      /\ \A t \in Sessions : DiskName(t)' = DiskName(t) /\ (HasSource(t)' <=> HasSource(t))
  BY <1>3, RecoveredSame
<1>8. ASSUME s \notin stopped
      PROVE  Mirrors(s)' /\ Faithful(Recovered(s)', applied'[s], accepted'[s])
  <2>1. Mirrors(s) /\ Faithful(Recovered(s), applied[s], accepted[s])
    BY <1>1, <1>4, <1>8 DEF HostInv, InMemory, OnDisk
  <2>2. Remembers(commitOrder[s], committed[s], applied[s]) /\ applied[s] \in Seq(Applied)
    BY <2>1 DEF Mirrors, HostInv, HostTypeOK, TypeOK
  <2>3. committed[s][r] # 0
    BY <1>1
  <2>4. committed[s][r] = accepted[s][r]
    <3> DEFINE memory == Recovered(s)
               log == applied[s]
               acc == accepted[s]
               order == commitOrder[s]
               known == committed[s]
    <3>1. /\ log \in Seq(Applied) /\ Faithful(memory, log, acc)
          /\ Remembers(order, known, log) /\ known[r] # 0
      BY <2>1, <2>2, <2>3
    <3> HIDE DEF memory, log, acc, order, known
    <3>2. known[r] = acc[r]
      BY <3>1, RememberedIsAccepted
    <3>3. QED
      BY <3>2 DEF known, acc
  <2>5. accepted' = accepted
    BY <1>1, <2>4 DEF HostInv, HostTypeOK
  <2>6. QED
    BY <1>3, <1>7, <2>1, <2>5 DEF Mirrors
<1>9. Serving' /\ DiskNames'
  <2>1. Serving'
    BY <1>3 DEF HostInv, Serving
  <2>2. DiskNames'
    BY <1>3, <1>7, DiskNamesSame DEF HostInv, HostTypeOK, TypeOK
  <2>3. QED
    BY <2>1, <2>2
<1>10. /\ checkpoint'[s] # NoCheckpoint /\ checkpoint'[s].name = name'[s]
       /\ manifest'[s] = name'[s] /\ Len(checkpoint'[s].order) <= Window
  BY <1>1, <1>3 DEF HostInv, Identified, WindowsFit
<1>11. QED
  BY <1>2, <1>3, <1>4, <1>5, <1>6, <1>8, <1>9, <1>10, OneSessionKeeps

-----------------------------------------------------------------------------
(* Transitions *)

LEMMA EmittedType ==
  ASSUME HostTypeOK, NEW s \in Sessions, NEW r \in Requests \cup {NoRequest}, NEW n \in Nat
  PROVE  /\ Emitted(s, r, n) \in Seq(Events) /\ Len(Emitted(s, r, n)) = n
         /\ \A k \in 1 .. n : Emitted(s, r, n)[k].sequence = sequence[s] + k
         /\ Span(n) \in Nat /\ Span(n) >= 1
<1>1. sequence[s] \in Nat
  BY DEF HostTypeOK, TypeOK
<1>2. \A k \in 1 .. n : [request |-> r, sequence |-> sequence[s] + k] \in Events
  BY <1>1 DEF Events
<1>3. Emitted(s, r, n) = [k \in 1 .. n |-> [request |-> r, sequence |-> sequence[s] + k]]
  BY DEF Emitted
<1>4. Emitted(s, r, n) \in Seq(Events) /\ Len(Emitted(s, r, n)) = n
  BY <1>2, <1>3
<1>5. QED
  BY <1>3, <1>4 DEF Span

\* What a command and a poll have in common.
Transition(s, r, n) ==
  /\ Advance(s, Span(n))
  /\ Journal(s, r, sequence[s] + Span(n), Emitted(s, r, n))
  /\ domain' = [domain EXCEPT ![s] = @ \o Emitted(s, r, n)]

\* The record that Journal appends.
RecordOf(s, r, n) ==
  [log |-> logSequence[s] + 1, request |-> r, control |-> sequence[s] + Span(n),
   events |-> Emitted(s, r, n)]

(* What a transition of n events leaves of the types. *)
LEMMA JournalType ==
  ASSUME HostTypeOK, NEW s \in Sessions, NEW r \in Requests \cup {NoRequest}, NEW n \in Nat,
         Transition(s, r, n)
  PROVE  /\ RecordOf(s, r, n) \in Records
         /\ journal' \in [Sessions -> Seq(Records)]
         /\ logSequence' \in [Sessions -> Nat]
         /\ sequence' \in [Sessions -> Nat]
         /\ domain' \in [Sessions -> Seq(Events)]
         /\ journal'[s] = Append(journal[s], RecordOf(s, r, n))
         /\ sequence'[s] = sequence[s] + Span(n)
         /\ domain'[s] = domain[s] \o Emitted(s, r, n)
         /\ logSequence'[s] = logSequence[s] + 1
         /\ \A t \in Sessions \ {s} : /\ journal'[t] = journal[t] /\ domain'[t] = domain[t]
                                      /\ sequence'[t] = sequence[t]
                                      /\ logSequence'[t] = logSequence[t]
<1>1. /\ sequence \in [Sessions -> Nat] /\ logSequence \in [Sessions -> Nat]
      /\ journal \in [Sessions -> Seq(Records)] /\ domain \in [Sessions -> Seq(Events)]
  BY DEF HostTypeOK, TypeOK
<1>2. Emitted(s, r, n) \in Seq(Events) /\ Span(n) \in Nat
  BY EmittedType
<1>3. RecordOf(s, r, n) \in Records
  BY <1>1, <1>2 DEF RecordOf, Records
<1>4. /\ journal' = [journal EXCEPT ![s] = Append(journal[s], RecordOf(s, r, n))]
      /\ logSequence' = [logSequence EXCEPT ![s] = logSequence[s] + 1]
      /\ sequence' = [sequence EXCEPT ![s] = sequence[s] + Span(n)]
      /\ domain' = [domain EXCEPT ![s] = domain[s] \o Emitted(s, r, n)]
  BY <1>1 DEF Transition, Journal, Advance, RecordOf
<1>5. /\ Append(journal[s], RecordOf(s, r, n)) \in Seq(Records)
      /\ domain[s] \o Emitted(s, r, n) \in Seq(Events)
  BY <1>1, <1>2, <1>3
<1>6. logSequence[s] + 1 \in Nat /\ sequence[s] + Span(n) \in Nat
  BY <1>1, <1>2
<1>7. journal' \in [Sessions -> Seq(Records)] /\ domain' \in [Sessions -> Seq(Events)]
  BY ONLY <1>1, <1>4, <1>5
<1>8. logSequence' \in [Sessions -> Nat] /\ sequence' \in [Sessions -> Nat]
  BY ONLY <1>1, <1>4, <1>6
<1>9. QED
  BY ONLY s \in Sessions, <1>1, <1>3, <1>4, <1>7, <1>8

(* A transition moves what the next leader would load as it moves memory. *)
LEMMA JournalStep ==
  ASSUME HostInv, up, NEW s \in live \ stopped, NEW r \in Requests \cup {NoRequest},
         NEW n \in Nat, n # 0 \/ r # NoRequest,
         Transition(s, r, n),
         manifest'[s] = manifest[s], checkpoint'[s] = checkpoint[s]
  PROVE  /\ Recovered(s)'.sequence = sequence'[s]
         /\ Recovered(s)'.domain = domain'[s]
         /\ Recovered(s)'.log = logSequence'[s]
         /\ Recovered(s)'.order =
              IF r = NoRequest THEN Recovered(s).order
              ELSE Retained(Append(Recovered(s).order, [request |-> r, sequence |-> sequence[s] + 1]))
<1> DEFINE record == RecordOf(s, r, n)
           m == Recovered(s)
           base == BaseOf(s)
<1>1. s \in Sessions /\ HostTypeOK /\ WindowsFit
  BY DEF HostInv, HostTypeOK, TypeOK
<1>2. m.sequence = sequence[s] /\ m.domain = domain[s] /\ m.log = logSequence[s]
  BY DEF HostInv, InMemory, Mirrors
<1>3. /\ base \in Loadables /\ m \in Loadables /\ m.log >= base.log
      /\ journal[s] \in Seq(Records)
      /\ m = LoadJournal(base, journal[s])
  BY <1>1, RecoveredType DEF HostTypeOK, Recovered
<1>4. /\ record \in Records /\ journal'[s] = Append(journal[s], record)
      /\ sequence'[s] = sequence[s] + Span(n)
      /\ domain'[s] = domain[s] \o Emitted(s, r, n)
      /\ logSequence'[s] = logSequence[s] + 1
  BY <1>1, JournalType
<1>5. /\ record.log = logSequence[s] + 1 /\ record.request = r
      /\ record.control = sequence[s] + Span(n) /\ record.events = Emitted(s, r, n)
  BY DEF RecordOf
<1>6. Recovered(s)' = LoadJournal(base, Append(journal[s], record))
  <2>1. BaseOf(s)' = base
    BY DEF BaseOf, Fresh, Restored
  <2>2. Recovered(s)' = LoadJournal(BaseOf(s)', journal'[s])
    BY DEF Recovered, LoadJournal, LoadRecord, IsNewer, ReplayRecord, CoreReplay, Retained
  <2>3. QED
    BY <1>4, <2>1, <2>2
<1>7. /\ Emitted(s, r, n) \in Seq(Events) /\ Len(Emitted(s, r, n)) = n
      /\ \A k \in 1 .. n : Emitted(s, r, n)[k].sequence = m.sequence + k
  BY <1>1, <1>2, EmittedType
<1> HIDE DEF record, m, base
<1>8. LoadJournal(base, Append(journal[s], record)) = LoadRecord(base.log, m, record)
  BY <1>3, <1>4, LoadAppend
<1>9. LoadRecord(base.log, m, record) = [ReplayRecord(m, record) EXCEPT !.log = record.log]
  <2>1. base.log \in Nat /\ record.log = m.log + 1
    BY <1>2, <1>3, <1>5 DEF Loadables
  <2>2. QED
    BY <1>3, <1>4, <2>1, LoadNext
<1>10. ReplayRecord(m, record) = Moved(m, r, n, Emitted(s, r, n))
  <2> DEFINE events == Emitted(s, r, n)
  <2>1. events \in Seq(Events) /\ record \in Records /\ Follows(record, m, r, n, events)
    BY <1>2, <1>4, <1>5, <1>7 DEF Follows
  <2> HIDE DEF events
  <2>2. ReplayRecord(m, record) = Moved(m, r, n, events)
    BY <1>3, <2>1, ReplayEmitted
  <2>3. QED
    BY <2>2 DEF events
<1>11. Recovered(s)' = [Moved(m, r, n, Emitted(s, r, n)) EXCEPT !.log = record.log]
  BY <1>6, <1>8, <1>9, <1>10
<1>12. /\ Recovered(s)'.sequence = m.sequence + Span(n)
       /\ Recovered(s)'.domain = m.domain \o Emitted(s, r, n)
       /\ Recovered(s)'.order =
            IF r = NoRequest THEN m.order
            ELSE Retained(Append(m.order, [request |-> r, sequence |-> m.sequence + 1]))
       /\ Recovered(s)'.log = record.log
  BY <1>3, <1>11 DEF Loadables, Moved
<1>13. QED
  BY <1>2, <1>4, <1>5, <1>12 DEF m

(* The window and the answers after one more command. *)
LEMMA FaithfulAdvances ==
  ASSUME NEW m, NEW m2, NEW log \in Seq(Applied), NEW entry \in Applied,
         NEW acc \in [Requests -> Nat], Faithful(m, log, acc),
         m.sequence \in Nat, m2.sequence \in Nat,
         m.sequence < entry.sequence, entry.sequence <= m2.sequence,
         m2.order = Retained(Append(m.order, EntryOf(entry))),
         Once(Append(log, entry))
  PROVE  Faithful(m2, Append(log, entry), [acc EXCEPT ![entry.request] = entry.sequence])
<1> DEFINE log2 == Append(log, entry)
           n == Len(log)
           acc2 == [acc EXCEPT ![entry.request] = entry.sequence]
<1>1. /\ log2 \in Seq(Applied) /\ n \in Nat /\ Len(log2) = n + 1 /\ log2[n + 1] = entry
      /\ \A k \in 1 .. n : log2[k] = log[k]
  BY AppendFacts
<1>2. /\ m.order = RecentOf(log)
      /\ \A k \in 1 .. n : 0 < log[k].sequence /\ log[k].sequence <= m.sequence
      /\ \A k \in 1 .. n : k + Window > n => acc[log[k].request] = log[k].sequence
      /\ \A r \in Requests : acc[r] <= m.sequence
  BY DEF Faithful
<1>3. /\ entry.sequence \in Nat /\ entry.request \in Requests /\ Window \in Nat
      /\ \A k \in 1 .. n : log[k] \in Applied
  <2>1. \A k \in 1 .. n : log[k] \in Applied
    OBVIOUS
  <2>2. QED
    BY <2>1, CoreAssumption DEF Applied
<1>4. \A k \in 1 .. n : log[k].sequence \in Nat /\ log[k].request \in Requests
  BY <1>3 DEF Applied
<1>5. m2.order = RecentOf(log2)
  BY <1>2, RecentAdvances
<1>6. acc2[entry.request] = entry.sequence
      /\ \A r \in Requests \ {entry.request} : acc2[r] = acc[r]
  BY <1>3
<1>7. Once(log2)
  OBVIOUS
<1> HIDE DEF log2, n, acc2
<1>8. ASSUME NEW k \in 1 .. n + 1 PROVE 0 < log2[k].sequence /\ log2[k].sequence <= m2.sequence
  <2>1. CASE k = n + 1
    BY <1>1, <1>3, <2>1
  <2>2. CASE k # n + 1
    <3>1. k \in 1 .. n
      BY <1>1, <2>2
    <3>2. log[k].sequence \in Nat /\ 0 < log[k].sequence /\ log[k].sequence <= m.sequence
      BY <1>2, <1>4, <3>1
    <3>3. m.sequence <= m2.sequence
      BY <1>3
    <3>4. log[k].sequence <= m2.sequence
      BY <3>2, <3>3
    <3>5. QED
      BY <1>1, <3>1, <3>2, <3>4
  <2>3. QED
    BY <2>1, <2>2
<1>9. ASSUME NEW k \in 1 .. n + 1, k + Window > n + 1
      PROVE  acc2[log2[k].request] = log2[k].sequence
  <2>1. CASE k = n + 1
    BY <1>1, <1>6, <2>1
  <2>2. CASE k # n + 1
    <3>1. k \in 1 .. n /\ k + Window > n /\ k < n + 1 /\ ~((n + 1) - k > Window)
      BY <1>1, <1>3, <1>9, <2>2
    <3>2. k \in 1 .. Len(log2) /\ n + 1 \in 1 .. Len(log2)
      BY <1>1
    <3>3. log2[k].request # log2[n + 1].request
      BY <1>7, <3>1, <3>2 DEF Once
    <3>4. log2[k] = log[k] /\ log[k].request \in Requests \ {entry.request}
      BY <1>1, <1>4, <3>1, <3>3
    <3>5. QED
      BY <1>2, <1>6, <3>1, <3>4
  <2>3. QED
    BY <2>1, <2>2
<1>10. ASSUME NEW r \in Requests PROVE acc2[r] <= m2.sequence
  <2>1. acc[r] \in Nat /\ acc[r] <= m.sequence
    BY <1>2
  <2>2. CASE r = entry.request
    BY <1>6, <2>2
  <2>3. CASE r # entry.request
    <3>1. acc2[r] = acc[r]
      BY <1>6, <2>3
    <3>2. QED
      BY <1>3, <2>1, <3>1
  <2>4. QED
    BY <2>2, <2>3
<1>11. Faithful(m2, log2, acc2)
  BY <1>1, <1>5, <1>7, <1>8, <1>9, <1>10 DEF Faithful
<1>12. QED
  BY <1>11 DEF log2, acc2

LEMMA FaithfulLater ==
  ASSUME NEW m, NEW m2, NEW log \in Seq(Applied), NEW acc \in [Requests -> Nat],
         Faithful(m, log, acc), m.sequence \in Nat, m2.sequence \in Nat,
         m.sequence <= m2.sequence, m2.order = m.order
  PROVE  Faithful(m2, log, acc)
<1>1. \A k \in 1 .. Len(log) : log[k].sequence \in Nat
  <2>1. \A k \in 1 .. Len(log) : log[k] \in Applied
    OBVIOUS
  <2>2. QED
    BY <2>1 DEF Applied
<1>2. \A r \in Requests : acc[r] \in Nat
  OBVIOUS
<1>3. QED
  BY <1>1, <1>2 DEF Faithful

LEMMA HostPollKeeps ==
  ASSUME HostInv, NEW s \in Sessions, NEW n \in EventCounts, HostPoll(s, n)
  PROVE  HostInv'
<1>1. n \in Nat /\ n # 0 /\ Span(n) = n
  BY HostAssumption DEF HostPoll, Span
<1>2. /\ up /\ s \in live /\ Transition(s, NoRequest, n)
      /\ UNCHANGED <<clientVars, nameVars, subscribers, leaseVars>>
      /\ UNCHANGED <<issued, live, name, committed, commitOrder, applied, directory>>
      /\ UNCHANGED <<up, manifest, checkpoint, accepted, stopped>>
  BY <1>1 DEF HostPoll, Transition, nameVars
<1>3. HostTypeOK /\ TypeOK /\ CoreInv
  BY DEF HostInv, HostTypeOK
<1>4. /\ journal' \in [Sessions -> Seq(Records)] /\ logSequence' \in [Sessions -> Nat]
      /\ sequence' \in [Sessions -> Nat] /\ domain' \in [Sessions -> Seq(Events)]
      /\ sequence'[s] = sequence[s] + Span(n)
      /\ \A t \in Sessions \ {s} : /\ journal'[t] = journal[t] /\ domain'[t] = domain[t]
                                   /\ sequence'[t] = sequence[t]
                                   /\ logSequence'[t] = logSequence[t]
  BY <1>1, <1>2, <1>3, JournalType
<1>5. TypeOK'
  BY <1>2, <1>3, <1>4 DEF TypeOK, clientVars, nameVars, leaseVars
<1>6. CoreInv'
  BY <1>2, <1>3, <1>5, QuietKeeps DEF CoreInv
<1>7. HostTypeOK'
  BY <1>2, <1>3, <1>4, <1>5 DEF HostTypeOK
<1>8. \A t \in Sessions \ {s} : SameSession(t)
  BY <1>2, <1>4 DEF SameSession
<1>9. s \in issued /\ s \in directory
  BY <1>2, <1>3 DEF HostInv, TypeOK, Serving
<1>10. ASSUME s \notin stopped
       PROVE  Mirrors(s)' /\ Faithful(Recovered(s)', applied'[s], accepted'[s])
  <2>1. /\ Recovered(s)'.sequence = sequence'[s] /\ Recovered(s)'.domain = domain'[s]
        /\ Recovered(s)'.log = logSequence'[s] /\ Recovered(s)'.order = Recovered(s).order
    BY <1>1, <1>2, <1>10, JournalStep
  <2>2. Mirrors(s) /\ Faithful(Recovered(s), applied[s], accepted[s])
    BY <1>2, <1>9, <1>10 DEF HostInv, InMemory, OnDisk
  <2>3. Mirrors(s)'
    BY <1>2, <2>1, <2>2 DEF Mirrors
  <2>4. /\ Recovered(s).sequence \in Nat /\ Recovered(s)'.sequence \in Nat
        /\ Recovered(s).sequence <= Recovered(s)'.sequence
    <3>1. sequence[s] \in Nat /\ sequence'[s] = sequence[s] + n
      BY <1>1, <1>3, <1>4 DEF TypeOK
    <3>2. Recovered(s).sequence = sequence[s]
      BY <2>2 DEF Mirrors
    <3>3. QED
      BY <1>1, <2>1, <3>1, <3>2
  <2>5. applied[s] \in Seq(Applied) /\ accepted[s] \in [Requests -> Nat]
    BY <1>3 DEF TypeOK, HostTypeOK
  <2>6. Faithful(Recovered(s)', applied[s], accepted[s])
    BY <2>1, <2>2, <2>4, <2>5, FaithfulLater
  <2>7. QED
    BY <1>2, <2>3, <2>6
<1>11. Serving'
  BY <1>2 DEF HostInv, Serving
<1>12. DiskNames'
  BY <1>2 DEF HostInv, DiskNames, HasSource, DiskName
<1>13. /\ checkpoint'[s] # NoCheckpoint /\ checkpoint'[s].name = name'[s]
       /\ manifest'[s] = name'[s] /\ Len(checkpoint'[s].order) <= Window
  BY <1>2 DEF HostInv, Identified, WindowsFit
<1>14. QED
  BY <1>2, <1>6, <1>7, <1>8, <1>9, <1>10, <1>11, <1>12, <1>13, OneSessionKeeps

LEMMA HostCommandKeeps ==
  ASSUME HostInv, NEW c \in Connections, NEW s \in Sessions, NEW e \in Nat,
         NEW r \in Requests, NEW n \in EventCounts, HostCommand(c, s, e, r, n)
  PROVE  HostInv'
<1> DEFINE entry == [request |-> r, sequence |-> sequence[s] + 1,
                     owner |-> instance[c], epoch |-> e]
<1>1. n \in Nat /\ r # NoRequest
  BY HostAssumption
<1>2. /\ up /\ s \in live /\ Transition(s, r, n) /\ Remember(s, r)
      /\ committed[s][r] = 0 /\ instance[c] = ClientOf[r]
      /\ applied' = [applied EXCEPT ![s] = Append(@, entry)]
      /\ accepted' = [accepted EXCEPT ![s][r] = sequence[s] + 1]
      /\ UNCHANGED <<clientVars, nameVars, subscribers, leaseVars>>
      /\ UNCHANGED <<issued, live, name, directory>>
      /\ UNCHANGED <<up, manifest, checkpoint, stopped>>
  BY DEF HostCommand, Reduce, IsAuthorized, Admitted, Transition, nameVars
<1>3. HostTypeOK /\ TypeOK /\ CoreInv
  BY DEF HostInv, HostTypeOK
<1>4. /\ journal' \in [Sessions -> Seq(Records)] /\ logSequence' \in [Sessions -> Nat]
      /\ sequence' \in [Sessions -> Nat] /\ domain' \in [Sessions -> Seq(Events)]
      /\ sequence'[s] = sequence[s] + Span(n)
      /\ \A t \in Sessions \ {s} : /\ journal'[t] = journal[t] /\ domain'[t] = domain[t]
                                   /\ sequence'[t] = sequence[t]
                                   /\ logSequence'[t] = logSequence[t]
  BY <1>1, <1>2, <1>3, JournalType
<1>5. /\ sequence[s] \in Nat /\ Span(n) \in Nat /\ Span(n) >= 1
      /\ applied[s] \in Seq(Applied) /\ accepted[s] \in [Requests -> Nat]
      /\ commitOrder[s] \in Seq(Requests) /\ committed[s] \in [Requests -> Nat]
  BY <1>1, <1>3, EmittedType DEF TypeOK, HostTypeOK
<1>6. /\ entry \in Applied /\ entry.sequence > 0 /\ entry.request = r
      /\ entry.sequence = sequence[s] + 1
      /\ EntryOf(entry) = [request |-> r, sequence |-> sequence[s] + 1]
  BY <1>2, <1>5, CoreAssumption DEF Applied, EntryOf
<1> HIDE DEF entry
<1>7. TypeOK'
  <2>1. Append(applied[s], entry) \in Seq(Applied)
    BY <1>5, <1>6
  <2>2. applied' \in [Sessions -> Seq(Applied)]
    BY <1>2, <1>3, <2>1 DEF TypeOK
  <2>3. QED
    BY <1>2, <1>3, <1>4, <2>2, RememberType DEF TypeOK, clientVars, nameVars, leaseVars
<1>8. CoreInv'
  BY <1>2, <1>3, <1>7, QuietKeeps DEF CoreInv
<1>9. HostTypeOK'
  <2>1. accepted' \in [Sessions -> [Requests -> Nat]]
    BY <1>2, <1>3, <1>5 DEF HostTypeOK
  <2>2. QED
    BY <1>2, <1>3, <1>4, <1>7, <2>1 DEF HostTypeOK
<1>10. /\ applied'[s] = Append(applied[s], entry)
       /\ accepted'[s] = [accepted[s] EXCEPT ![r] = entry.sequence]
       /\ commitOrder'[s] = Retained(Append(commitOrder[s], r))
       /\ committed'[s] = Memorised(committed[s], Append(commitOrder[s], r), r, entry.sequence)
       /\ \A t \in Sessions \ {s} : /\ applied'[t] = applied[t] /\ accepted'[t] = accepted[t]
                                    /\ commitOrder'[t] = commitOrder[t]
                                    /\ committed'[t] = committed[t]
  BY <1>2, <1>3, <1>6 DEF TypeOK, HostTypeOK, Remember, Memorised
<1>11. \A t \in Sessions \ {s} : SameSession(t)
  BY <1>2, <1>4, <1>10 DEF SameSession
<1>12. s \in issued /\ s \in directory
  BY <1>2, <1>3 DEF HostInv, TypeOK, Serving
<1>13. ASSUME s \notin stopped
       PROVE  Mirrors(s)' /\ Faithful(Recovered(s)', applied'[s], accepted'[s])
  <2>1. /\ Recovered(s)'.sequence = sequence'[s] /\ Recovered(s)'.domain = domain'[s]
        /\ Recovered(s)'.log = logSequence'[s]
        /\ Recovered(s)'.order = Retained(Append(Recovered(s).order, EntryOf(entry)))
    BY <1>1, <1>2, <1>6, <1>13, JournalStep
  <2>2. Mirrors(s) /\ Faithful(Recovered(s), applied[s], accepted[s])
    BY <1>2, <1>12, <1>13 DEF HostInv, InMemory, OnDisk
  <2>3. Remembers(commitOrder[s], committed[s], applied[s]) /\ Recovered(s).sequence = sequence[s]
    BY <2>2 DEF Mirrors
  <2>4. Once(applied[s]) /\ \A k \in 1 .. Len(applied[s]) : applied[s][k].sequence > 0
    <3>1. \A k \in 1 .. Len(applied[s]) : applied[s][k] \in Applied
      BY <1>5
    <3>2. QED
      BY <2>2, <3>1 DEF Faithful, Applied
  <2>5. /\ Once(Append(applied[s], entry))
        /\ Remembers(Retained(Append(commitOrder[s], entry.request)),
                     Memorised(committed[s], Append(commitOrder[s], entry.request),
                               entry.request, entry.sequence),
                     Append(applied[s], entry))
    BY <1>2, <1>5, <1>6, <2>3, <2>4, WindowAdvances
  <2>6. Mirrors(s)'
    BY <1>6, <1>10, <2>1, <2>5 DEF Mirrors
  <2>7. /\ Recovered(s).sequence \in Nat /\ Recovered(s)'.sequence \in Nat
        /\ Recovered(s).sequence < entry.sequence /\ entry.sequence <= Recovered(s)'.sequence
    BY <1>4, <1>5, <1>6, <2>1, <2>3
  <2>8. Faithful(Recovered(s)', Append(applied[s], entry),
                 [accepted[s] EXCEPT ![entry.request] = entry.sequence])
    BY <1>5, <1>6, <2>1, <2>2, <2>5, <2>7, FaithfulAdvances
  <2>9. QED
    BY <1>6, <1>10, <2>6, <2>8
<1>14. Serving'
  BY <1>2 DEF HostInv, Serving
<1>15. DiskNames'
  BY <1>2 DEF HostInv, DiskNames, HasSource, DiskName
<1>16. /\ checkpoint'[s] # NoCheckpoint /\ checkpoint'[s].name = name'[s]
       /\ manifest'[s] = name'[s] /\ Len(checkpoint'[s].order) <= Window
  BY <1>2 DEF HostInv, Identified, WindowsFit
<1>17. QED
  BY <1>2, <1>8, <1>9, <1>11, <1>12, <1>13, <1>14, <1>15, <1>16, OneSessionKeeps

-----------------------------------------------------------------------------
(* Loading *)

(* load writes back what it read: no session changes its name or its window. *)
LEMMA PersistLoadedKeeps ==
  ASSUME HostInv, Loadable, NEW named \in SUBSET directory, NEW saved \in SUBSET named, PersistLoaded(named, saved),
         UNCHANGED <<directory, journal, applied, accepted, stopped>>
  PROVE  /\ manifest' \in [Sessions -> Names \cup {NoName}]
         /\ checkpoint' \in [Sessions -> Memories \cup {NoCheckpoint}]
         /\ WindowsFit' /\ OnDisk' /\ DiskNames'
         /\ \A t \in saved : /\ manifest'[t] = Recovered(t).name
                             /\ checkpoint'[t] = Recovered(t)
                             /\ Recovered(t)' = Restored(Recovered(t))
         /\ \A t \in Sessions \ named : manifest'[t] = manifest[t] /\ checkpoint'[t] = checkpoint[t]
<1>1. /\ manifest' = [t \in Sessions |-> IF t \in named THEN Recovered(t).name ELSE manifest[t]]
      /\ checkpoint' = [t \in Sessions |-> IF t \in saved THEN Recovered(t) ELSE checkpoint[t]]
      /\ journal' = journal
  BY DEF PersistLoaded
<1>2. HostTypeOK /\ WindowsFit /\ directory \subseteq Sessions
  BY DEF HostInv, HostTypeOK, TypeOK
<1>3. ASSUME NEW t \in directory
      PROVE  /\ t \in Sessions /\ HasSource(t)
             /\ Recovered(t) \in Memories /\ Len(Recovered(t).order) <= Window
             /\ Recovered(t).name = DiskName(t) /\ Recovered(t).name \in Names
             /\ \A j \in 1 .. Len(journal[t]) : journal[t][j].log <= Recovered(t).log
  <2>1. t \in Sessions /\ HasSource(t)
    BY <1>2 DEF Loadable
  <2>2. /\ Recovered(t) \in Loadables /\ Recovered(t) \in Memories
        /\ Recovered(t).name = DiskName(t)
        /\ \A j \in 1 .. Len(journal[t]) : journal[t][j].log <= Recovered(t).log
    BY <1>2, <2>1, RecoveredType
  <2>3. QED
    BY <2>1, <2>2 DEF Loadables, Memories
<1>4. ASSUME NEW t \in saved
      PROVE  /\ manifest'[t] = Recovered(t).name /\ checkpoint'[t] = Recovered(t)
             /\ Recovered(t)' = Restored(Recovered(t))
             /\ DiskName(t)' = DiskName(t) /\ HasSource(t)'
  <2>1. t \in directory /\ t \in Sessions
    BY <1>2
  <2>2. manifest'[t] = Recovered(t).name /\ checkpoint'[t] = Recovered(t) /\ journal'[t] = journal[t]
    BY <1>1, <2>1
  <2>3. /\ Recovered(t) \in Memories /\ Len(Recovered(t).order) <= Window
        /\ Recovered(t).name = DiskName(t)
        /\ \A j \in 1 .. Len(journal[t]) : journal[t][j].log <= Recovered(t).log
    BY <1>3, <2>1
  <2>4. Recovered(t)' = Restored(Recovered(t)) /\ DiskName(t)' = Recovered(t).name /\ HasSource(t)'
    BY <1>2, <2>1, <2>2, <2>3, RecoveredSaved
  <2>5. QED
    BY <2>2, <2>3, <2>4
<1>5. ASSUME NEW t \in Sessions \ saved
      PROVE  /\ checkpoint'[t] = checkpoint[t]
             /\ IF t \in named THEN manifest'[t] = Recovered(t).name ELSE manifest'[t] = manifest[t]
             /\ Recovered(t)' = Recovered(t) /\ DiskName(t)' = DiskName(t)
             /\ HasSource(t)' <=> HasSource(t)
  <2>1. /\ checkpoint'[t] = checkpoint[t] /\ journal'[t] = journal[t]
        /\ IF t \in named THEN manifest'[t] = Recovered(t).name ELSE manifest'[t] = manifest[t]
    BY <1>1
  <2>2. checkpoint[t] = NoCheckpoint => manifest'[t] = manifest[t]
    BY <1>3, <2>1 DEF DiskName
  <2>3. QED
    BY <2>1, <2>2, RecoveredSame
<1>6. OnDisk'
  <2>1. ASSUME NEW t \in directory \ stopped
        PROVE  Faithful(Recovered(t)', applied[t], accepted[t])
    <3>1. Faithful(Recovered(t), applied[t], accepted[t])
      BY DEF HostInv, OnDisk
    <3>2. CASE t \in saved
      <4>1. /\ Restored(Recovered(t)).order = Recovered(t).order
            /\ Restored(Recovered(t)).sequence = Recovered(t).sequence
        BY <1>3, RestoredType
      <4>2. Faithful(Restored(Recovered(t)), applied[t], accepted[t])
        BY <3>1, <4>1, FaithfulLike
      <4>3. QED
        BY <1>4, <3>2, <4>2
    <3>3. CASE t \notin saved
      BY <1>2, <1>5, <3>1, <3>3
    <3>4. QED
      BY <3>2, <3>3
  <2>2. QED
    BY <2>1 DEF OnDisk
<1>7. DiskNames'
  <2>1. ASSUME NEW t \in directory' PROVE HasSource(t)' => HasSource(t) /\ DiskName(t)' = DiskName(t)
    <3>1. t \in directory /\ t \in Sessions
      BY <1>2, <2>1
    <3>2. QED
      BY <1>3, <1>4, <1>5, <3>1
  <2>2. QED
    BY <2>1, DiskNamesSame DEF HostInv
<1>8. ASSUME NEW t \in Sessions
      PROVE  /\ manifest'[t] \in Names \cup {NoName}
             /\ checkpoint'[t] \in Memories \cup {NoCheckpoint}
             /\ checkpoint'[t] # NoCheckpoint => Len(checkpoint'[t].order) <= Window
  <2>1. CASE t \in saved
    BY <1>3, <1>4, <2>1
  <2>2. CASE t \notin saved
    BY <1>2, <1>3, <1>5, <2>2 DEF HostTypeOK, WindowsFit
  <2>3. QED
    BY <2>1, <2>2
<1>9. /\ manifest' \in [Sessions -> Names \cup {NoName}]
      /\ checkpoint' \in [Sessions -> Memories \cup {NoCheckpoint}]
  <2>1. manifest' = [t \in Sessions |-> manifest'[t]] /\ checkpoint' = [t \in Sessions |-> checkpoint'[t]]
    BY <1>1
  <2>2. QED
    BY <1>8, <2>1
<1>10. WindowsFit'
  BY <1>8 DEF WindowsFit
<1>11. QED
  BY <1>4, <1>5, <1>6, <1>7, <1>9, <1>10

LEMMA CutRestartKeeps ==
  ASSUME HostInv, NEW named \in SUBSET Sessions, NEW saved \in SUBSET Sessions, CutRestart(named, saved)
  PROVE  HostInv'
<1>1. /\ ~up /\ Loadable /\ saved \subseteq named /\ named \subseteq directory /\ PersistLoaded(named, saved)
      /\ UNCHANGED vars /\ UNCHANGED <<up, domain, logSequence>>
      /\ UNCHANGED <<directory, journal, applied, accepted, stopped>>
  BY DEF CutRestart, vars, logVars
<1>2. CoreInv' /\ TypeOK' /\ HostTypeOK
  <2>1. CoreInv'
    BY <1>1, CoreInductive DEF HostInv
  <2>2. QED
    BY <2>1 DEF CoreInv, HostInv
<1>3. /\ UNCHANGED <<issued, live, sequence, committed, commitOrder>>
  BY <1>1 DEF vars, nameVars, logVars
<1>4. /\ manifest' \in [Sessions -> Names \cup {NoName}]
      /\ checkpoint' \in [Sessions -> Memories \cup {NoCheckpoint}]
      /\ WindowsFit' /\ OnDisk' /\ DiskNames'
      /\ \A t \in Sessions \ named : manifest'[t] = manifest[t] /\ checkpoint'[t] = checkpoint[t]
  BY <1>1, PersistLoadedKeeps
<1>5. live = {}
  BY <1>1 DEF HostInv, Serving
<1>6. HostTypeOK'
  BY <1>1, <1>2, <1>3, <1>4 DEF HostTypeOK
<1>7. NeverIssued'
  BY <1>1, <1>2, <1>3, <1>4 DEF HostInv, NeverIssued, HostTypeOK
<1>8. InMemory' /\ Serving' /\ Identified'
  BY <1>1, <1>3, <1>5 DEF InMemory, Serving, Identified
<1>9. QED
  BY <1>2, <1>4, <1>6, <1>7, <1>8 DEF HostInv

LEMMA GreatestPlace ==
  ASSUME NEW n \in Nat, NEW T \in SUBSET (1 .. n), T # {}
  PROVE  Max(T) \in T
<1> DEFINE U == {n - x : x \in T}
<1>1. U \subseteq Nat /\ U # {}
  <2>1. \A x \in T : n - x \in Nat
    OBVIOUS
  <2>2. U \subseteq Nat
    BY <2>1
  <2>3. PICK x \in T : TRUE
    OBVIOUS
  <2>4. n - x \in U
    BY <2>3
  <2>5. QED
    BY <2>2, <2>4
<1>2. PICK u \in U : \A v \in U : u <= v
  <2> HIDE DEF U
  <2>1. QED
    BY <1>1, LeastNumber
<1>3. PICK x \in T : u = n - x
  BY <1>2
<1>4. ASSUME NEW y \in T PROVE x >= y
  <2>1. n - y \in U
    OBVIOUS
  <2>2. n - x <= n - y
    BY <1>2, <1>3, <2>1
  <2>3. QED
    BY <2>2
<1>5. \E z \in T : \A y \in T : z >= y
  BY <1>4
<1>6. QED
  BY <1>5 DEF Max

(* The places of r in a window, and what a leader that loads it remembers. *)
PlacesIn(order, r) == {k \in DOMAIN order : order[k].request = r}

LEMMA LoadedType ==
  ASSUME NEW s, Recovered(s) \in Loadables
  PROVE  /\ LoadedOrder(s) \in Seq(Requests)
         /\ Len(LoadedOrder(s)) = Len(Recovered(s).order)
         /\ Len(LoadedOrder(s)) <= Window
         /\ LoadedCommitted(s) \in [Requests -> Nat]
<1> DEFINE order == Recovered(s).order
<1>1. /\ order \in Seq(Entries) /\ Len(order) <= Window
  BY DEF Loadables
<1>2. /\ LoadedOrder(s) = [k \in DOMAIN order |-> order[k].request]
      /\ LoadedCommitted(s) =
           [r \in Requests |-> IF PlacesIn(order, r) = {} THEN 0
                               ELSE order[Max(PlacesIn(order, r))].sequence]
  BY DEF LoadedOrder, LoadedCommitted, PlacesIn
<1> HIDE DEF order
<1>3. /\ DOMAIN order = 1 .. Len(order) /\ Len(order) \in Nat
      /\ \A k \in 1 .. Len(order) : order[k] \in Entries
  BY <1>1
<1>4. \A k \in 1 .. Len(order) : order[k].request \in Requests /\ order[k].sequence \in Nat
  BY <1>3 DEF Entries
<1>5. LoadedOrder(s) \in Seq(Requests) /\ Len(LoadedOrder(s)) = Len(order)
  BY <1>2, <1>3, <1>4
<1>6. ASSUME NEW r \in Requests, PlacesIn(order, r) # {}
      PROVE  order[Max(PlacesIn(order, r))].sequence \in Nat
  <2>1. PlacesIn(order, r) \in SUBSET (1 .. Len(order))
    BY <1>3 DEF PlacesIn
  <2>2. Max(PlacesIn(order, r)) \in PlacesIn(order, r)
    BY <1>3, <1>6, <2>1, GreatestPlace
  <2>3. QED
    BY <1>4, <2>1, <2>2
<1>7. LoadedCommitted(s) \in [Requests -> Nat]
  BY <1>2, <1>6
<1>8. QED
  BY <1>1, <1>5, <1>7 DEF order

(* A faithful memory, once loaded, remembers the window of the history. *)
LEMMA LoadedRemembers ==
  ASSUME NEW s, NEW log \in Seq(Applied), NEW acc,
         Recovered(s) \in Loadables, Faithful(Recovered(s), log, acc)
  PROVE  Remembers(LoadedOrder(s), LoadedCommitted(s), log)
<1> DEFINE order == Recovered(s).order
           n == Len(log)
           m == Recent(log)
<1>1. /\ LoadedOrder(s) = [k \in DOMAIN order |-> order[k].request]
      /\ LoadedCommitted(s) =
           [r \in Requests |-> IF PlacesIn(order, r) = {} THEN 0
                               ELSE order[Max(PlacesIn(order, r))].sequence]
  BY DEF LoadedOrder, LoadedCommitted, PlacesIn
<1>2. /\ m \in Nat /\ m <= Window /\ n \in Nat /\ Window \in Nat
      /\ \A k \in 1 .. m : n - m + k \in 1 .. n
      /\ RecentOf(log) \in Seq(Entries) /\ Len(RecentOf(log)) = m
      /\ \A k \in 1 .. m : RecentOf(log)[k] = EntryOf(log[n - m + k])
  BY RecentFacts, CoreAssumption
<1>3. order = RecentOf(log) /\ Once(log)
  BY DEF Faithful
<1>4. Len(LoadedOrder(s)) = Len(order)
  BY LoadedType
<1> HIDE DEF order
<1>5. /\ DOMAIN order = 1 .. m /\ Len(order) = m
      /\ \A k \in 1 .. m : order[k] = EntryOf(log[n - m + k])
  BY <1>2, <1>3
<1>6. \A k \in 1 .. n : log[k] \in Applied
  OBVIOUS
<1>7. ASSUME NEW k \in 1 .. m
      PROVE  /\ log[n - m + k].request \in Requests
             /\ order[k].request = log[n - m + k].request
             /\ order[k].sequence = log[n - m + k].sequence
  BY <1>2, <1>5, <1>6 DEF EntryOf, Applied
<1>8. ASSUME NEW r \in Requests, NEW k \in PlacesIn(order, r)
      PROVE  LoadedCommitted(s)[r] = order[k].sequence
  <2> DEFINE j == Max(PlacesIn(order, r))
  <2>1. PlacesIn(order, r) \in SUBSET (1 .. m) /\ PlacesIn(order, r) # {}
    BY <1>5, <1>8 DEF PlacesIn
  <2>2. j \in PlacesIn(order, r)
    BY <1>2, <2>1, GreatestPlace
  <2>3. LoadedCommitted(s)[r] = order[j].sequence
    BY <1>1, <2>1
  <2> HIDE DEF j
  <2>4. /\ j \in 1 .. m /\ k \in 1 .. m
        /\ log[n - m + j].request = r /\ log[n - m + k].request = r
    BY <1>5, <1>7, <1>8, <2>2 DEF PlacesIn
  <2>5. j = k
    <3>1. n - m + j \in 1 .. n /\ n - m + k \in 1 .. n
      BY <1>2, <2>4
    <3>2. ~(n - m + j < n - m + k)
      <4>1. ~((n - m + k) - (n - m + j) > Window)
        BY <1>2, <2>4
      <4>2. QED
        BY <1>3, <2>4, <3>1, <4>1 DEF Once
    <3>3. ~(n - m + k < n - m + j)
      <4>1. ~((n - m + j) - (n - m + k) > Window)
        BY <1>2, <2>4
      <4>2. QED
        BY <1>3, <2>4, <3>1, <4>1 DEF Once
    <3>4. QED
      BY <1>2, <2>4, <3>2, <3>3
  <2>6. QED
    BY <2>3, <2>5
<1>9. ASSUME NEW k \in 1 .. m
      PROVE  /\ LoadedOrder(s)[k] = log[n - m + k].request
             /\ LoadedCommitted(s)[log[n - m + k].request] = log[n - m + k].sequence
  <2>1. LoadedOrder(s)[k] = log[n - m + k].request
    BY <1>1, <1>5, <1>7
  <2>2. k \in PlacesIn(order, log[n - m + k].request)
    BY <1>5, <1>7 DEF PlacesIn
  <2>3. QED
    BY <1>7, <1>8, <2>1, <2>2
<1>10. ASSUME NEW q \in Requests, LoadedCommitted(s)[q] # 0
       PROVE  \E k \in 1 .. m : LoadedOrder(s)[k] = q
  <2>1. PICK k \in PlacesIn(order, q) : TRUE
    BY <1>1, <1>10
  <2>2. k \in 1 .. m /\ order[k].request = q
    BY <1>5, <2>1 DEF PlacesIn
  <2>3. QED
    BY <1>1, <1>5, <2>2
<1>11. QED
  BY <1>4, <1>5, <1>9, <1>10 DEF Remembers

LEMMA RestartKeeps == ASSUME HostInv, Restart PROVE HostInv'
<1>1. /\ ~up /\ Loadable /\ up' = TRUE /\ live' = directory
      /\ name' = [s \in Sessions |-> IF s \in directory THEN Recovered(s).name ELSE NoName]
      /\ names' = LoadedNames
      /\ sequence' = [s \in Sessions |-> IF s \in directory THEN Recovered(s).sequence
                                         ELSE sequence[s]]
      /\ leaseEpoch' = [s \in Sessions |-> IF s \in directory THEN Recovered(s).leaseEpoch
                                           ELSE leaseEpoch[s]]
      /\ commitOrder' = [s \in Sessions |-> IF s \in directory THEN LoadedOrder(s)
                                            ELSE commitOrder[s]]
      /\ committed' = [s \in Sessions |-> IF s \in directory THEN LoadedCommitted(s)
                                          ELSE committed[s]]
      /\ domain' = [s \in Sessions |-> IF s \in directory THEN Recovered(s).domain ELSE domain[s]]
      /\ logSequence' = [s \in Sessions |-> IF s \in directory THEN Recovered(s).log
                                            ELSE logSequence[s]]
      /\ PersistLoaded(directory, directory)
      /\ UNCHANGED <<instance, attached, issued, subscribers, driver>>
      /\ UNCHANGED <<directory, journal, applied, accepted, stopped>>
  BY DEF Restart, clientVars
<1>2. HostTypeOK /\ TypeOK /\ WindowsFit /\ CoreInv
  BY DEF HostInv, HostTypeOK
<1>3. live = {} /\ directory \subseteq Sessions /\ directory \subseteq issued
  BY <1>1, <1>2 DEF HostInv, Serving, HostTypeOK, TypeOK
<1>4. ASSUME NEW t \in directory
      PROVE  /\ t \in Sessions /\ Recovered(t) \in Memories /\ Recovered(t) \in Loadables
             /\ Recovered(t).name \in Names /\ Len(Recovered(t).order) <= Window
  <2>1. t \in Sessions /\ HasSource(t)
    BY <1>1, <1>3 DEF Loadable
  <2>2. Recovered(t) \in Loadables /\ Recovered(t) \in Memories
    BY <1>2, <2>1, RecoveredType
  <2>3. QED
    BY <2>1, <2>2 DEF Loadables, Memories
<1>5. /\ manifest' \in [Sessions -> Names \cup {NoName}]
      /\ checkpoint' \in [Sessions -> Memories \cup {NoCheckpoint}]
      /\ WindowsFit' /\ OnDisk' /\ DiskNames'
      /\ \A t \in directory : /\ manifest'[t] = Recovered(t).name
                              /\ checkpoint'[t] = Recovered(t)
                              /\ Recovered(t)' = Restored(Recovered(t))
      /\ \A t \in Sessions \ directory : manifest'[t] = manifest[t] /\ checkpoint'[t] = checkpoint[t]
  BY <1>1, PersistLoadedKeeps
<1>6. NamesAgree'
  <2>1. ASSUME NEW t \in directory
        PROVE  /\ name'[t] = Recovered(t).name /\ name'[t] \in Names
               /\ names'[name'[t]] = t
    <3>1. name'[t] = Recovered(t).name /\ Recovered(t).name \in Names
      BY <1>1, <1>4
    <3>2. LoadedNames[Recovered(t).name] = CHOOSE u \in directory : Recovered(u).name = Recovered(t).name
      BY <3>1 DEF LoadedNames
    <3>3. \A u \in directory : Recovered(u).name = Recovered(t).name => u = t
      BY <1>1 DEF Loadable
    <3>4. (CHOOSE u \in directory : Recovered(u).name = Recovered(t).name) = t
      BY <3>3
    <3>5. QED
      BY <1>1, <3>1, <3>2, <3>4
  <2>2. ASSUME NEW n \in Names, names'[n] # NoSession
        PROVE  names'[n] \in directory /\ name'[names'[n]] = n
    <3>1. /\ \E u \in directory : Recovered(u).name = n
          /\ names'[n] = CHOOSE u \in directory : Recovered(u).name = n
      BY <1>1, <2>2 DEF LoadedNames
    <3>2. names'[n] \in directory /\ Recovered(names'[n]).name = n
      BY <3>1
    <3>3. QED
      BY <2>1, <3>2
  <2>3. live' = directory
    BY <1>1
  <2>4. \A t \in live' : name'[t] # NoName /\ names'[name'[t]] = t
    BY <2>1, <2>3, CoreAssumption
  <2>5. \A n \in Names : names'[n] # NoSession => names'[n] \in live' /\ name'[names'[n]] = n
    BY <2>2, <2>3
  <2>6. QED
    BY ONLY <2>4, <2>5 DEF NamesAgree
<1>7. TypeOK'
  <2>1. ASSUME NEW t \in directory
        PROVE  /\ LoadedOrder(t) \in Seq(Requests) /\ Len(LoadedOrder(t)) <= Window
               /\ LoadedCommitted(t) \in [Requests -> Nat]
               /\ Recovered(t).sequence \in Nat /\ Recovered(t).leaseEpoch \in Nat
               /\ Recovered(t).name \in Names
    BY <1>4, LoadedType DEF Loadables
  <2>2. /\ sequence' \in [Sessions -> Nat] /\ leaseEpoch' \in [Sessions -> Nat]
        /\ name' \in [Sessions -> Names \cup {NoName}]
    BY <1>1, <1>2, <2>1 DEF TypeOK
  <2>3. /\ commitOrder' \in [Sessions -> Seq(Requests)]
        /\ \A t \in Sessions : Len(commitOrder'[t]) <= Window
        /\ committed' \in [Sessions -> [Requests -> Nat]]
    BY <1>1, <1>2, <2>1 DEF TypeOK
  <2>4. names' \in [Names -> Sessions \cup {NoSession}]
    BY <1>1, <1>3 DEF LoadedNames
  <2>5. live' \in SUBSET issued'
    BY <1>1, <1>3
  <2>6. QED
    BY <1>1, <1>2, <2>2, <2>3, <2>4, <2>5 DEF TypeOK
<1>8. \A c \in Connections : attached[c] = {}
  BY <1>2, <1>3 DEF CoreInv, SubscriptionsAgree
<1>9. \A s \in Sessions : subscribers[s] = {}
  BY <1>2, <1>8 DEF CoreInv, SubscriptionsAgree, TypeOK
<1>10. SubscriptionsAgree'
  BY <1>1, <1>2, <1>8 DEF CoreInv, SubscriptionsAgree
<1>11. DriverIsAttached' /\ LeaseIsCurrent'
  <2>1. \A s \in Sessions : driver[s].owner = NoInstance
    BY <1>2, <1>9 DEF CoreInv, DriverIsAttached
  <2>2. \A s \in Sessions : driver[s] = NoLease
    BY <1>2, <2>1 DEF CoreInv, LeaseIsCurrent
  <2>3. QED
    BY <1>1, <2>1, <2>2 DEF DriverIsAttached, LeaseIsCurrent
<1>12. CoreInv'
  BY <1>6, <1>7, <1>10, <1>11 DEF CoreInv
<1>13. HostTypeOK'
  <2>1. ASSUME NEW t \in directory
        PROVE  Recovered(t).domain \in Seq(Events) /\ Recovered(t).log \in Nat
    BY <1>4 DEF Loadables
  <2>2. domain' \in [Sessions -> Seq(Events)] /\ logSequence' \in [Sessions -> Nat]
    BY <1>1, <1>2, <2>1 DEF HostTypeOK
  <2>3. QED
    BY <1>1, <1>2, <1>5, <1>7, <2>2 DEF HostTypeOK
<1>14. NeverIssued'
  <2>1. ASSUME NEW t \in Sessions \ issued
        PROVE  /\ t \notin directory
               /\ sequence'[t] = sequence[t] /\ logSequence'[t] = logSequence[t]
               /\ domain'[t] = domain[t] /\ commitOrder'[t] = commitOrder[t]
               /\ committed'[t] = committed[t]
               /\ manifest'[t] = manifest[t] /\ checkpoint'[t] = checkpoint[t]
    BY <1>1, <1>3, <1>5
  <2>2. QED
    BY <1>1, <2>1 DEF HostInv, NeverIssued
<1>15. InMemory'
  <2>1. ASSUME NEW t \in directory \ stopped PROVE Mirrors(t)'
    <3>1. t \in Sessions /\ Recovered(t) \in Loadables /\ Recovered(t) \in Memories
          /\ Len(Recovered(t).order) <= Window
      BY <1>4
    <3>2. Recovered(t)' = Restored(Recovered(t))
      BY <1>5
    <3>3. /\ sequence'[t] = Recovered(t).sequence /\ domain'[t] = Recovered(t).domain
          /\ logSequence'[t] = Recovered(t).log
          /\ commitOrder'[t] = LoadedOrder(t) /\ committed'[t] = LoadedCommitted(t)
      BY <1>1, <3>1
    <3>4. /\ Restored(Recovered(t)).sequence = Recovered(t).sequence
          /\ Restored(Recovered(t)).domain = Recovered(t).domain
          /\ Restored(Recovered(t)).log = Recovered(t).log
      BY <3>1, RestoredType
    <3>5. applied[t] \in Seq(Applied) /\ Faithful(Recovered(t), applied[t], accepted[t])
      BY <1>2, <3>1 DEF HostInv, OnDisk, TypeOK
    <3>6. Remembers(LoadedOrder(t), LoadedCommitted(t), applied[t])
      BY <3>1, <3>5, LoadedRemembers
    <3>7. QED
      BY <1>1, <3>2, <3>3, <3>4, <3>6 DEF Mirrors
  <2>2. QED
    BY <1>1, <2>1 DEF InMemory
<1>16. Serving' /\ Identified'
  <2>1. Serving'
    BY <1>1 DEF Serving
  <2>2. ASSUME NEW t \in directory
        PROVE  checkpoint'[t] # NoCheckpoint /\ checkpoint'[t].name = name'[t] /\ manifest'[t] = name'[t]
    BY <1>1, <1>4, <1>5, CheckpointAssumption
  <2>3. QED
    BY <1>1, <2>1, <2>2 DEF Identified
<1>17. QED
  BY <1>5, <1>12, <1>13, <1>14, <1>15, <1>16 DEF HostInv

-----------------------------------------------------------------------------
(* The invariant of the host *)

LEMMA HostInvInit == HostInit => HostInv
<1> SUFFICES ASSUME HostInit PROVE HostInv
  OBVIOUS
<1>1. CoreInv /\ TypeOK
  BY InitCore DEF HostInit, CoreInv
<1>2. <<>> \in Seq(Events) /\ <<>> \in Seq(Records)
  OBVIOUS
<1>3. HostTypeOK
  BY <1>1, <1>2 DEF HostInit, HostTypeOK
<1>4. WindowsFit /\ NeverIssued
  BY DEF HostInit, Init, WindowsFit, NeverIssued
<1>5. live = {} /\ directory = {} /\ up = TRUE
  BY DEF HostInit, Init
<1>6. OnDisk /\ InMemory /\ Serving /\ Identified /\ DiskNames
  BY <1>5 DEF OnDisk, InMemory, Serving, Identified, DiskNames
<1>7. QED
  BY <1>1, <1>3, <1>4, <1>6 DEF HostInv

LEMMA HostStutter == ASSUME HostInv, UNCHANGED allVars PROVE HostInv'
<1>1. /\ UNCHANGED vars
      /\ UNCHANGED <<issued, live, name, sequence, committed, commitOrder, applied>>
      /\ UNCHANGED <<up, domain, logSequence, directory, manifest, checkpoint, journal>>
      /\ UNCHANGED <<accepted, stopped>>
  BY DEF allVars, vars, nameVars, logVars, hostVars, diskVars
<1>2. CoreInv'
  BY <1>1, CoreInductive DEF HostInv
<1>3. HostTypeOK'
  BY <1>1, <1>2 DEF HostInv, HostTypeOK, CoreInv
<1>4. ASSUME NEW t \in Sessions PROVE SameSession(t)
  BY <1>1 DEF SameSession
<1>5. CASE \E s \in Sessions : s \in issued
  <2>1. PICK s \in Sessions : s \in issued
    BY <1>5
  <2>2. DiskNames' /\ Serving'
    BY <1>1 DEF HostInv, DiskNames, HasSource, DiskName, Serving
  <2>3. s \in directory \ stopped => Faithful(Recovered(s)', applied'[s], accepted'[s])
    <3>1. Recovered(s)' = Recovered(s)
      BY <1>4, SameSessionKeeps
    <3>2. QED
      BY <1>1, <3>1 DEF HostInv, OnDisk
  <2>4. s \in live \ stopped => Mirrors(s)'
    BY <1>4, SameSessionKeeps DEF HostInv, InMemory
  <2>5. s \in live => /\ checkpoint'[s] # NoCheckpoint /\ checkpoint'[s].name = name'[s]
                      /\ manifest'[s] = name'[s]
    BY <1>1 DEF HostInv, Identified
  <2>6. checkpoint'[s] # NoCheckpoint => Len(checkpoint'[s].order) <= Window
    BY <1>1 DEF HostInv, WindowsFit
  <2>7. QED
    BY <1>1, <1>2, <1>3, <1>4, <2>1, <2>2, <2>3, <2>4, <2>5, <2>6, OneSessionKeeps
<1>6. CASE ~ \E s \in Sessions : s \in issued
  <2>1. live' = {} /\ directory' = {}
    BY <1>1, <1>6 DEF HostInv, HostTypeOK, TypeOK
  <2>2. OnDisk' /\ InMemory' /\ Identified' /\ DiskNames'
    BY <2>1 DEF OnDisk, InMemory, Identified, DiskNames
  <2>3. WindowsFit' /\ NeverIssued' /\ Serving'
    BY <1>1 DEF HostInv, WindowsFit, NeverIssued, Serving
  <2>4. QED
    BY <1>2, <1>3, <2>2, <2>3 DEF HostInv
<1>7. QED
  BY <1>5, <1>6

LEMMA HostInvInductive == HostInv /\ [HostNext]_allVars => HostInv'
<1> SUFFICES ASSUME HostInv, [HostNext]_allVars PROVE HostInv'
  OBVIOUS
<1>1. CASE Control
  BY <1>1, ControlKeeps
<1>2. ASSUME NEW s \in Sessions, NEW raw \in RawNames, HostCreate(s, raw) PROVE HostInv'
  BY <1>2, CreatedKeeps DEF HostCreate
<1>3. ASSUME NEW s \in Sessions, NEW raw \in RawNames, HostRename(s, raw) PROVE HostInv'
  BY <1>3, HostRenameKeeps
<1>4. ASSUME NEW s \in Sessions, HostStop(s) PROVE HostInv'
  BY <1>4, HostStopKeeps
<1>5. ASSUME NEW c \in Connections, NEW s \in Sessions, NEW r \in Requests, NEW n \in EventCounts,
             NEW e \in 1 .. MaxEpoch[s], HostCommand(c, s, e, r, n)
      PROVE  HostInv'
  <2>1. e \in Nat
    BY CoreAssumption
  <2>2. QED
    BY <1>5, <2>1, HostCommandKeeps
<1>6. ASSUME NEW c \in Connections, NEW s \in Sessions, NEW r \in Requests, HostDuplicate(c, s, r)
      PROVE  HostInv'
  BY <1>6, HostDuplicateKeeps
<1>7. ASSUME NEW s \in Sessions, NEW n \in EventCounts, HostPoll(s, n) PROVE HostInv'
  BY <1>7, HostPollKeeps
<1>8. CASE Crash
  BY <1>8, CrashKeeps
<1>9. ASSUME NEW s \in Sessions, NEW raw \in RawNames, CutCreate(s, raw) PROVE HostInv'
  BY <1>9, CutCreateKeeps
<1>10. ASSUME NEW s \in Sessions, NEW raw \in RawNames, CutRename(s, raw) PROVE HostInv'
  BY <1>10, CutRenameKeeps
<1>11. ASSUME NEW s \in Sessions, CutStop(s) PROVE HostInv'
  BY <1>11, CutStopKeeps
<1>12. ASSUME NEW saved \in SUBSET Sessions, Shutdown(saved) PROVE HostInv'
  BY <1>12, ShutdownKeeps
<1>13. CASE Restart
  BY <1>13, RestartKeeps
<1>14. ASSUME NEW named \in SUBSET Sessions, NEW saved \in SUBSET Sessions, CutRestart(named, saved) PROVE HostInv'
  BY <1>14, CutRestartKeeps
<1>15. ASSUME NEW s \in Sessions, NEW raw \in RawNames, RestartEmpty(s, raw) PROVE HostInv'
  <2>1. directory' = directory \cup {s}
    BY <1>15 DEF RestartEmpty
  <2>2. QED
    BY <1>15, <2>1, CreatedKeeps DEF RestartEmpty
<1>16. CASE UNCHANGED allVars
  BY <1>16, HostStutter
<1>17. QED
  BY <1>1, <1>2, <1>3, <1>4, <1>5, <1>6, <1>7, <1>8, <1>9, <1>10, <1>11, <1>12, <1>13, <1>14,
     <1>15, <1>16 DEF HostNext

LEMMA HostCorrect == HostSpec => []HostInv
BY HostInvInit, HostInvInductive, PTL DEF HostSpec

(* Only the sessions of a running leader are kept. *)
LEMMA KeptIsServed == ASSUME HostInv, NEW s \in Kept PROVE up /\ s \in live \ stopped /\ s \in Sessions
BY DEF Kept, HostInv, Serving, HostTypeOK, TypeOK

(***************************************************************************)
(* However journal appends, renames, shutdowns, restarts and crashes       *)
(* interleave, and however long the journal is, the next leader would load *)
(* of a session exactly what this one has in memory.                       *)
(***************************************************************************)
THEOREM CrashesLoseNothing == HostSpec => []MemoryIsDurable
<1>1. ASSUME HostInv PROVE MemoryIsDurable
  <2>1. SUFFICES ASSUME NEW s \in Kept
                 PROVE  [Recovered(s) EXCEPT !.leaseEpoch = leaseEpoch[s]] = MemoryOf(s, name[s])
    BY DEF MemoryIsDurable
  <2>2. up /\ s \in live \ stopped /\ s \in Sessions
    BY <1>1, KeptIsServed
  <2>3. /\ MemoryOf(s, name[s]).order = Recovered(s).order
        /\ MemoryOf(s, name[s]).sequence = Recovered(s).sequence
        /\ MemoryOf(s, name[s]).domain = Recovered(s).domain
        /\ MemoryOf(s, name[s]).log = Recovered(s).log
    BY <1>1, <2>2, MemoryIsLoaded
  <2>4. Recovered(s) \in Loadables /\ Recovered(s).name = DiskName(s)
    BY <1>1, <2>2, RecoveredType DEF HostInv
  <2>5. DiskName(s) = name[s]
    BY <1>1, <2>2 DEF HostInv, Identified, DiskName
  <2>6. /\ MemoryOf(s, name[s]).name = name[s] /\ MemoryOf(s, name[s]).leaseEpoch = leaseEpoch[s]
        /\ MemoryOf(s, name[s]) =
             [name |-> MemoryOf(s, name[s]).name,
              sequence |-> MemoryOf(s, name[s]).sequence,
              leaseEpoch |-> MemoryOf(s, name[s]).leaseEpoch,
              order |-> MemoryOf(s, name[s]).order,
              domain |-> MemoryOf(s, name[s]).domain,
              log |-> MemoryOf(s, name[s]).log]
    BY DEF MemoryOf
  <2>7. [Recovered(s) EXCEPT !.leaseEpoch = leaseEpoch[s]] =
          [name |-> Recovered(s).name, sequence |-> Recovered(s).sequence,
           leaseEpoch |-> leaseEpoch[s], order |-> Recovered(s).order,
           domain |-> Recovered(s).domain, log |-> Recovered(s).log]
    BY <2>4 DEF Loadables
  <2>8. QED
    BY <2>3, <2>4, <2>5, <2>6, <2>7
<1>2. QED
  BY <1>1, HostCorrect, PTL

(***************************************************************************)
(* A client is told the same sequence for a request by every leader that   *)
(* remembers it, for any window and any number of restarts.                *)
(***************************************************************************)
THEOREM AnswersSurviveRestarts == HostSpec => []RetriesAnswerAlike
<1>1. ASSUME HostInv PROVE RetriesAnswerAlike
  <2>1. SUFFICES ASSUME NEW s \in Kept, NEW r \in Requests, accepted[s][r] # 0
                 PROVE  /\ accepted[s][r] <= sequence[s]
                        /\ committed[s][r] \in {0, accepted[s][r]}
    BY DEF RetriesAnswerAlike
  <2>2. up /\ s \in live \ stopped /\ s \in Sessions
    BY <1>1, KeptIsServed
  <2>3. Faithful(Recovered(s), applied[s], accepted[s])
    BY <1>1, <2>2, MemoryIsLoaded
  <2>4. /\ Recovered(s).sequence = sequence[s]
        /\ Remembers(commitOrder[s], committed[s], applied[s])
        /\ applied[s] \in Seq(Applied)
    BY <1>1, <2>2 DEF HostInv, InMemory, Mirrors, HostTypeOK, TypeOK
  <2>5. accepted[s][r] <= sequence[s]
    BY <2>3, <2>4 DEF Faithful
  <2>6. ASSUME committed[s][r] # 0 PROVE committed[s][r] = accepted[s][r]
    <3> DEFINE memory == Recovered(s)
               log == applied[s]
               acc == accepted[s]
               order == commitOrder[s]
               known == committed[s]
    <3>1. /\ log \in Seq(Applied) /\ Faithful(memory, log, acc)
          /\ Remembers(order, known, log) /\ known[r] # 0
      BY <2>3, <2>4, <2>6
    <3> HIDE DEF memory, log, acc, order, known
    <3>2. known[r] = acc[r]
      BY <3>1, RememberedIsAccepted
    <3>3. QED
      BY <3>2 DEF known, acc
  <2>7. QED
    BY <2>5, <2>6
<1>2. QED
  BY <1>1, HostCorrect, PTL

(***************************************************************************)
(* Crashes and restarts neither shorten nor lengthen the window: it is the *)
(* last Window commands ever applied, and none repeats another.            *)
(***************************************************************************)
THEOREM RestartsApplyOnce == HostSpec => []OnceAcrossRestarts
<1>1. ASSUME HostInv PROVE OnceAcrossRestarts
  <2>1. SUFFICES ASSUME NEW s \in Kept PROVE OnceIn(s) /\ WindowOf(s)
    BY DEF OnceAcrossRestarts
  <2>2. up /\ s \in live \ stopped
    BY <1>1, KeptIsServed
  <2>3. Once(applied[s]) /\ Remembers(commitOrder[s], committed[s], applied[s])
    BY <1>1, <2>2, MemoryIsLoaded DEF Faithful, HostInv, InMemory, Mirrors
  <2>4. OnceIn(s)
    BY <2>3 DEF Once, OnceIn
  <2>5. WindowOf(s)
    BY <2>3 DEF Remembers, WindowOf
  <2>6. QED
    BY <2>4, <2>5
<1>2. QED
  BY <1>1, HostCorrect, PTL

(***************************************************************************)
(* No two sessions bear one name, in the index of the leader or on disk,   *)
(* whichever file of a create, a rename, a removal or a restart was the    *)
(* last to be written.                                                     *)
(***************************************************************************)
THEOREM NamesStayDistinct == HostSpec => []NamesAreDistinct
<1>1. ASSUME HostInv PROVE NamesAreDistinct
  <2>1. \A s \in directory : Recovered(s).name = DiskName(s)
    BY <1>1, RecoveredType DEF HostInv, HostTypeOK, TypeOK
  <2>2. DiskNamesDistinct
    BY <1>1, <2>1 DEF HostInv, DiskNames, DiskNamesDistinct
  <2>3. QED
    BY <1>1, <2>2 DEF HostInv, CoreInv, NamesAreDistinct
<1>2. QED
  BY <1>1, HostCorrect, PTL

=============================================================================
